--------------------------- MODULE PaymentProofs ---------------------------
(***************************************************************************)
(* Proofs about Payment, for any sets of orders, users, requests and       *)
(* amounts and any number of crashes.                                      *)
(***************************************************************************)
EXTENDS Payment, TLAPS

Charging(r) == req[r].pc \in {"record", "credit"}

\* The strengthening that makes the safety properties inductive.  A request
\* in charge() has a PAID order that is not credited yet, and how far it got is
\* what records says; a request about to call pay_transaction was told SUCCESS.
RequestInv ==
  \A r \in Requests :
    /\ req[r].trade_status = "SUCCESS" => trade[req[r].order] = "SUCCESS"
    /\ req[r].pc = "pay" => req[r].trade_status = "SUCCESS"
    /\ Charging(r) => /\ status[req[r].order] = "PAID"
                      /\ granted[req[r].order] = 0
    /\ req[r].pc = "record" => records[req[r].order] = 0
    /\ req[r].pc = "credit" => records[req[r].order] = 1

\* No two requests are in charge() for the same order.
ExclusiveCharge ==
  \A r, q \in Requests :
    (r # q /\ Charging(r) /\ Charging(q)) => req[r].order # req[q].order

OrderInv ==
  \A o \in Orders :
    /\ status[o] = "PAID" => trade[o] = "SUCCESS"
    /\ status[o] # "PAID" => records[o] = 0
    /\ granted[o] <= records[o]
    /\ records[o] <= 1

IInv == TypeOK /\ RequestInv /\ ExclusiveCharge /\ OrderInv /\ StrandedOnlyByCrash

\* An amount of half gigabytes is stored as an integer and priced as one.
LEMMA PricingType == ASSUME NEW h \in Int
                     PROVE  StoredTraffic(h) \in Int /\ OrderTotal(h) \in Int
BY DEF StoredTraffic, OrderTotal, get_price, get_discount

LEMMA AnyOrderType == AnyOrder \in Orders /\ AnyUser \in Users
BY PaymentConstants DEF AnyOrder, AnyUser

RequestType == [pc : PcStates, order : Orders, trade_status : {"WAIT", "SUCCESS"}]

\* Goto moves one request and keeps its order and trade_status.
LEMMA GotoEffect ==
  ASSUME req \in [Requests -> RequestType], NEW r \in Requests,
         NEW c \in PcStates, Goto(r, c)
  PROVE  /\ req' \in [Requests -> RequestType]
         /\ req'[r].pc = c
         /\ req'[r].order = req[r].order
         /\ req'[r].trade_status = req[r].trade_status
         /\ \A q \in Requests \ {r} : req'[q] = req[q]
BY DEF Goto, RequestType

\* Every statement of the pages and every step of Alipay keeps the columns of
\* the tables and the request states within their types.
LEMMA TypeInductive == TypeOK /\ [Next]_vars => TypeOK'
<1> SUFFICES ASSUME TypeOK, [Next]_vars PROVE TypeOK'
  OBVIOUS
<1> USE DEF TypeOK
<1>1. ASSUME NEW o \in Orders, NEW u \in Users, NEW h \in Amounts, NewOrder(o, u, h)
      PROVE  TypeOK'
  <2>1. h \in Int
    BY PaymentConstants
  <2>2. StoredTraffic(h) \in Int /\ OrderTotal(h) \in Int
    BY <2>1, PricingType
  <2> QED BY <1>1, <2>2 DEF NewOrder, gateway, history
<1>2. ASSUME NEW o \in Orders, Pay(o) PROVE TypeOK'
  BY <1>2 DEF Pay, db, history
<1>3. ASSUME NEW o \in Orders, Notify(o) PROVE TypeOK'
  BY <1>3 DEF Notify, db, history
<1>4. ASSUME NEW r \in Requests, NEW o \in Orders, Redirect(r, o) PROVE TypeOK'
  BY <1>4 DEF Redirect, db, gateway, history, PcStates
<1>5. ASSUME NEW r \in Requests, Lookup(r) PROVE TypeOK'
  BY <1>5 DEF Lookup, Goto, db, gateway, history, PcStates
<1>6. ASSUME NEW r \in Requests, pay_transaction(r) PROVE TypeOK'
  <2> DEFINE o == req[r].order
  <2>1. o \in Orders
    OBVIOUS
  <2>2. status' \in [Orders -> {"NONE", "UNPAID", "PAID"}]
    BY <1>6, <2>1 DEF pay_transaction
  <2>3. req' \in [Requests -> RequestType]
    BY <1>6, GotoEffect DEF pay_transaction, RequestType, PcStates
  <2> QED
    BY <1>6, <2>2, <2>3 DEF pay_transaction, gateway, history, RequestType
<1>7. ASSUME NEW r \in Requests, ChargeRecord(r) PROVE TypeOK'
  BY <1>7 DEF ChargeRecord, Goto, gateway, history, PcStates
<1>8. ASSUME NEW r \in Requests, ChargeCredit(r) PROVE TypeOK'
  BY <1>8 DEF ChargeCredit, Goto, gateway, PcStates
<1>9. ASSUME NEW r \in Requests, Crash(r) PROVE TypeOK'
  BY <1>9, PaymentConstants DEF Crash, Goto, db, gateway, PcStates
<1>10. CASE UNCHANGED vars
  BY <1>10 DEF vars, db, gateway, history
<1> QED
  BY <1>1, <1>2, <1>3, <1>4, <1>5, <1>6, <1>7, <1>8, <1>9, <1>10 DEF Next, Serve

LEMMA TypeInitial == Init => TypeOK
BY AnyOrderType, PaymentConstants DEF Init, TypeOK, PcStates

\* Type correctness of the Alipay shop: in particular an order never has a
\* status other than UNPAID or PAID.
THEOREM TypeCorrect == Spec => []TypeOK
BY TypeInitial, TypeInductive, PTL DEF Spec

LEMMA InitialIInv == Init => IInv
<1> SUFFICES ASSUME Init PROVE IInv
  OBVIOUS
<1>1. TypeOK
  BY TypeInitial
<1> QED
  BY <1>1 DEF Init, IInv, RequestInv, ExclusiveCharge, OrderInv,
              StrandedOnlyByCrash, Charging

\* The invariant is kept by every step: only pay_transaction lets a request
\* into charge(), and it needs an UNPAID order, for which nobody is charging.
LEMMA InductiveIInv == IInv /\ [Next]_vars => IInv'
<1> SUFFICES ASSUME IInv, [Next]_vars PROVE IInv'
  OBVIOUS
<1> USE DEF IInv, RequestInv, ExclusiveCharge, OrderInv, StrandedOnlyByCrash, Charging
<1>t. TypeOK'
  BY TypeInductive
<1>r. req \in [Requests -> RequestType]
  BY DEF TypeOK, RequestType
<1>1. ASSUME NEW o \in Orders, NEW u \in Users, NEW h \in Amounts, NewOrder(o, u, h)
      PROVE  IInv'
  BY <1>1, <1>t, <1>r DEF NewOrder, gateway, history, TypeOK
<1>2. ASSUME NEW o \in Orders, Pay(o) PROVE IInv'
  BY <1>2, <1>t, <1>r DEF Pay, db, history, TypeOK
<1>3. ASSUME NEW o \in Orders, Notify(o) PROVE IInv'
  BY <1>3, <1>t DEF Notify, db, history
<1>4. ASSUME NEW r \in Requests, NEW o \in Orders, Redirect(r, o) PROVE IInv'
  <2>1. /\ req'[r] = [pc |-> "lookup", order |-> o, trade_status |-> trade[o]]
        /\ \A q \in Requests \ {r} : req'[q] = req[q]
        /\ req[r].pc = "idle"
    BY <1>4, <1>r DEF Redirect
  <2> QED
    BY <1>4, <1>t, <1>r, <2>1 DEF Redirect, db, gateway, history, TypeOK
<1>5. ASSUME NEW r \in Requests, Lookup(r) PROVE IInv'
  <2>1. PICK c \in {"pay", "idle"} :
           Goto(r, c) /\ (c = "pay" => req[r].trade_status = "SUCCESS")
    BY <1>5 DEF Lookup, get_transaction_by_id
  <2>2. c \in PcStates
    BY DEF PcStates
  <2> HIDE DEF IInv, RequestInv, ExclusiveCharge, OrderInv, StrandedOnlyByCrash
  <2>3. /\ req'[r].pc = c
        /\ req'[r].order = req[r].order
        /\ req'[r].trade_status = req[r].trade_status
        /\ \A q \in Requests \ {r} : req'[q] = req[q]
    BY <1>r, <2>1, <2>2, GotoEffect
  <2>4. UNCHANGED <<db, gateway, history, crashes>> /\ req[r].pc = "lookup"
    BY <1>5 DEF Lookup, get_transaction_by_id
  <2>5. \A q \in Requests : /\ req'[q].order = req[q].order
                            /\ req'[q].trade_status = req[q].trade_status
                            /\ Charging(q)' <=> Charging(q)
                            /\ q # r => req'[q].pc = req[q].pc
    BY <2>1, <2>3, <2>4 DEF Charging
  <2> QED
    BY <1>t, <2>1, <2>3, <2>4, <2>5
       DEF IInv, RequestInv, ExclusiveCharge, OrderInv, StrandedOnlyByCrash,
           db, gateway, history
<1>6. ASSUME NEW r \in Requests, pay_transaction(r) PROVE IInv'
  <2> DEFINE o == req[r].order
  <2>0. o \in Orders /\ req[r].pc = "pay" /\ trade[o] = "SUCCESS"
    BY <1>6, <1>r DEF pay_transaction, RequestType
  <2>1. CASE /\ status[o] = "UNPAID"
             /\ status' = [status EXCEPT ![o] = "PAID"]
             /\ Goto(r, "record")
    <3>1. /\ req'[r].pc = "record" /\ req'[r].order = o
          /\ req'[r].trade_status = req[r].trade_status
          /\ \A q \in Requests \ {r} : req'[q] = req[q]
      BY <1>r, <2>1, GotoEffect DEF PcStates
    <3>2. records[o] = 0 /\ granted[o] = 0
      BY <2>0, <2>1 DEF TypeOK
    <3>3. \A q \in Requests : Charging(q) => req[q].order # o
      BY <2>1
    <3>a. RequestInv'
      BY <1>6, <1>r, <2>0, <2>1, <3>1, <3>2, <3>3 DEF pay_transaction, gateway, history, TypeOK, RequestType
    <3>b. ExclusiveCharge'
      BY <1>6, <1>r, <2>0, <2>1, <3>1, <3>2, <3>3 DEF pay_transaction, gateway, history, TypeOK, RequestType
    <3>c. OrderInv'
      BY <1>6, <1>r, <2>0, <2>1, <3>1, <3>2, <3>3 DEF pay_transaction, gateway, history, TypeOK, RequestType
    <3>d. StrandedOnlyByCrash'
      BY <1>6, <1>r, <2>0, <2>1, <3>1, <3>2, <3>3 DEF pay_transaction, gateway, history, TypeOK, RequestType
    <3> QED
      BY <1>t, <3>a, <3>b, <3>c, <3>d
  <2>2. CASE status[o] # "UNPAID" /\ Goto(r, "idle") /\ UNCHANGED status
    <3>1. /\ req'[r].pc = "idle" /\ req'[r].order = o
          /\ req'[r].trade_status = req[r].trade_status
          /\ \A q \in Requests \ {r} : req'[q] = req[q]
      BY <1>r, <2>2, GotoEffect DEF PcStates
    <3>a. RequestInv'
      BY <1>6, <1>r, <2>0, <2>2, <3>1 DEF pay_transaction, gateway, history
    <3>b. ExclusiveCharge'
      BY <1>6, <1>r, <2>0, <2>2, <3>1 DEF pay_transaction, gateway, history
    <3>c. OrderInv'
      BY <1>6, <1>r, <2>0, <2>2, <3>1 DEF pay_transaction, gateway, history
    <3>d. StrandedOnlyByCrash'
      BY <1>6, <1>r, <2>0, <2>2, <3>1 DEF pay_transaction, gateway, history
    <3> QED
      BY <1>t, <3>a, <3>b, <3>c, <3>d
  <2> QED
    BY <1>6, <2>1, <2>2 DEF pay_transaction
<1>7. ASSUME NEW r \in Requests, ChargeRecord(r) PROVE IInv'
  <2>1. /\ req'[r].pc = "credit" /\ req'[r].order = req[r].order
        /\ req'[r].trade_status = req[r].trade_status
        /\ \A q \in Requests \ {r} : req'[q] = req[q]
    BY <1>7, <1>r, GotoEffect DEF ChargeRecord, PcStates
  <2>2. req[r].order \in Orders
    BY <1>r DEF RequestType
  <2>a. RequestInv'
    BY <1>7, <1>r, <2>1, <2>2 DEF ChargeRecord, gateway, history, TypeOK, RequestType
  <2>b. ExclusiveCharge'
    BY <1>7, <1>r, <2>1, <2>2 DEF ChargeRecord, gateway, history, TypeOK, RequestType
  <2>c. OrderInv'
    BY <1>7, <1>r, <2>1, <2>2 DEF ChargeRecord, gateway, history, TypeOK, RequestType
  <2>d. StrandedOnlyByCrash'
    BY <1>7, <1>r, <2>1, <2>2 DEF ChargeRecord, gateway, history, TypeOK, RequestType
  <2> QED
    BY <1>t, <2>a, <2>b, <2>c, <2>d
<1>8. ASSUME NEW r \in Requests, ChargeCredit(r) PROVE IInv'
  <2>1. /\ req'[r].pc = "idle" /\ req'[r].order = req[r].order
        /\ req'[r].trade_status = req[r].trade_status
        /\ \A q \in Requests \ {r} : req'[q] = req[q]
    BY <1>8, <1>r, GotoEffect DEF ChargeCredit, PcStates
  <2>2. req[r].order \in Orders
    BY <1>r DEF RequestType
  <2>a. RequestInv'
    BY <1>8, <1>r, <2>1, <2>2 DEF ChargeCredit, gateway, TypeOK, RequestType
  <2>b. ExclusiveCharge'
    BY <1>8, <1>r, <2>1, <2>2 DEF ChargeCredit, gateway, TypeOK, RequestType
  <2>c. OrderInv'
    BY <1>8, <1>r, <2>1, <2>2 DEF ChargeCredit, gateway, TypeOK, RequestType
  <2>d. StrandedOnlyByCrash'
    BY <1>8, <1>r, <2>1, <2>2 DEF ChargeCredit, gateway, TypeOK, RequestType
  <2> QED
    BY <1>t, <2>a, <2>b, <2>c, <2>d
<1>9. ASSUME NEW r \in Requests, Crash(r) PROVE IInv'
  <2>1. /\ req'[r].pc = "idle" /\ req'[r].order = req[r].order
        /\ req'[r].trade_status = req[r].trade_status
        /\ \A q \in Requests \ {r} : req'[q] = req[q]
    BY <1>9, <1>r, GotoEffect DEF Crash, PcStates
  <2>a. RequestInv'
    BY <1>9, <1>r, <2>1 DEF Crash, db, gateway
  <2>b. ExclusiveCharge'
    BY <1>9, <1>r, <2>1 DEF Crash, db, gateway
  <2>c. OrderInv'
    BY <1>9, <1>r, <2>1 DEF Crash, db, gateway
  <2>d. StrandedOnlyByCrash'
    BY <1>9, <1>r, <2>1 DEF Crash, db, gateway
  <2> QED
    BY <1>t, <2>a, <2>b, <2>c, <2>d
<1>10. CASE UNCHANGED vars
  BY <1>10, <1>t DEF vars, db, gateway, history
<1> QED
  BY <1>1, <1>2, <1>3, <1>4, <1>5, <1>6, <1>7, <1>8, <1>9, <1>10 DEF Next, Serve

\* The invariant holds in every reachable state of the shop.
THEOREM IInvHolds == Spec => []IInv
BY InitialIInv, InductiveIInv, PTL DEF Spec

\* For any number of orders, concurrent or repeated return_url.php requests and
\* crashes, charge() runs at most once for an order.
THEOREM AtMostOnce == Spec => []ChargedAtMostOnce
<1>1. IInv => ChargedAtMostOnce
  BY DEF IInv, OrderInv, ChargedAtMostOnce, TypeOK
<1> QED
  BY <1>1, IInvHolds, PTL

\* Only orders Alipay reports as paid are credited, ledger row first.
THEOREM OnlyPaid == Spec => []CreditedOnlyIfPaid
<1>1. IInv => CreditedOnlyIfPaid
  BY DEF IInv, OrderInv, CreditedOnlyIfPaid, TypeOK
<1> QED
  BY <1>1, IInvHolds, PTL

\* A PAID order that was not credited is being charged, or its request died.
THEOREM Stranded == Spec => []StrandedOnlyByCrash
<1>1. IInv => StrandedOnlyByCrash
  BY DEF IInv
<1> QED
  BY <1>1, IInvHolds, PTL

\* The total is the quote rounded down to whole yuan, and at least one.
LEMMA TotalOfQuote ==
  ASSUME NEW h \in Int
  PROVE  \/ 20 * OrderTotal(h) <= Quote20(h) /\ Quote20(h) < 20 * (OrderTotal(h) + 1)
         \/ OrderTotal(h) = 1 /\ Quote20(h) < 20
<1> DEFINE d == get_discount(h)
<1>1. d \in Int
  BY DEF get_discount
<1>2. Quote20(h) = h * d /\ get_price(h) * d = 5 * (h * d)
  BY <1>1 DEF Quote20, get_price
<1>3. PICK q \in Int : q = h * d
  BY <1>1
<1>4. OrderTotal(h) = IF 5 * q < 100 THEN 1 ELSE (5 * q) \div 100
  BY <1>2, <1>3 DEF OrderTotal
<1> QED
  BY <1>2, <1>3, <1>4

\* For every amount, an order costs what the calculator of view.php shows,
\* rounded down, but at least one yuan.
THEOREM Quoted == Spec => []ChargedAsQuoted
<1>1. Init => ChargedAsQuoted
  BY DEF Init, ChargedAsQuoted
<1>2. TypeOK /\ ChargedAsQuoted /\ [Next]_vars => ChargedAsQuoted'
  <2> SUFFICES ASSUME TypeOK, ChargedAsQuoted, [Next]_vars,
                      NEW o \in Orders, status'[o] # "NONE"
               PROVE  \E h \in Amounts :
                        /\ traffic'[o] = StoredTraffic(h)
                        /\ \/ /\ 20 * total'[o] <= Quote20(h)
                              /\ Quote20(h) < 20 * (total'[o] + 1)
                           \/ total'[o] = 1 /\ Quote20(h) < 20
    BY DEF ChargedAsQuoted
  <2>1. ASSUME NEW u \in Users, NEW h \in Amounts, NewOrder(o, u, h)
        PROVE  /\ traffic'[o] = StoredTraffic(h)
               /\ total'[o] = OrderTotal(h) /\ h \in Int
    BY <2>1, PaymentConstants DEF NewOrder, TypeOK
  <2>2. CASE \E u \in Users, h \in Amounts : NewOrder(o, u, h)
    BY <2>2, <2>1, TotalOfQuote
  <2>3. ASSUME NEW q \in Orders, q # o, NEW u \in Users, NEW h \in Amounts, NewOrder(q, u, h)
        PROVE  status[o] # "NONE" /\ traffic'[o] = traffic[o] /\ total'[o] = total[o]
    BY <2>3 DEF NewOrder, TypeOK
  <2>4. CASE UNCHANGED <<traffic, total>> /\ status[o] # "NONE"
    BY <2>4 DEF ChargedAsQuoted
  <2>5. ASSUME NEW r \in Requests, pay_transaction(r)
        PROVE  UNCHANGED <<traffic, total>> /\ status[o] # "NONE"
    BY <2>5 DEF pay_transaction, TypeOK
  <2>6. ASSUME \/ \E q \in Orders : Pay(q) \/ Notify(q)
               \/ \E r \in Requests, q \in Orders : Redirect(r, q)
               \/ \E r \in Requests : Lookup(r) \/ ChargeRecord(r) \/ ChargeCredit(r) \/ Crash(r)
               \/ UNCHANGED vars
        PROVE  UNCHANGED <<traffic, total>> /\ status[o] # "NONE"
    BY <2>6 DEF Pay, Notify, Redirect, Lookup, ChargeRecord, ChargeCredit, Crash, vars, db
  <2> QED
    BY <2>2, <2>3, <2>4, <2>5, <2>6 DEF Next, Serve, ChargedAsQuoted
<1> QED
  BY <1>1, <1>2, TypeCorrect, PTL DEF Spec

\* Orders move forward only, and a balance changes by one uncredited PAID order.
THEOREM Forward == Spec => OrderStepsForward
<1> DEFINE A == /\ \A o \in Orders : status[o] = "PAID" => status'[o] = "PAID"
                /\ credit' # credit =>
                     \E o \in Orders :
                       /\ status[o] = "PAID" /\ granted[o] = 0
                       /\ credit' = [credit EXCEPT ![username[o]] = @ + traffic[o]]
<1>1. IInv /\ [Next]_vars => [A]_vars
  <2> SUFFICES ASSUME IInv, Next PROVE A
    OBVIOUS
  <2>r. req \in [Requests -> RequestType]
    BY DEF IInv, TypeOK, RequestType
  <2>1. ASSUME NEW r \in Requests, ChargeCredit(r) PROVE A
    <3>1. req[r].order \in Orders
      BY <2>r DEF RequestType
    <3>2. status[req[r].order] = "PAID" /\ granted[req[r].order] = 0
      BY <2>1 DEF ChargeCredit, IInv, RequestInv, Charging
    <3> QED
      BY <2>1, <3>1, <3>2 DEF ChargeCredit
  <2>2. ASSUME NEW r \in Requests, pay_transaction(r) PROVE A
    BY <2>2 DEF pay_transaction, IInv, TypeOK
  <2>3. ASSUME NEW r \in Requests, Lookup(r) \/ ChargeRecord(r) \/ Crash(r) PROVE A
    BY <2>3 DEF Lookup, ChargeRecord, Crash, db
  <2>4. ASSUME NEW o \in Orders, Pay(o) \/ Notify(o) PROVE A
    BY <2>4 DEF Pay, Notify, db
  <2>5. ASSUME NEW o \in Orders, NEW u \in Users, NEW h \in Amounts, NewOrder(o, u, h)
        PROVE  A
    BY <2>5 DEF NewOrder, IInv, TypeOK
  <2>6. ASSUME NEW r \in Requests, NEW o \in Orders, Redirect(r, o) PROVE A
    BY <2>6 DEF Redirect, db
  <2> QED
    BY <2>1, <2>2, <2>3, <2>4, <2>5, <2>6 DEF Next, Serve
<1> QED
  BY <1>1, IInvHolds, PTL DEF Spec, OrderStepsForward

\* Steps that leave status, traffic, credit and granted alone do not move a
\* voucher.
LEMMA StutterStep ==
  ASSUME UNCHANGED <<status, traffic, credit, granted>>
  PROVE  UNCHANGED Abstract!avars
BY DEF Abstract!avars, VoucherState, VoucherOf

\* A step that touches status and granted of one order moves that voucher only.
LEMMA MoveVoucher ==
  ASSUME NEW o \in Orders, NEW s, VoucherOf(o)' = s,
         \A x \in Orders \ {o} : VoucherOf(x)' = VoucherOf(x)
  PROVE  VoucherState' = [VoucherState EXCEPT ![o] = s]
BY DEF VoucherState

\* Every statement of the shop is an Issue, Consume or Grant of one order, or
\* invisible to OneTimeCredit.
LEMMA StepRefines == IInv /\ [Next]_vars => [Abstract!ANext]_(Abstract!avars)
<1> SUFFICES ASSUME IInv, [Next]_vars PROVE [Abstract!ANext]_(Abstract!avars)
  OBVIOUS
<1>r. req \in [Requests -> RequestType]
  BY DEF IInv, TypeOK, RequestType
<1>o. \A o \in Orders : /\ granted[o] \in Nat /\ records[o] \in Nat
                        /\ granted[o] <= records[o]
                        /\ status[o] # "PAID" => records[o] = 0
  BY DEF IInv, OrderInv, TypeOK
<1>1. ASSUME NEW o \in Orders, NEW u \in Users, NEW h \in Amounts, NewOrder(o, u, h)
      PROVE  Abstract!ANext
  <2>1. traffic' \in [Orders -> Int]
    BY TypeInductive DEF IInv, TypeOK
  <2>2. VoucherState[o] = "absent"
    BY <1>1, <1>o DEF NewOrder, VoucherState, VoucherOf
  <2>3. VoucherState' = [VoucherState EXCEPT ![o] = "open"]
    BY <1>1, <1>o, MoveVoucher DEF NewOrder, VoucherOf, IInv, TypeOK, history
  <2>4. Abstract!Issue(o)
    BY <1>1, <2>1, <2>2, <2>3 DEF Abstract!Issue, NewOrder, IInv, TypeOK
  <2> QED
    BY <2>4 DEF Abstract!ANext
<1>2. ASSUME NEW r \in Requests, pay_transaction(r)
      PROVE  Abstract!ANext \/ UNCHANGED Abstract!avars
  <2> DEFINE o == req[r].order
  <2>0. o \in Orders
    BY <1>r DEF RequestType
  <2>1. CASE status[o] = "UNPAID"
    <3>1. status' = [status EXCEPT ![o] = "PAID"]
      BY <1>2, <2>1 DEF pay_transaction
    <3>2. VoucherState[o] = "open"
      BY <1>o, <2>0, <2>1 DEF VoucherState, VoucherOf
    <3>3. VoucherState' = [VoucherState EXCEPT ![o] = "consumed"]
      BY <1>2, <1>o, <2>0, <2>1, <3>1, MoveVoucher
         DEF pay_transaction, VoucherOf, IInv, TypeOK, history
    <3>4. Abstract!Consume(o)
      BY <1>2, <3>2, <3>3 DEF Abstract!Consume, pay_transaction
    <3> QED
      BY <2>0, <3>4 DEF Abstract!ANext
  <2>2. CASE status[o] # "UNPAID"
    BY <1>2, <2>2, StutterStep DEF pay_transaction, history
  <2> QED
    BY <2>1, <2>2
<1>3. ASSUME NEW r \in Requests, ChargeCredit(r) PROVE Abstract!ANext
  <2> DEFINE o == req[r].order
  <2>0. o \in Orders /\ username[o] \in Users
    BY <1>r DEF RequestType, IInv, TypeOK
  <2>1. status[o] = "PAID" /\ granted[o] = 0
    BY <1>3 DEF ChargeCredit, IInv, RequestInv, Charging
  <2>2. VoucherState[o] = "consumed"
    BY <2>0, <2>1 DEF VoucherState, VoucherOf
  <2>3. VoucherState' = [VoucherState EXCEPT ![o] = "granted"]
    BY <1>3, <2>0, <2>1, MoveVoucher DEF ChargeCredit, VoucherOf, IInv, TypeOK
  <2>4. Abstract!Grant(o, username[o])
    BY <1>3, <2>2, <2>3 DEF Abstract!Grant, ChargeCredit
  <2> QED
    BY <2>0, <2>4 DEF Abstract!ANext
<1>4. ASSUME NEW r \in Requests, Lookup(r) \/ ChargeRecord(r) \/ Crash(r)
      PROVE  UNCHANGED Abstract!avars
  BY <1>4, StutterStep DEF Lookup, ChargeRecord, Crash, db, history
<1>5. ASSUME NEW o \in Orders, Pay(o) \/ Notify(o) PROVE UNCHANGED Abstract!avars
  BY <1>5, StutterStep DEF Pay, Notify, db, history
<1>6. ASSUME NEW r \in Requests, NEW o \in Orders, Redirect(r, o)
      PROVE  UNCHANGED Abstract!avars
  BY <1>6, StutterStep DEF Redirect, db, history
<1>7. CASE UNCHANGED vars
  BY <1>7, StutterStep DEF vars, db, history
<1> QED
  BY <1>1, <1>2, <1>3, <1>4, <1>5, <1>6, <1>7 DEF Next, Serve

\* The order handling implements OneTimeCredit for every instance.
THEOREM Refinement == Spec => ImplementsOneTimeCredit
<1>1. Init => Abstract!AInit
  BY DEF Init, Abstract!AInit, VoucherState, VoucherOf
<1> QED
  BY <1>1, StepRefines, IInvHolds, PTL DEF Spec, ImplementsOneTimeCredit, Abstract!ASpec
=============================================================================
