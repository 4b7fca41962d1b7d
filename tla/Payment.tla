------------------------------ MODULE Payment ------------------------------
(***************************************************************************)
(* The Alipay shop of payment/web/payment: new-order.php opens an order,   *)
(* the customer pays at Alipay, Alipay sends the browser to return_url.php *)
(* (which credits the order) and posts notifications to notify_url.php.    *)
(*                                                                         *)
(* PHP runs every request in its own process and no script opens a         *)
(* database transaction, so one SQL statement is one atomic step and the   *)
(* requests in Requests interleave, or die, between statements.  A         *)
(* redirect may be lost (nothing obliges Redirect to happen) or arrive     *)
(* several times, also concurrently (the customer reloads the page).       *)
(***************************************************************************)
EXTENDS Integers, FiniteSets, Pricing

CONSTANTS Orders,      \* ids payment_transactions can hand out
          Users,       \* rows of table login
          Requests,    \* PHP processes serving return_url.php
          Amounts,     \* amounts a customer may type, in half gigabytes
          MaxCrashes   \* bound: how many requests may die half-way

ASSUME PaymentConstants == /\ Orders # {} /\ Users # {}
                           /\ Amounts \subseteq Int
                           /\ MaxCrashes \in Nat

VARIABLES
  status,   \* status[o]: column status; "NONE" = no row yet
  username, \* username[o]: column username
  traffic,  \* traffic[o]: column traffic, whole gigabytes
  total,    \* total[o]: column total, yuan
  credit,   \* credit[u]: login.credit, here in gigabytes
  records,  \* records[o]: rows of transactions_records noting o's trade_no
  req,      \* req[r]: the return_url.php request r is serving
  trade,    \* trade[o]: Alipay's trade_status of o
  notify,   \* notify[o]: Alipay's notification of o
  granted,  \* history: how often o's traffic was added to login.credit
  lost,     \* history: orders whose request died after it had set PAID
  crashes   \* requests that died so far

db      == <<status, username, traffic, total, credit, records>>
gateway == <<trade, notify>>
history == <<granted, lost>>
vars    == <<db, req, gateway, history, crashes>>

PcStates == {"idle", "lookup", "pay", "record", "credit"}

\* Placeholders for columns and fields nothing reads before they are set.
AnyOrder == CHOOSE o \in Orders : TRUE
AnyUser  == CHOOSE u \in Users : TRUE

TypeOK ==
  /\ status \in [Orders -> {"NONE", "UNPAID", "PAID"}]
  /\ username \in [Orders -> Users]
  /\ traffic \in [Orders -> Int]
  /\ total \in [Orders -> Int]
  /\ credit \in [Users -> Int]
  /\ records \in [Orders -> Nat]
  /\ req \in [Requests -> [pc : PcStates, order : Orders,
                           trade_status : {"WAIT", "SUCCESS"}]]
  /\ trade \in [Orders -> {"WAIT", "SUCCESS"}]
  /\ notify \in [Orders -> {"none", "pending", "acked"}]
  /\ granted \in [Orders -> Nat]
  /\ lost \in SUBSET Orders
  /\ crashes \in 0..MaxCrashes

Init ==
  /\ status = [o \in Orders |-> "NONE"]
  /\ username = [o \in Orders |-> AnyUser]
  /\ traffic = [o \in Orders |-> 0]
  /\ total = [o \in Orders |-> 0]
  /\ credit = [u \in Users |-> 0]
  /\ records = [o \in Orders |-> 0]
  /\ req = [r \in Requests |-> [pc |-> "idle", order |-> AnyOrder,
                                 trade_status |-> "WAIT"]]
  /\ trade = [o \in Orders |-> "WAIT"]
  /\ notify = [o \in Orders |-> "none"]
  /\ granted = [o \in Orders |-> 0]
  /\ lost = {}
  /\ crashes = 0

-----------------------------------------------------------------------------
(* The shop's pages. *)

\* new-order.php: a logged-in user orders a numeric amount h.  Price and
\* stored traffic are computed from h; the row starts UNPAID.
NewOrder(o, u, h) ==
  /\ status[o] = "NONE"
  /\ status' = [status EXCEPT ![o] = "UNPAID"]
  /\ username' = [username EXCEPT ![o] = u]
  /\ traffic' = [traffic EXCEPT ![o] = StoredTraffic(h)]
  /\ total' = [total EXCEPT ![o] = OrderTotal(h)]
  /\ UNCHANGED <<credit, records, req, gateway, history, crashes>>

Goto(r, pc) == req' = [req EXCEPT ![r].pc = pc]

\* (mutant) The trade_status is not looked at.
LookupAnyTradeStatus(r) ==
  /\ req[r].pc = "lookup"
  /\ Goto(r, IF status[req[r].order] = "UNPAID" THEN "pay" ELSE "idle")
  /\ UNCHANGED <<db, gateway, history, crashes>>

\* (mutant) charge() straight after the test of the status that was read.
LookupThenCharge(r) ==
  /\ req[r].pc = "lookup"
  /\ Goto(r, IF /\ req[r].trade_status = "SUCCESS"
                /\ status[req[r].order] = "UNPAID" THEN "record" ELSE "idle")
  /\ UNCHANGED <<db, gateway, history, crashes>>

\* The status of the row the answer names.
get_transaction_by_id(o) == status[o]

\* return_url.php: get_transaction_by_id, then the test of trade_status and
\* of the status just read.  Anything but an unpaid success ends in "fail".
Lookup(r) ==
  /\ req[r].pc = "lookup"
  /\ \/ /\ req[r].trade_status = "SUCCESS"
        /\ get_transaction_by_id(req[r].order) = "UNPAID"
        /\ Goto(r, "pay")
     \/ /\ req[r].trade_status # "SUCCESS" \/ get_transaction_by_id(req[r].order) # "UNPAID"
        /\ Goto(r, "idle")
  /\ UNCHANGED <<db, gateway, history, crashes>>

\* (mutant) The update does not test that the row is still UNPAID.
PayWithoutTest(r) ==
  /\ req[r].pc = "pay"
  /\ status' = [status EXCEPT ![req[r].order] = "PAID"]
  /\ Goto(r, "record")
  /\ UNCHANGED <<username, traffic, total, credit, records,
                 gateway, history, crashes>>

\* (mutant) The row is updated and pay_transaction still reports false.
PayReportsFalse(r) ==
  /\ req[r].pc = "pay"
  /\ status' = [status EXCEPT ![req[r].order] = "PAID"]
  /\ Goto(r, "idle")
  /\ UNCHANGED <<username, traffic, total, credit, records,
                 gateway, history, crashes>>

\* UPDATE ... SET status = 'PAID' ... WHERE id = ? AND status = 'UNPAID'; the
\* request goes on to charge() only if it changed the row.
pay_transaction(r) ==
  LET o == req[r].order IN
  /\ req[r].pc = "pay"
  /\ \/ /\ status[o] = "UNPAID"
        /\ status' = [status EXCEPT ![o] = "PAID"]
        /\ Goto(r, "record")
     \/ /\ status[o] # "UNPAID"
        /\ Goto(r, "idle")
        /\ UNCHANGED status
  /\ UNCHANGED <<username, traffic, total, credit, records,
                 gateway, history, crashes>>

\* charge(), first half: read the row (its columns no longer change) and
\* INSERT INTO transactions_records.
ChargeRecord(r) ==
  /\ req[r].pc = "record"
  /\ records' = [records EXCEPT ![req[r].order] = @ + 1]
  /\ Goto(r, "credit")
  /\ UNCHANGED <<status, username, traffic, total, credit,
                 gateway, history, crashes>>

\* charge(), second half: UPDATE login SET credit = credit + ?.  The status
\* column stays PAID, and neither account_state nor expire_at is touched.
ChargeCredit(r) ==
  LET o == req[r].order IN
  /\ req[r].pc = "credit"
  /\ credit' = [credit EXCEPT ![username[o]] = @ + traffic[o]]
  /\ granted' = [granted EXCEPT ![o] = @ + 1]
  /\ Goto(r, "idle")
  /\ UNCHANGED <<status, username, traffic, total, records,
                 gateway, lost, crashes>>

\* The PHP process dies between two statements (time limit, lost database
\* connection, server restart).  Nothing resumes the request.
Crash(r) ==
  /\ req[r].pc # "idle"
  /\ crashes < MaxCrashes
  /\ crashes' = crashes + 1
  /\ lost' = IF req[r].pc \in {"record", "credit"}
             THEN lost \cup {req[r].order} ELSE lost
  /\ Goto(r, "idle")
  /\ UNCHANGED <<db, gateway, granted>>

\* notify_url.php: sOld_trade_status is the literal "1", so the branch that
\* would settle the order is never taken and the reply is "success" whatever
\* trade_status is; "fail" only when notify_verify refuses.
notify_url(verified) == IF verified THEN "success" ELSE "fail"
-----------------------------------------------------------------------------
(* Alipay and the customer's browser. *)

\* The customer pays; Alipay starts notifying notify_url.php.
Pay(o) ==
  /\ status[o] # "NONE"
  /\ trade[o] = "WAIT"
  /\ trade' = [trade EXCEPT ![o] = "SUCCESS"]
  /\ notify' = [notify EXCEPT ![o] = "pending"]
  /\ UNCHANGED <<db, req, history, crashes>>

\* The browser reaches return_url.php with the trade_status Alipay has now,
\* for the first time or again.  return_verify accepted it (signature right,
\* notify_id still valid); a request it refuses, or whose query of Alipay dies,
\* changes nothing.
Redirect(r, o) ==
  /\ status[o] # "NONE"
  /\ req[r].pc = "idle"
  /\ req' = [req EXCEPT ![r] = [pc |-> "lookup", order |-> o,
                                trade_status |-> trade[o]]]
  /\ UNCHANGED <<db, gateway, history, crashes>>

\* Alipay posts a notification.  It is sent again until a "success" arrives,
\* so one whose answer is lost stays pending.
Notify(o) ==
  /\ notify[o] = "pending"
  /\ \E verified, delivered \in BOOLEAN :
       notify' = IF delivered /\ notify_url(verified) = "success"
                 THEN [notify EXCEPT ![o] = "acked"] ELSE notify
  /\ UNCHANGED <<db, req, trade, history, crashes>>

-----------------------------------------------------------------------------
Serve(r) == Lookup(r) \/ pay_transaction(r) \/ ChargeRecord(r) \/ ChargeCredit(r)

Next ==
  \/ \E o \in Orders, u \in Users, h \in Amounts : NewOrder(o, u, h)
  \/ \E o \in Orders : Pay(o) \/ Notify(o)
  \/ \E r \in Requests, o \in Orders : Redirect(r, o)
  \/ \E r \in Requests : Serve(r) \/ Crash(r)

Spec == Init /\ [][Next]_vars

\* A request the web server started runs on unless it dies; Alipay repeats
\* the notification until it is answered.  Nothing makes a customer order,
\* pay or come back.
Fairness ==
  /\ \A r \in Requests : WF_vars(Serve(r))
  /\ \A o \in Orders : SF_vars(Notify(o) /\ notify'[o] = "acked")

FairSpec == Spec /\ Fairness
-----------------------------------------------------------------------------
(* Properties. *)

\* However often and however concurrently return_url.php is called for an
\* order, charge() writes at most one ledger row and adds the traffic to
\* login.credit at most once (pay_transaction lets a single caller through).
ChargedAtMostOnce == \A o \in Orders : records[o] <= 1 /\ granted[o] <= 1

\* Only an order Alipay reports as paid is credited, and the ledger row is
\* there before the credit is.
CreditedOnlyIfPaid ==
  \A o \in Orders : /\ status[o] = "PAID" => trade[o] = "SUCCESS"
                    /\ granted[o] > 0 => status[o] = "PAID" /\ records[o] > 0

\* An order that is PAID without having been credited is in the hands of a
\* request that still runs, or that request died: nothing else strands it.
StrandedOnlyByCrash ==
  \A o \in Orders :
    (status[o] = "PAID" /\ granted[o] = 0) =>
      \/ o \in lost
      \/ \E r \in Requests : /\ req[r].order = o
                             /\ req[r].pc \in {"record", "credit"}

\* The calculator of view.php shows the undiminished quote; the customer is
\* never charged more than that, nor a whole yuan less, except that a quote
\* below one yuan is charged as one yuan.
ChargedAsQuoted ==
  \A o \in Orders : status[o] # "NONE" =>
    \E h \in Amounts :
      /\ traffic[o] = StoredTraffic(h)
      /\ \/ 20 * total[o] <= Quote20(h) /\ Quote20(h) < 20 * (total[o] + 1)
         \/ total[o] = 1 /\ Quote20(h) < 20

\* No step takes an order back from PAID, and a step that changes a balance
\* adds the traffic of exactly one order to the account that ordered it.
OrderStepsForward ==
  [][/\ \A o \in Orders : status[o] = "PAID" => status'[o] = "PAID"
     /\ credit' # credit =>
          \E o \in Orders :
            /\ status[o] = "PAID" /\ granted[o] = 0
            /\ credit' = [credit EXCEPT ![username[o]] = @ + traffic[o]]]_vars

\* A PAID order is eventually credited, unless the request that set it died.
PaidIsCredited ==
  \A o \in Orders : status[o] = "PAID" ~> (granted[o] = 1 \/ o \in lost)

\* Comment at the top of notify_url.php: the notification is what completes
\* an order whose return page was missed, so once Alipay has delivered it
\* the order is eventually credited.
NotifiedIsCredited == \A o \in Orders : notify[o] = "acked" ~> granted[o] = 1
-----------------------------------------------------------------------------
(* Refinement: an order is a voucher of OneTimeCredit. *)
VoucherOf(o) == IF granted[o] > 0 THEN "granted"
                ELSE IF status[o] = "PAID" THEN "consumed"
                ELSE IF status[o] = "UNPAID" THEN "open" ELSE "absent"

VoucherState == [o \in Orders |-> VoucherOf(o)]

Abstract == INSTANCE OneTimeCredit WITH
              Vouchers <- Orders, Users <- Users,
              state <- VoucherState, worth <- traffic, balance <- credit

\* The order handling implements the one-time-credit specification.
ImplementsOneTimeCredit == Abstract!ASpec
=============================================================================
