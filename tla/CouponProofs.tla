---------------------------- MODULE CouponProofs ----------------------------
(***************************************************************************)
(* Proofs about Coupon, for any sets of cards, users, typed strings and    *)
(* concurrent redemptions; the refinement of OneTimeCredit for one         *)
(* redemption at a time of one card each, the assumptions the code needs.  *)
(***************************************************************************)
EXTENDS Coupon, FiniteSetTheorems, TLAPS

RequestType == [pc : PcStates, typed : SUBSET Cards, card : Cards, username : Names]

\* Rows are numbered in the order of insertion.
TableInv ==
  /\ \A c \in Cards : status[c] # "NONE" => id[c] <= rows
  /\ \A c, e \in Cards :
       (status[c] # "NONE" /\ status[e] # "NONE" /\ id[c] = id[e]) => c = e

\* A redemption past the count matches some row; past the UPDATE the first row
\* it matches is a used one, which is why the SELECT that follows reads one;
\* past the SELECT it has a card of some worth, and past the first test a
\* registered user.
RedemptionInv ==
  \A r \in Requests :
    /\ req[r].pc \in {"use", "read"} => Matching(req[r].typed) # {}
    /\ req[r].pc = "read" =>
         \A c \in Cards : IsFirst(c, Matching(req[r].typed)) => status[c] = "U"
    /\ req[r].pc \in {"login", "record"} =>
         status[req[r].card] = "U" /\ req[r].card \in req[r].typed
    /\ req[r].pc = "login" => worth[req[r].card] # 0
    /\ req[r].pc \in {"count", "use", "read", "login", "record"} =>
         req[r].username \in Users

\* A card that is not blurred is looked up by its own number only.
BlurInv ==
  \A r \in Requests, c \in Cards :
    (c \in req[r].typed /\ c \notin blurred) => req[r].typed = {c}

\* Only used cards have been credited.
CardInv == \A c \in Cards : status[c] # "U" => granted[c] = 0

IInv == TypeOK /\ TableInv /\ RedemptionInv /\ BlurInv /\ CardInv /\ UncreditedOnlyByCrash

LEMMA AnyType == AnyCard \in Cards /\ AnyUser \in Names /\ NoRequest \in RequestType
<1>1. AnyCard \in Cards /\ AnyUser \in Names
  BY CouponConstants DEF AnyCard, AnyUser
<1> QED
  BY <1>1 DEF NoRequest, RequestType, PcStates

\* Goto moves one redemption; one that goes on keeps what was typed, its card
\* and the user name.
LEMMA GotoEffect ==
  ASSUME req \in [Requests -> RequestType], NEW r \in Requests,
         NEW k \in PcStates, Goto(r, k)
  PROVE  /\ req' \in [Requests -> RequestType]
         /\ req'[r].pc = k
         /\ k # "idle" => /\ req'[r].typed = req[r].typed
                          /\ req'[r].card = req[r].card
                          /\ req'[r].username = req[r].username
         /\ k = "idle" => req'[r].typed = {}
         /\ \A q \in Requests \ {r} : req'[q] = req[q]
<1>1. CASE k = "idle"
  <2>1. req' = [req EXCEPT ![r] = NoRequest]
    BY <1>1 DEF Goto
  <2> QED
    BY <1>1, <2>1, AnyType DEF NoRequest
<1>2. CASE k # "idle"
  <2>1. req' = [req EXCEPT ![r] = [@ EXCEPT !.pc = k]]
    BY <1>2 DEF Goto
  <2> QED
    BY <1>2, <2>1 DEF RequestType
<1> QED
  BY <1>1, <1>2

LEMMA InitialIInv == Init => IInv
<1> SUFFICES ASSUME Init PROVE IInv
  OBVIOUS
<1>1. TypeOK
  <2>1. login \in [Users -> AccountType]
    BY CouponConstants DEF Init, AccountType
  <2>2. req \in [Requests -> RequestType]
    BY AnyType DEF Init
  <2> QED
    BY <2>1, <2>2, CouponConstants DEF Init, TypeOK, RequestType
<1>2. \A r \in Requests : req[r].pc = "idle" /\ req[r].typed = {}
  BY DEF Init, NoRequest
<1> QED
  BY <1>1, <1>2 DEF Init, IInv, TableInv, RedemptionInv, BlurInv, CardInv,
              UncreditedOnlyByCrash

\* Redemptions other than r go on crediting what they were crediting.
LEMMA OthersCredit ==
  ASSUME req \in [Requests -> RequestType], NEW r \in Requests,
         \A q \in Requests \ {r} : req'[q] = req[q],
         id' = id, \A c \in Cards : status'[c] = "NONE" <=> status[c] = "NONE"
  PROVE  \A q \in Requests \ {r}, c \in Cards : Crediting(q, c)' <=> Crediting(q, c)
BY DEF Crediting, IsFirst, Matching, RequestType

\* A step that moves one redemption r and leaves cards and accounts alone keeps
\* the invariant if it does not bring r past the UPDATE, unless r was past it.
LEMMA ElsewhereKept ==
  ASSUME IInv, NEW r \in Requests, NEW k \in {"count", "use", "idle"}, Goto(r, k),
         UNCHANGED <<coupons, login, records, granted, blurred, overlap>>,
         lost \subseteq lost', lost' \in SUBSET Cards, crashes' \in 0..MaxCrashes,
         k = "use" => req[r].pc = "count" /\ Unused(req[r].typed) # {},
         k = "count" => req[r].username \in Users,
         \A c \in Cards : (req[r].pc \in {"read", "login"} /\ Crediting(r, c)) => c \in lost'
  PROVE  IInv'
<1> USE DEF IInv
<1>r. req \in [Requests -> RequestType] /\ k \in PcStates
  BY DEF TypeOK, RequestType, PcStates
<1>0. UNCHANGED <<id, rows, status, worth, expire>>
  BY DEF coupons
<1>1. /\ req' \in [Requests -> RequestType]
      /\ req'[r].pc = k
      /\ k # "idle" => /\ req'[r].typed = req[r].typed
                       /\ req'[r].card = req[r].card
                       /\ req'[r].username = req[r].username
      /\ k = "idle" => req'[r].typed = {}
      /\ \A q \in Requests \ {r} : req'[q] = req[q]
  BY <1>r, GotoEffect
<1>2. TypeOK'
  BY <1>0, <1>1 DEF TypeOK, RequestType
<1>3. TableInv' /\ CardInv'
  BY <1>0 DEF TableInv, CardInv
<1>4. BlurInv'
  BY <1>1 DEF BlurInv
<1>5. RedemptionInv'
  <2>1. k = "use" => Matching(req[r].typed) # {}
    BY DEF Matching, Unused
  <2>2. k = "use" => req[r].username \in Users
    BY DEF RedemptionInv
  <2> QED
    BY <1>0, <1>1, <2>1, <2>2 DEF RedemptionInv, Matching, IsFirst
<1>6. UncreditedOnlyByCrash'
  <2> SUFFICES ASSUME NEW c \in Cards, status[c] = "U", granted[c] = 0, worth[c] # 0,
                      c \notin blurred, c \notin lost'
               PROVE  \E q \in Requests : req'[q].pc \in {"read", "login"} /\ Crediting(q, c)'
    BY <1>0 DEF UncreditedOnlyByCrash
  <2>1. PICK q \in Requests : req[q].pc \in {"read", "login"} /\ Crediting(q, c)
    BY DEF UncreditedOnlyByCrash
  <2>2. q # r
    BY <2>1
  <2> QED
    BY <1>r, <1>0, <1>1, <2>1, <2>2, OthersCredit
<1> QED
  BY <1>2, <1>3, <1>4, <1>5, <1>6

\* Either the first unused match is used up, or there is none and no card
\* changes.
LEMMA UseCouponEffect ==
  ASSUME IInv, NEW r \in Requests, UseCoupon(r)
  PROVE  /\ UNCHANGED <<id, rows, worth, expire, login, records, granted, lost, blurred,
                        crashes>>
         /\ Goto(r, "read") /\ req[r].pc = "use"
         /\ \/ Unused(req[r].typed) = {} /\ status' = status /\ overlap' = overlap
            \/ \E d \in Cards : /\ d \in req[r].typed /\ status[d] = "N"
                                /\ IsFirst(d, Unused(req[r].typed))
                                /\ status' = [status EXCEPT ![d] = "U"]
                                /\ overlap' = [overlap EXCEPT ![d] = Cardinality(Rivals(d))]
<1>1. req[r].typed \in SUBSET Cards
  BY DEF IInv, TypeOK
<1> QED
  BY <1>1 DEF UseCoupon, UseUp, Unused

\* New rows come last in a scan: what a string matched first stays first.
LEMMA GenerateEffect ==
  ASSUME IInv, NEW c \in Cards, NEW w, NEW d, Generate(c, w, d),
         NEW t \in SUBSET Cards, Matching(t) # {}, NEW x \in Cards
  PROVE  IsFirst(x, Matching(t))' <=> IsFirst(x, Matching(t))
<1>d. id \in [Cards -> Nat] /\ rows \in Nat
  BY DEF IInv, TypeOK
<1>1. /\ id'[c] = rows + 1
      /\ \A y \in Cards \ {c} : id'[y] = id[y] /\ status'[y] = status[y]
      /\ status'[c] = "N" /\ status[c] = "NONE"
  BY DEF Generate, IInv, TypeOK
<1>2. \A y \in Cards \ {c} : status'[y] # "NONE" => id'[y] <= rows
  BY <1>1 DEF IInv, TableInv
<1>3. PICK e \in Cards : e \in t /\ status[e] # "NONE"
  BY DEF Matching
<1>4. CASE x = c
  <2>1. id'[e] <= rows /\ id'[e] \in Nat /\ e # c
    BY <1>d, <1>1, <1>2, <1>3
  <2>2. ~(id'[c] <= id'[e])
    BY <1>d, <1>1, <2>1
  <2> QED
    BY <1>1, <1>3, <1>4, <2>1, <2>2 DEF IsFirst, Matching
<1>5. CASE x # c
  <2>1. ASSUME status[x] # "NONE" PROVE id'[x] <= id'[c]
    BY <1>d, <1>1, <1>2, <1>5, <2>1
  <2> QED
    BY <1>1, <1>5, <2>1 DEF IsFirst, Matching
<1> QED
  BY <1>4, <1>5

\* The invariant is kept by every statement of the scripts.
LEMMA InductiveIInv == IInv /\ [Next]_vars => IInv'
<1> SUFFICES ASSUME IInv, [Next]_vars PROVE IInv'
  OBVIOUS
<1> USE DEF IInv
<1>r. req \in [Requests -> RequestType]
  BY DEF TypeOK, RequestType
<1>c. \A r \in Requests : /\ req[r].card \in Cards /\ req[r].username \in Names
                          /\ req[r].typed \in SUBSET Cards
  BY <1>r DEF RequestType
<1>d. id \in [Cards -> Nat] /\ rows \in Nat
  BY DEF TypeOK
<1>1. ASSUME NEW c \in Cards, NEW w \in Worths, NEW d \in Days, Generate(c, w, d)
      PROVE  IInv'
  <2>1. w \in Nat /\ d \in Nat
    BY CouponConstants
  <2>2. TypeOK'
    BY <1>1, <2>1 DEF Generate, TypeOK, history
  <2>3. /\ id'[c] = rows + 1 /\ rows' = rows + 1
        /\ \A x \in Cards \ {c} : /\ id'[x] = id[x] /\ status'[x] = status[x]
                                  /\ worth'[x] = worth[x]
        /\ status'[c] = "N" /\ status[c] = "NONE" /\ req' = req
        /\ granted' = granted /\ lost' = lost /\ blurred' = blurred
    BY <1>1 DEF Generate, TypeOK, history
  <2>4. TableInv'
    BY <1>d, <2>3 DEF TableInv
  <2>5. BlurInv' /\ CardInv'
    BY <2>3 DEF BlurInv, CardInv
  <2>6. ASSUME NEW r \in Requests, req[r].pc \in {"use", "read"}, NEW x \in Cards
        PROVE  IsFirst(x, Matching(req[r].typed))' <=> IsFirst(x, Matching(req[r].typed))
    <3>1. PICK t \in SUBSET Cards : t = req[r].typed /\ Matching(t) # {}
      BY <1>c, <2>6 DEF RedemptionInv
    <3>2. IsFirst(x, Matching(t))' <=> IsFirst(x, Matching(t))
      BY <1>1, <3>1, GenerateEffect
    <3> QED
      BY <2>3, <3>1, <3>2 DEF IsFirst, Matching
  <2>7. RedemptionInv'
    <3>1. ASSUME NEW r \in Requests, req[r].pc \in {"use", "read"}
          PROVE  Matching(req[r].typed)' # {}
      BY <1>c, <2>3, <3>1 DEF RedemptionInv, Matching
    <3>2. ASSUME NEW r \in Requests, req[r].pc = "read", NEW x \in Cards,
                 IsFirst(x, Matching(req[r].typed))'
          PROVE  status'[x] = "U"
      <4>1. status[x] = "U"
        BY <2>6, <3>2 DEF RedemptionInv
      <4> QED BY <2>3, <4>1
    <3>3. ASSUME NEW r \in Requests, req[r].pc \in {"login", "record"}
          PROVE  /\ status'[req[r].card] = "U" /\ req[r].card \in req[r].typed
                 /\ worth'[req[r].card] = worth[req[r].card]
      BY <1>c, <2>3, <3>3 DEF RedemptionInv
    <3> QED
      BY <2>3, <3>1, <3>2, <3>3 DEF RedemptionInv
  <2>8. UncreditedOnlyByCrash'
    <3> SUFFICES ASSUME NEW x \in Cards, status'[x] = "U", granted'[x] = 0, worth'[x] # 0,
                        x \notin blurred', x \notin lost'
                 PROVE  \E q \in Requests : req'[q].pc \in {"read", "login"} /\ Crediting(q, x)'
      BY DEF UncreditedOnlyByCrash
    <3>1. PICK q \in Requests : req[q].pc \in {"read", "login"} /\ Crediting(q, x)
      BY <2>3 DEF UncreditedOnlyByCrash
    <3>2. CASE req[q].pc = "read"
      <4>1. IsFirst(x, Matching(req[q].typed))'
        BY <2>6, <3>1, <3>2 DEF Crediting
      <4> QED BY <2>3, <3>2, <4>1 DEF Crediting
    <3>3. CASE req[q].pc = "login"
      BY <2>3, <3>1, <3>3 DEF Crediting
    <3> QED BY <3>1, <3>2, <3>3
  <2> QED BY <2>2, <2>4, <2>5, <2>7, <2>8
<1>2. ASSUME NEW r \in Requests, NEW t \in Typed, NEW n \in Names, Submit(r, t, n)
      PROVE  IInv'
  <2>0. t \in SUBSET Cards
    BY CouponConstants
  <2>1. /\ req' \in [Requests -> RequestType]
        /\ req'[r].pc = "user" /\ req[r].pc = "idle" /\ req'[r].typed = t
        /\ \A q \in Requests \ {r} : req'[q] = req[q]
    BY <1>2, <1>r, <2>0 DEF Submit, RequestType, PcStates
  <2>2. blurred \subseteq blurred' /\ blurred' \in SUBSET Cards
        /\ \A c \in t : c \notin blurred' => t = {c}
    BY <1>2, <2>0 DEF Submit, TypeOK
  <2>k. UNCHANGED <<id, rows, status, worth, expire, login, records, granted, lost,
                    overlap, crashes>>
    BY <1>2 DEF Submit, coupons
  <2>3. TypeOK'
    BY <2>1, <2>2, <2>k DEF TypeOK, RequestType
  <2>4. TableInv' /\ CardInv'
    BY <2>k DEF TableInv, CardInv
  <2>5. RedemptionInv'
    BY <2>1, <2>k DEF RedemptionInv, Matching, IsFirst
  <2>6. BlurInv'
    BY <2>1, <2>2 DEF BlurInv
  <2>7. UncreditedOnlyByCrash'
    <3> SUFFICES ASSUME NEW x \in Cards, status[x] = "U", granted[x] = 0, worth[x] # 0,
                        x \notin blurred, x \notin lost
                 PROVE  \E q \in Requests : req'[q].pc \in {"read", "login"} /\ Crediting(q, x)'
      BY <2>k, <2>2 DEF UncreditedOnlyByCrash
    <3>1. PICK q \in Requests : req[q].pc \in {"read", "login"} /\ Crediting(q, x)
      BY DEF UncreditedOnlyByCrash
    <3>2. q # r
      BY <2>1, <3>1
    <3> QED
      BY <1>r, <2>1, <2>k, <3>1, <3>2, OthersCredit
  <2> QED BY <2>3, <2>4, <2>5, <2>6, <2>7
<1>3. ASSUME NEW r \in Requests, CheckUser(r) PROVE IInv'
  <2>1. PICK k \in {"count", "use", "idle"} :
          /\ Goto(r, k) /\ req[r].pc = "user" /\ k # "use"
          /\ k = "count" => req[r].username \in Users
    BY <1>3 DEF CheckUser
  <2>2. /\ UNCHANGED <<coupons, login, records, granted, blurred, overlap>>
        /\ lost' = lost /\ lost \in SUBSET Cards /\ crashes' \in 0..MaxCrashes
    BY <1>3 DEF CheckUser, history, TypeOK
  <2> QED
    BY <2>1, <2>2, ElsewhereKept
<1>4. ASSUME NEW r \in Requests, CountUnused(r) PROVE IInv'
  <2>1. PICK k \in {"count", "use", "idle"} :
          /\ Goto(r, k) /\ req[r].pc = "count" /\ k # "count"
          /\ k = "use" => Unused(req[r].typed) # {}
    BY <1>4 DEF CountUnused
  <2>2. /\ UNCHANGED <<coupons, login, records, granted, blurred, overlap>>
        /\ lost' = lost /\ lost \in SUBSET Cards /\ crashes' \in 0..MaxCrashes
    BY <1>4 DEF CountUnused, history, TypeOK
  <2> QED
    BY <2>1, <2>2, ElsewhereKept
<1>5. ASSUME NEW r \in Requests, UseCoupon(r) PROVE IInv'
  <2> DEFINE t == req[r].typed
  <2>0. /\ req[r].pc = "use" /\ Goto(r, "read") /\ "read" \in PcStates /\ t \in SUBSET Cards
        /\ UNCHANGED <<id, rows, worth, expire, login, records, granted, lost, blurred, crashes>>
    BY <1>5, <1>c, UseCouponEffect DEF PcStates
  <2>1. /\ req' \in [Requests -> RequestType]
        /\ req'[r].pc = "read" /\ req'[r].card = req[r].card
        /\ req'[r].typed = t /\ req'[r].username = req[r].username
        /\ \A q \in Requests \ {r} : req'[q] = req[q]
    BY <1>r, <2>0, GotoEffect
  <2>2. /\ status' \in [Cards -> {"NONE", "N", "U"}] /\ overlap' \in [Cards -> Nat]
        /\ \A c \in Cards : status'[c] = "NONE" <=> status[c] = "NONE"
        /\ \A c \in Cards : status[c] = "U" => status'[c] = "U"
        /\ \A c \in Cards : IsFirst(c, Unused(t)) => status'[c] = "U"
        /\ \A c \in Cards : status'[c] # status[c] => c \in t
    <3>1. CASE Unused(t) = {} /\ status' = status /\ overlap' = overlap
      BY <3>1 DEF TypeOK, IsFirst
    <3>2. ASSUME NEW d \in Cards, d \in t, status[d] = "N", IsFirst(d, Unused(t)),
                 status' = [status EXCEPT ![d] = "U"],
                 overlap' = [overlap EXCEPT ![d] = Cardinality(Rivals(d))]
          PROVE  /\ status' \in [Cards -> {"NONE", "N", "U"}] /\ overlap' \in [Cards -> Nat]
                 /\ \A c \in Cards : status'[c] = "NONE" <=> status[c] = "NONE"
                 /\ \A c \in Cards : status[c] = "U" => status'[c] = "U"
                 /\ \A c \in Cards : IsFirst(c, Unused(t)) => status'[c] = "U"
                 /\ \A c \in Cards : status'[c] # status[c] => c \in t
      <4>1. \A c \in Cards : IsFirst(c, Unused(t)) => c = d
        BY <1>d, <2>0, <3>2 DEF IsFirst, Unused, TableInv
      <4>2. Rivals(d) \in SUBSET Requests
        BY DEF Rivals
      <4>3. Cardinality(Rivals(d)) \in Nat
        BY <4>2, CouponConstants, FS_Subset, FS_CardinalityType
      <4>4. overlap' \in [Cards -> Nat]
        BY <3>2, <4>3 DEF TypeOK
      <4> QED
        BY <3>2, <4>1, <4>4 DEF TypeOK
    <3> HIDE DEF t
    <3> QED BY <1>5, <3>1, <3>2, UseCouponEffect DEF t
  <2>3. TypeOK'
    BY <2>0, <2>1, <2>2 DEF TypeOK, RequestType
  <2>4. TableInv' /\ CardInv' /\ BlurInv'
    <3>1. TableInv'
      BY <2>0, <2>2 DEF TableInv
    <3>2. CardInv'
      BY <2>0, <2>2 DEF CardInv
    <3>3. BlurInv'
      BY <2>0, <2>1 DEF BlurInv
    <3> QED BY <3>1, <3>2, <3>3
  <2>5. RedemptionInv'
    <3>1. ASSUME NEW c \in Cards, IsFirst(c, Matching(t)) PROVE status'[c] = "U"
      <4>1. CASE status[c] = "N"
        BY <2>0, <2>2, <3>1, <4>1 DEF IsFirst, Matching, Unused
      <4>2. CASE status[c] # "N"
        BY <2>2, <3>1, <4>2 DEF IsFirst, Matching, TypeOK
      <4> QED BY <4>1, <4>2
    <3>2. \A q \in Requests : {c \in req[q].typed : status'[c] # "NONE"}
                                = Matching(req[q].typed)
      BY <1>c, <2>2 DEF Matching
    <3>3. \A q \in Requests : Matching(req[q].typed)' = Matching(req[q].typed)
      BY <2>1, <3>2 DEF Matching
    <3>4. \A q \in Requests, c \in Cards :
            IsFirst(c, Matching(req[q].typed))' <=> IsFirst(c, Matching(req[q].typed))
      BY <2>0, <3>3 DEF IsFirst
    <3> QED
      BY <1>c, <2>0, <2>1, <2>2, <3>1, <3>3, <3>4 DEF RedemptionInv
  <2>6. UncreditedOnlyByCrash'
    <3> SUFFICES ASSUME NEW x \in Cards, status'[x] = "U", granted[x] = 0, worth[x] # 0,
                        x \notin blurred, x \notin lost
                 PROVE  \E q \in Requests : req'[q].pc \in {"read", "login"} /\ Crediting(q, x)'
      BY <2>0 DEF UncreditedOnlyByCrash
    <3>1. CASE status[x] = "U"
      <4>1. PICK q \in Requests : req[q].pc \in {"read", "login"} /\ Crediting(q, x)
        BY <3>1 DEF UncreditedOnlyByCrash
      <4>2. q # r
        BY <2>0, <4>1
      <4> QED
        BY <1>r, <2>0, <2>1, <2>2, <4>1, <4>2, OthersCredit
    <3>2. CASE status[x] # "U"
      <4>1. x \in t /\ t = {x}
        BY <2>2, <3>2 DEF BlurInv
      <4>2. IsFirst(x, {x})'
        BY <1>d, <2>0 DEF IsFirst
      <4>3. Matching(req[r].typed)' = {x}
        BY <2>1, <4>1 DEF Matching
      <4> QED
        BY <2>1, <4>2, <4>3 DEF Crediting
    <3> QED BY <3>1, <3>2
  <2> QED
    BY <2>3, <2>4, <2>5, <2>6
<1>6. ASSUME NEW r \in Requests, ReadCredit(r) PROVE IInv'
  <2> DEFINE t == req[r].typed
  <2>1. PICK c \in Cards :
          /\ req[r].pc = "read" /\ c \in t /\ IsFirst(c, Matching(t))
          /\ req' = [req EXCEPT ![r] = IF worth[c] = 0 THEN NoRequest
                                       ELSE [@ EXCEPT !.pc = "login", !.card = c]]
    BY <1>6, <1>c DEF ReadCredit
  <2>2. /\ req' \in [Requests -> RequestType]
        /\ \A q \in Requests \ {r} : req'[q] = req[q]
        /\ worth[c] = 0 => req'[r].pc = "idle" /\ req'[r].typed = {}
        /\ worth[c] # 0 => /\ req'[r].pc = "login" /\ req'[r].card = c
                           /\ req'[r].typed = t /\ req'[r].username = req[r].username
    <3>1. CASE worth[c] = 0
      <4>1. req' = [req EXCEPT ![r] = NoRequest]
        BY <2>1, <3>1
      <4> QED
        BY <1>r, <3>1, <4>1, AnyType DEF NoRequest
    <3>2. CASE worth[c] # 0
      <4>1. req' = [req EXCEPT ![r] = [@ EXCEPT !.pc = "login", !.card = c]]
        BY <2>1, <3>2
      <4> QED
        BY <1>r, <3>2, <4>1 DEF RequestType, PcStates
    <3> QED BY <3>1, <3>2
  <2>3. status[c] = "U"
    BY <2>1 DEF RedemptionInv
  <2>k. UNCHANGED <<id, rows, status, worth, expire, login, records, granted, lost,
                    blurred, overlap, crashes>>
    BY <1>6 DEF ReadCredit, coupons, history
  <2>4. TypeOK'
    BY <2>2, <2>k DEF TypeOK, RequestType
  <2>5. TableInv' /\ CardInv'
    BY <2>k DEF TableInv, CardInv
  <2>6. BlurInv'
    BY <2>2, <2>k DEF BlurInv
  <2>7. RedemptionInv'
    <3>1. req[r].username \in Users
      BY <2>1 DEF RedemptionInv
    <3> QED
      BY <2>1, <2>2, <2>3, <2>k, <3>1 DEF RedemptionInv, Matching, IsFirst
  <2>8. UncreditedOnlyByCrash'
    <3> SUFFICES ASSUME NEW x \in Cards, status[x] = "U", granted[x] = 0, worth[x] # 0,
                        x \notin blurred, x \notin lost
                 PROVE  \E q \in Requests : req'[q].pc \in {"read", "login"} /\ Crediting(q, x)'
      BY <2>k DEF UncreditedOnlyByCrash
    <3>1. PICK q \in Requests : req[q].pc \in {"read", "login"} /\ Crediting(q, x)
      BY DEF UncreditedOnlyByCrash
    <3>2. CASE q = r
      <4>1. x \in t
        BY <2>1, <3>1, <3>2 DEF Crediting, IsFirst, Matching
      <4>2. x = c
        BY <2>1, <4>1 DEF BlurInv
      <4> QED
        BY <2>2, <4>2 DEF Crediting
    <3>3. CASE q # r
      BY <1>r, <2>2, <2>k, <3>1, <3>3, OthersCredit
    <3> QED BY <3>2, <3>3
  <2> QED
    BY <2>4, <2>5, <2>6, <2>7, <2>8
<1>7. ASSUME NEW r \in Requests, CreditLogin(r) PROVE IInv'
  <2> DEFINE c == req[r].card
             u == req[r].username
  <2>0. /\ req[r].pc = "login" /\ Goto(r, "record") /\ "record" \in PcStates
        /\ UNCHANGED <<id, rows, status, worth, expire, records, lost, blurred, overlap, crashes>>
        /\ granted' = [granted EXCEPT ![c] = @ + 1]
    BY <1>7 DEF CreditLogin, PcStates, coupons
  <2>1. /\ req' \in [Requests -> RequestType]
        /\ req'[r].pc = "record" /\ req'[r].card = c
        /\ req'[r].typed = req[r].typed /\ req'[r].username = u
        /\ \A q \in Requests \ {r} : req'[q] = req[q]
    BY <1>r, <2>0, GotoEffect
  <2>2. /\ u \in Users /\ c \in Cards /\ worth[c] \in Nat /\ expire[c] \in Nat
        /\ status[c] = "U" /\ c \in req[r].typed
    BY <1>c, <2>0 DEF RedemptionInv, TypeOK
  <2>3. login' \in [Users -> AccountType]
    BY <1>7, <2>2, CouponConstants DEF CreditLogin, TypeOK, AccountType
  <2>g. granted' \in [Cards -> Nat]
    BY <2>0, <2>2 DEF TypeOK
  <2>4. TypeOK'
    BY <2>0, <2>1, <2>3, <2>g DEF TypeOK, RequestType
  <2>5. TableInv' /\ BlurInv'
    BY <2>0, <2>1 DEF TableInv, BlurInv
  <2>6. CardInv'
    BY <2>0, <2>2 DEF CardInv, TypeOK
  <2>7. RedemptionInv'
    BY <2>0, <2>1, <2>2 DEF RedemptionInv, Matching, IsFirst
  <2>8. UncreditedOnlyByCrash'
    <3> SUFFICES ASSUME NEW x \in Cards, status[x] = "U", granted'[x] = 0, worth[x] # 0,
                        x \notin blurred, x \notin lost
                 PROVE  \E q \in Requests : req'[q].pc \in {"read", "login"} /\ Crediting(q, x)'
      BY <2>0 DEF UncreditedOnlyByCrash
    <3>1. x # c /\ granted[x] = 0
      BY <2>0, <2>2 DEF TypeOK
    <3>2. PICK q \in Requests : req[q].pc \in {"read", "login"} /\ Crediting(q, x)
      BY <3>1 DEF UncreditedOnlyByCrash
    <3>3. q # r
      BY <2>0, <3>1, <3>2 DEF Crediting
    <3> QED
      BY <1>r, <2>0, <2>1, <3>2, <3>3, OthersCredit
  <2> QED
    BY <2>4, <2>5, <2>6, <2>7, <2>8
<1>8. ASSUME NEW r \in Requests, WriteRecord(r) PROVE IInv'
  <2>0. /\ req[r].pc = "record" /\ Goto(r, "idle") /\ "idle" \in PcStates
        /\ UNCHANGED <<id, rows, status, worth, expire, login, granted, lost, blurred,
                       overlap, crashes>>
        /\ records' \in [Cards -> Nat]
    BY <1>8, <1>c DEF WriteRecord, PcStates, coupons, history, TypeOK
  <2>1. /\ req' \in [Requests -> RequestType]
        /\ req'[r].pc = "idle" /\ req'[r].typed = {}
        /\ \A q \in Requests \ {r} : req'[q] = req[q]
    BY <1>r, <2>0, GotoEffect
  <2>2. TypeOK'
    BY <2>0, <2>1 DEF TypeOK, RequestType
  <2>3. TableInv' /\ CardInv' /\ BlurInv'
    BY <2>0, <2>1 DEF TableInv, CardInv, BlurInv
  <2>4. RedemptionInv'
    BY <2>0, <2>1 DEF RedemptionInv, Matching, IsFirst
  <2>5. UncreditedOnlyByCrash'
    <3> SUFFICES ASSUME NEW x \in Cards, status[x] = "U", granted[x] = 0, worth[x] # 0,
                        x \notin blurred, x \notin lost
                 PROVE  \E q \in Requests : req'[q].pc \in {"read", "login"} /\ Crediting(q, x)'
      BY <2>0 DEF UncreditedOnlyByCrash
    <3>1. PICK q \in Requests : req[q].pc \in {"read", "login"} /\ Crediting(q, x)
      BY DEF UncreditedOnlyByCrash
    <3> QED
      BY <1>r, <2>0, <2>1, <3>1, OthersCredit
  <2> QED
    BY <2>2, <2>3, <2>4, <2>5
<1>9. ASSUME NEW r \in Requests, Crash(r) PROVE IInv'
  <2>1. /\ Goto(r, "idle")
        /\ UNCHANGED <<coupons, login, records, granted, blurred, overlap>>
        /\ crashes' \in 0..MaxCrashes
        /\ lost \subseteq lost'
        /\ req[r].pc = "read" => req[r].typed \subseteq lost'
        /\ req[r].pc = "login" => req[r].card \in lost'
    BY <1>9, CouponConstants DEF Crash, TypeOK
  <2>2. lost' \in SUBSET Cards
    BY <1>9, <1>c DEF Crash, TypeOK
  <2>3. \A c \in Cards : (req[r].pc \in {"read", "login"} /\ Crediting(r, c)) => c \in lost'
    BY <2>1 DEF Crediting, IsFirst, Matching
  <2> QED
    BY <2>1, <2>2, <2>3, ElsewhereKept
<1>10. CASE UNCHANGED vars
  <2>1. UNCHANGED <<id, rows, status, worth, expire, login, records, req, granted, lost,
                    blurred, overlap, crashes>>
    BY <1>10 DEF vars, coupons, history
  <2>2. TypeOK' /\ TableInv' /\ BlurInv' /\ CardInv'
    BY <2>1 DEF TypeOK, TableInv, BlurInv, CardInv
  <2>3. RedemptionInv'
    BY <2>1 DEF RedemptionInv, Matching, IsFirst
  <2>4. UncreditedOnlyByCrash'
    BY <2>1 DEF UncreditedOnlyByCrash, Crediting, Matching, IsFirst
  <2> QED
    BY <2>2, <2>3, <2>4
<1> QED
  BY <1>1, <1>2, <1>3, <1>4, <1>5, <1>6, <1>7, <1>8, <1>9, <1>10 DEF Next, Serve

\* The invariant holds in every reachable state of the card shop.
THEOREM IInvHolds == Spec => []IInv
BY InitialIInv, InductiveIInv, PTL DEF Spec

\* Type correctness: in particular a card is never in the states 'R' or 'F' that
\* the column also allows, so validate.cgi tells unused from used cards.
THEOREM TypeCorrect == Spec => []TypeOK
<1>1. IInv => TypeOK
  BY DEF IInv
<1> QED
  BY <1>1, IInvHolds, PTL

\* What validate.cgi and check-status-coupon.pl call valid was never credited,
\* whatever redemptions are running.
THEOREM ValidMeansUncredited == Spec => []ValidCardIsUncredited
<1>1. IInv => ValidCardIsUncredited
  <2> SUFFICES ASSUME IInv, NEW t \in Typed, Valid(t), NEW c \in t,
                      IsFirst(c, Matching(t))
               PROVE  granted[c] = 0 /\ \A r \in Requests : ~Crediting(r, c)
    BY DEF ValidCardIsUncredited
  <2>1. t \in SUBSET Cards
    BY CouponConstants
  <2>2. PICK e \in t : IsFirst(e, Matching(t)) /\ status[e] = "N"
    BY DEF Valid
  <2>3. id[c] <= id[e] /\ id[e] <= id[c] /\ id[c] \in Nat /\ id[e] \in Nat
    BY <2>1, <2>2 DEF IsFirst, IInv, TypeOK
  <2>4. c = e
    BY <2>1, <2>2, <2>3 DEF IsFirst, Matching, IInv, TableInv
  <2> QED
    BY <2>1, <2>2, <2>4 DEF IInv, RedemptionInv, CardInv, Crediting
<1> QED
  BY <1>1, IInvHolds, PTL

\* A used card of some worth that brought no credit is in a running redemption
\* or in one that died, as long as cards are looked up by their own number.
THEOREM UncreditedCards == Spec => []UncreditedOnlyByCrash
<1>1. IInv => UncreditedOnlyByCrash
  BY DEF IInv
<1> QED
  BY <1>1, IInvHolds, PTL

\* Cards are used up for good, and a redemption only ever improves an account.
THEOREM Redemptions == Spec => RedemptionSteps
<1> DEFINE A == /\ \A c \in Cards : status[c] = "U" => status'[c] = "U"
                /\ \A u \in Users : login'[u] # login[u] =>
                     /\ login'[u].account_state = "ACTIVE"
                     /\ login'[u].credit > login[u].credit
                     /\ login'[u].expire_at >= login[u].expire_at
<1>1. IInv /\ [Next]_vars => [A]_vars
  <2> SUFFICES ASSUME IInv, Next PROVE A
    OBVIOUS
  <2>c. \A r \in Requests : req[r].card \in Cards
    BY DEF IInv, TypeOK
  <2>1. ASSUME NEW c \in Cards, NEW w \in Worths, NEW d \in Days, Generate(c, w, d)
        PROVE  A
    BY <2>1 DEF Generate, IInv, TypeOK
  <2>2. ASSUME NEW r \in Requests, UseCoupon(r) PROVE A
    <3>1. login' = login
      BY <2>2, UseCouponEffect
    <3>2. \A c \in Cards : status[c] = "U" => status'[c] = "U"
      BY <2>2, UseCouponEffect DEF IInv, TypeOK
    <3> QED BY <3>1, <3>2
  <2>3. ASSUME NEW r \in Requests, CreditLogin(r) PROVE A
    <3> DEFINE c == req[r].card
               v == req[r].username
    <3>1. /\ c \in Cards /\ v \in Users
          /\ worth[c] \in Nat \ {0} /\ expire[c] \in Nat
      BY <2>3, <2>c DEF CreditLogin, IInv, TypeOK, RedemptionInv
    <3>2. login[v].credit \in Int /\ login[v].expire_at \in Nat
      BY <3>1 DEF IInv, TypeOK, AccountType
    <3>3. /\ login'[v].account_state = "ACTIVE"
          /\ login'[v].credit = login[v].credit + worth[c]
          /\ login'[v].expire_at =
               (IF login[v].expire_at # 0 THEN login[v].expire_at ELSE Today) + expire[c]
          /\ \A u \in Users \ {v} : login'[u] = login[u]
      BY <2>3, <3>1 DEF CreditLogin, IInv, TypeOK
    <3>4. login'[v].expire_at >= login[v].expire_at
      BY <3>1, <3>2, <3>3, CouponConstants
    <3> QED
      <4>1. \A e \in Cards : status[e] = "U" => status'[e] = "U"
        BY <2>3 DEF CreditLogin, coupons
      <4>2. login'[v].credit > login[v].credit
        BY <3>1, <3>2, <3>3
      <4>3. ASSUME NEW u \in Users, login'[u] # login[u] PROVE u = v
        BY <3>3, <4>3
      <4> QED
        BY <3>3, <3>4, <4>1, <4>2, <4>3
  <2>4. ASSUME NEW r \in Requests,
               CheckUser(r) \/ CountUnused(r) \/ ReadCredit(r) \/ WriteRecord(r) \/ Crash(r)
        PROVE  A
    BY <2>4 DEF CheckUser, CountUnused, ReadCredit, WriteRecord, Crash, coupons
  <2>5. ASSUME NEW r \in Requests, NEW t \in Typed, NEW n \in Names, Submit(r, t, n)
        PROVE  A
    BY <2>5 DEF Submit, coupons
  <2> QED
    BY <2>1, <2>2, <2>3, <2>4, <2>5 DEF Next, Serve
<1> QED
  BY <1>1, IInvHolds, PTL DEF Spec, RedemptionSteps
-----------------------------------------------------------------------------
(* How often a card can be credited. *)

\* The redemptions that passed the count for card c and may still credit it.
Window(c) == {r \in Requests : c \in req[r].typed /\ req[r].pc \in {"use", "read", "login"}}

\* Every credit of a used card takes one redemption out of the window, and
\* nobody enters the window of a used card.
OverlapInv ==
  \A c \in Cards \ blurred : status[c] = "U" =>
    granted[c] + Cardinality(Window(c)) <= overlap[c]

LEMMA WindowFinite ==
  ASSUME NEW c PROVE IsFiniteSet(Window(c)) /\ Cardinality(Window(c)) \in Nat
<1>1. Window(c) \in SUBSET Requests
  BY DEF Window
<1> QED
  BY <1>1, CouponConstants, FS_Subset, FS_CardinalityType

\* A window that only loses redemptions does not grow.
LEMMA WindowShrinks ==
  ASSUME NEW c, Window(c)' \subseteq Window(c)
  PROVE  Cardinality(Window(c)') <= Cardinality(Window(c)) /\ Cardinality(Window(c)') \in Nat
BY WindowFinite, FS_Subset, FS_CardinalityType

\* The overlap invariant is inductive relative to IInv.
LEMMA InductiveOverlap == IInv /\ IInv' /\ OverlapInv /\ [Next]_vars => OverlapInv'
<1> SUFFICES ASSUME IInv, IInv', OverlapInv, [Next]_vars,
                    NEW c \in Cards, c \notin blurred', status'[c] = "U"
             PROVE  granted'[c] + Cardinality(Window(c)') <= overlap'[c]
  BY DEF OverlapInv
<1> DEFINE G == granted'[c] + Cardinality(Window(c)') <= overlap'[c]
<1>r. req \in [Requests -> RequestType]
  BY DEF IInv, TypeOK, RequestType
<1>g. granted[c] \in Nat /\ granted'[c] \in Nat /\ overlap[c] \in Nat
  BY DEF IInv, TypeOK
<1>f. Cardinality(Window(c)) \in Nat
  BY WindowFinite
<1>b. c \notin blurred
  BY DEF Next, Serve, Generate, Submit, CheckUser, CountUnused, UseCoupon, ReadCredit,
         CreditLogin, WriteRecord, Crash, vars, history
<1>t. \A q \in Requests : c \in req[q].typed => req[q].typed = {c}
  BY <1>b DEF IInv, BlurInv
<1>s. ASSUME status[c] = "U", granted'[c] = granted[c], overlap'[c] = overlap[c],
             Window(c)' \subseteq Window(c)
      PROVE  G
  BY <1>s, <1>g, <1>f, <1>b, WindowShrinks DEF OverlapInv
<1>1. ASSUME NEW x \in Cards, NEW w \in Worths, NEW d \in Days, Generate(x, w, d) PROVE G
  <2>1. /\ status[c] = "U" /\ granted' = granted /\ overlap' = overlap
        /\ Window(c)' \subseteq Window(c)
    BY <1>1 DEF Generate, IInv, TypeOK, Window, history
  <2> QED BY <2>1, <1>s
<1>2. ASSUME NEW r \in Requests, NEW t \in Typed, NEW n \in Names, Submit(r, t, n) PROVE G
  <2>1. /\ req'[r].pc = "user"
        /\ \A q \in Requests \ {r} : req'[q] = req[q]
    BY <1>2, <1>r DEF Submit, RequestType
  <2>2. /\ status[c] = "U" /\ granted' = granted /\ overlap' = overlap
        /\ Window(c)' \subseteq Window(c)
    BY <1>2, <2>1 DEF Submit, Window, coupons
  <2> QED BY <2>2, <1>s
<1>3. ASSUME NEW r \in Requests,
             CheckUser(r) \/ CountUnused(r) \/ WriteRecord(r) \/ Crash(r)
      PROVE  G
  <2>1. status[c] = "U" /\ granted' = granted /\ overlap' = overlap
    BY <1>3 DEF CheckUser, CountUnused, WriteRecord, Crash, coupons, history
  <2>2. PICK k \in PcStates :
          /\ Goto(r, k)
          /\ k \in {"use", "read", "login"} => Unused(req[r].typed) # {}
    BY <1>3 DEF CheckUser, CountUnused, WriteRecord, Crash, PcStates
  <2>3. k \in {"use", "read", "login"} => c \notin req[r].typed
    BY <1>t, <2>1, <2>2 DEF Unused
  <2>4. Window(c)' \subseteq Window(c)
    BY <1>r, <2>2, <2>3, GotoEffect DEF Window
  <2> QED BY <2>1, <2>4, <1>s
<1>4. ASSUME NEW r \in Requests, UseCoupon(r) PROVE G
  <2>0. /\ req[r].pc = "use" /\ req'[r].pc = "read" /\ req'[r].typed = req[r].typed
        /\ \A q \in Requests \ {r} : req'[q] = req[q]
        /\ granted' = granted
    BY <1>4, <1>r, UseCouponEffect, GotoEffect DEF PcStates
  <2>1. Window(c)' = Window(c)
    BY <2>0 DEF Window
  <2>2. CASE Unused(req[r].typed) = {} /\ status' = status /\ overlap' = overlap
    BY <2>0, <2>1, <2>2, <1>s
  <2>3. ASSUME NEW d \in Cards, status[d] = "N", status' = [status EXCEPT ![d] = "U"],
               overlap' = [overlap EXCEPT ![d] = Cardinality(Rivals(d))]
        PROVE  G
    <3>1. CASE d = c
      <4>1. granted[c] = 0
        BY <2>3, <3>1 DEF IInv, CardInv
      <4>2. ASSUME NEW q \in Requests, c \in req[q].typed PROVE req[q].pc \notin {"read", "login"}
        <5>1. req[q].typed = {c}
          BY <1>t, <4>2
        <5>2. IsFirst(c, Matching(req[q].typed))
          BY <2>3, <3>1, <5>1 DEF IsFirst, Matching, IInv, TypeOK
        <5> QED
          BY <2>3, <3>1, <5>1, <5>2 DEF IInv, RedemptionInv
      <4>3. Window(c) = Rivals(c)
        BY <4>2 DEF Window, Rivals
      <4>4. overlap'[c] = Cardinality(Window(c))
        BY <2>3, <3>1, <4>3 DEF IInv, TypeOK
      <4> QED
        BY <1>f, <2>0, <2>1, <4>1, <4>4
    <3>2. CASE d # c
      <4>1. status[c] = "U" /\ overlap'[c] = overlap[c]
        BY <2>3, <3>2 DEF IInv, TypeOK
      <4> QED
        BY <2>0, <2>1, <4>1, <1>s
    <3> QED BY <3>1, <3>2
  <2> HIDE DEF G
  <2> QED BY <1>4, <2>2, <2>3, UseCouponEffect
<1>5. ASSUME NEW r \in Requests, ReadCredit(r) PROVE G
  <2>1. /\ status[c] = "U" /\ granted' = granted /\ overlap' = overlap
        /\ req[r].pc = "read"
    BY <1>5 DEF ReadCredit, coupons, history
  <2>2. /\ \A q \in Requests \ {r} : req'[q] = req[q]
        /\ req'[r].typed \in {{}, req[r].typed}
    BY <1>5, <1>r DEF ReadCredit, NoRequest, RequestType
  <2>3. Window(c)' \subseteq Window(c)
    BY <2>1, <2>2 DEF Window
  <2> QED BY <2>1, <2>3, <1>s
<1>6. ASSUME NEW r \in Requests, CreditLogin(r) PROVE G
  <2>0. /\ status[c] = "U" /\ req[r].pc = "login" /\ req[r].card \in Cards
        /\ granted' = [granted EXCEPT ![req[r].card] = @ + 1]
        /\ overlap' = overlap
    BY <1>6, <1>r DEF CreditLogin, coupons, RequestType
  <2>1. /\ req'[r].pc = "record"
        /\ \A q \in Requests \ {r} : req'[q] = req[q]
    BY <1>6, <1>r, GotoEffect DEF CreditLogin, PcStates
  <2>t. req[r].card \in req[r].typed
    BY <2>0 DEF IInv, RedemptionInv
  <2>2. CASE req[r].card = c
    <3>1. Window(c)' = Window(c) \ {r} /\ r \in Window(c)
      BY <2>0, <2>1, <2>2, <2>t DEF Window
    <3>2. Cardinality(Window(c)') = Cardinality(Window(c)) - 1
      BY <3>1, WindowFinite, FS_RemoveElement
    <3>3. granted'[c] = granted[c] + 1
      BY <2>0, <2>2 DEF IInv, TypeOK
    <3> QED BY <2>0, <3>2, <3>3, <1>g, <1>f, <1>b DEF OverlapInv
  <2>3. CASE req[r].card # c
    <3>1. granted'[c] = granted[c] /\ Window(c)' \subseteq Window(c)
      BY <2>0, <2>1, <2>3 DEF Window, IInv, TypeOK
    <3> QED BY <2>0, <3>1, <1>s
  <2> QED BY <2>2, <2>3
<1>7. CASE UNCHANGED vars
  BY <1>7, <1>s DEF vars, coupons, history, Window
<1> QED
  BY <1>1, <1>2, <1>3, <1>4, <1>5, <1>6, <1>7 DEF Next, Serve

\* A card looked up by its own number is credited at most once per redemption
\* that was between the count and the UPDATE when it was used up: later ones
\* are refused, and without an overlap it is credited at most once.
THEOREM AtMostOncePerOverlap == Spec => []CreditedAtMostOncePerOverlap
<1>1. Init => OverlapInv
  BY DEF Init, OverlapInv
<1>2. IInv /\ OverlapInv => CreditedAtMostOncePerOverlap
  <2> SUFFICES ASSUME IInv, OverlapInv, NEW c \in Cards \ blurred
               PROVE  granted[c] <= overlap[c]
    BY DEF CreditedAtMostOncePerOverlap
  <2>1. granted[c] \in Nat /\ Cardinality(Window(c)) \in Nat /\ overlap[c] \in Nat
    BY WindowFinite DEF IInv, TypeOK
  <2>2. CASE status[c] = "U"
    BY <2>1, <2>2 DEF OverlapInv
  <2>3. CASE status[c] # "U"
    BY <2>1, <2>3 DEF IInv, CardInv
  <2> QED BY <2>2, <2>3
<1> QED
  BY <1>1, <1>2, InductiveOverlap, IInvHolds, PTL DEF Spec
-----------------------------------------------------------------------------
(* The ledger. *)

\* The redemptions that credited card c and have not written it down yet.
Writing(c) == {r \in Requests : req[r].card = c /\ req[r].pc = "record"}

\* A credit of a card is in the ledger, about to be written, or its redemption
\* died: counting the writers makes the property inductive.
LedgerInv ==
  \A c \in Cards :
    /\ records[c] + Cardinality(Writing(c)) <= granted[c]
    /\ c \notin lost => records[c] + Cardinality(Writing(c)) = granted[c]

LEMMA WritingFinite ==
  ASSUME NEW c PROVE IsFiniteSet(Writing(c)) /\ Cardinality(Writing(c)) \in Nat
<1>1. Writing(c) \in SUBSET Requests
  BY DEF Writing
<1> QED
  BY <1>1, CouponConstants, FS_Subset, FS_CardinalityType

\* What a redemption that goes on to k does to the set of writers of card c.
LEMMA WritingMoves ==
  ASSUME req \in [Requests -> RequestType], NEW r \in Requests,
         NEW k \in PcStates, Goto(r, k), NEW c
  PROVE  /\ (req[r].card # c \/ (req[r].pc # "record" /\ k # "record"))
              => Writing(c)' = Writing(c)
         /\ (req[r].card = c /\ req[r].pc = "record" /\ k # "record")
              => Writing(c)' = Writing(c) \ {r} /\ r \in Writing(c)
         /\ (req[r].card = c /\ req[r].pc # "record" /\ k = "record")
              => Writing(c)' = Writing(c) \cup {r} /\ r \notin Writing(c)
BY GotoEffect DEF Writing

LEMMA InductiveLedger == IInv /\ LedgerInv /\ [Next]_vars => LedgerInv'
<1> SUFFICES ASSUME IInv, LedgerInv, [Next]_vars, NEW c \in Cards
             PROVE  /\ records'[c] + Cardinality(Writing(c)') <= granted'[c]
                    /\ c \notin lost' => records'[c] + Cardinality(Writing(c)') = granted'[c]
  BY DEF LedgerInv
<1> DEFINE G == /\ records'[c] + Cardinality(Writing(c)') <= granted'[c]
                /\ c \notin lost' => records'[c] + Cardinality(Writing(c)') = granted'[c]
<1>r. req \in [Requests -> RequestType]
  BY DEF IInv, TypeOK, RequestType
<1>n. /\ granted[c] \in Nat /\ records[c] \in Nat
      /\ granted \in [Cards -> Nat] /\ records \in [Cards -> Nat]
  BY DEF IInv, TypeOK
<1>f. IsFiniteSet(Writing(c)) /\ Cardinality(Writing(c)) \in Nat
  BY WritingFinite
<1>s. ASSUME records'[c] = records[c], granted'[c] = granted[c], lost \subseteq lost',
             Writing(c)' = Writing(c)
      PROVE  G
  BY <1>s DEF LedgerInv
<1>1. ASSUME NEW x \in Cards, NEW w \in Worths, NEW d \in Days, Generate(x, w, d) PROVE G
  BY <1>1, <1>s DEF Generate, Writing, history
<1>2. ASSUME NEW r \in Requests, NEW t \in Typed, NEW n \in Names, Submit(r, t, n) PROVE G
  <2>1. /\ req[r].pc # "record" /\ req'[r].pc # "record"
        /\ \A q \in Requests \ {r} : req'[q] = req[q]
    BY <1>2, <1>r DEF Submit, RequestType
  <2>2. Writing(c)' = Writing(c)
    BY <2>1 DEF Writing
  <2> QED
    BY <1>2, <2>2, <1>s DEF Submit
<1>3. ASSUME NEW r \in Requests, CheckUser(r) \/ CountUnused(r) \/ UseCoupon(r)
      PROVE  G
  <2>1. PICK k \in PcStates \ {"record"} : Goto(r, k) /\ req[r].pc # "record"
    BY <1>3 DEF CheckUser, CountUnused, UseCoupon, PcStates
  <2>2. Writing(c)' = Writing(c)
    BY <1>r, <2>1, WritingMoves
  <2> QED
    BY <1>3, <2>2, <1>s DEF CheckUser, CountUnused, UseCoupon, history
<1>8. ASSUME NEW r \in Requests, ReadCredit(r) PROVE G
  <2>1. /\ req[r].pc # "record" /\ req'[r].pc # "record"
        /\ \A q \in Requests \ {r} : req'[q] = req[q]
    BY <1>8, <1>r DEF ReadCredit, NoRequest, RequestType
  <2>2. Writing(c)' = Writing(c)
    BY <2>1 DEF Writing
  <2> QED
    BY <1>8, <2>2, <1>s DEF ReadCredit, history
<1>4. ASSUME NEW r \in Requests, CreditLogin(r) PROVE G
  <2>1. /\ Goto(r, "record") /\ req[r].pc = "login" /\ "record" \in PcStates
        /\ records' = records /\ lost' = lost
        /\ granted' = [granted EXCEPT ![req[r].card] = @ + 1]
    BY <1>4 DEF CreditLogin, PcStates
  <2>2. CASE req[r].card = c
    <3>1. Writing(c)' = Writing(c) \cup {r} /\ r \notin Writing(c)
      BY <1>r, <2>1, <2>2, WritingMoves
    <3>2. Cardinality(Writing(c)') = Cardinality(Writing(c)) + 1
      BY <1>f, <3>1, FS_AddElement
    <3>3. granted'[c] = granted[c] + 1
      BY <1>n, <2>1, <2>2
    <3> QED
      BY <1>n, <1>f, <2>1, <3>2, <3>3 DEF LedgerInv
  <2>3. CASE req[r].card # c
    <3>1. Writing(c)' = Writing(c)
      BY <1>r, <2>1, <2>3, WritingMoves
    <3>2. granted'[c] = granted[c]
      BY <1>n, <2>1, <2>3
    <3> QED
      BY <1>s, <2>1, <3>1, <3>2
  <2> QED
    BY <2>2, <2>3
<1>5. ASSUME NEW r \in Requests, WriteRecord(r) PROVE G
  <2>1. /\ Goto(r, "idle") /\ req[r].pc = "record" /\ "idle" \in PcStates
        /\ granted' = granted /\ lost' = lost
        /\ records' = [records EXCEPT ![req[r].card] = @ + 1]
    BY <1>5 DEF WriteRecord, PcStates, history
  <2>2. CASE req[r].card = c
    <3>1. Writing(c)' = Writing(c) \ {r} /\ r \in Writing(c)
      BY <1>r, <2>1, <2>2, WritingMoves
    <3>2. Cardinality(Writing(c)') = Cardinality(Writing(c)) - 1
      BY <1>f, <3>1, FS_RemoveElement
    <3>3. records'[c] = records[c] + 1
      BY <1>n, <2>1, <2>2
    <3> QED
      BY <1>n, <1>f, <2>1, <3>2, <3>3 DEF LedgerInv
  <2>3. CASE req[r].card # c
    <3>1. Writing(c)' = Writing(c)
      BY <1>r, <2>1, <2>3, WritingMoves
    <3>2. records'[c] = records[c]
      BY <1>n, <2>1, <2>3
    <3> QED
      BY <1>s, <2>1, <3>1, <3>2
  <2> QED
    BY <2>2, <2>3
<1>6. ASSUME NEW r \in Requests, Crash(r) PROVE G
  <2>1. /\ Goto(r, "idle") /\ "idle" \in PcStates
        /\ granted' = granted /\ records' = records /\ lost \subseteq lost'
        /\ req[r].pc = "record" => req[r].card \in lost'
    BY <1>6 DEF Crash, PcStates
  <2>2. CASE req[r].card = c /\ req[r].pc = "record"
    <3>1. Writing(c)' = Writing(c) \ {r} /\ r \in Writing(c)
      BY <1>r, <2>1, <2>2, WritingMoves
    <3>2. Cardinality(Writing(c)') = Cardinality(Writing(c)) - 1
      BY <1>f, <3>1, FS_RemoveElement
    <3> QED
      BY <1>n, <1>f, <2>1, <2>2, <3>2 DEF LedgerInv
  <2>3. CASE ~(req[r].card = c /\ req[r].pc = "record")
    <3>1. Writing(c)' = Writing(c)
      BY <1>r, <2>1, <2>3, WritingMoves
    <3> QED
      BY <1>s, <2>1, <3>1
  <2> QED
    BY <2>2, <2>3
<1>7. CASE UNCHANGED vars
  BY <1>7, <1>s DEF vars, history, Writing
<1> QED
  BY <1>1, <1>2, <1>3, <1>4, <1>5, <1>6, <1>7, <1>8 DEF Next, Serve

\* transactions_records never shows a redemption that was not credited, and
\* misses one only while it is being written or after its process died.
THEOREM Ledger == Spec => []LedgerFollowsCredit
<1>1. Init => LedgerInv
  <2> SUFFICES ASSUME Init, NEW c \in Cards
               PROVE  records[c] = 0 /\ granted[c] = 0 /\ Cardinality(Writing(c)) = 0
    BY DEF LedgerInv
  <2>1. Writing(c) = {}
    BY DEF Init, NoRequest, Writing
  <2> QED
    BY <2>1, FS_EmptySet DEF Init
<1>2. IInv /\ LedgerInv => LedgerFollowsCredit
  <2> SUFFICES ASSUME IInv, LedgerInv, NEW c \in Cards
               PROVE  /\ records[c] <= granted[c]
                      /\ records[c] < granted[c] => c \in lost \/ Writing(c) # {}
    BY DEF LedgerFollowsCredit, Writing
  <2>1. /\ granted[c] \in Nat /\ records[c] \in Nat
        /\ Cardinality(Writing(c)) \in Nat
        /\ Writing(c) = {} => Cardinality(Writing(c)) = 0
    BY WritingFinite, FS_EmptySet DEF IInv, TypeOK
  <2> QED
    BY <2>1 DEF LedgerInv
<1> QED
  BY <1>1, <1>2, InductiveLedger, IInvHolds, PTL DEF Spec
-----------------------------------------------------------------------------
(* One redemption at a time, of one card, implements OneTimeCredit. *)

Serial == \E r : Requests = {r}

\* Nothing typed matches more than one card.
Exact == \A t \in Typed : \A c, e \in t : c = e

\* Nobody used the card up behind the back of the one redemption.
SerialInv ==
  \A r \in Requests :
    /\ \A c, e \in req[r].typed : c = e
    /\ req[r].pc = "use" => \E c \in Cards : c \in req[r].typed /\ status[c] = "N"
    /\ req[r].pc = "read" => \A c \in req[r].typed : granted[c] = 0
    /\ req[r].pc = "login" => granted[req[r].card] = 0

LEMMA InductiveSerial == Serial /\ Exact /\ IInv /\ SerialInv /\ [Next]_vars => SerialInv'
<1> SUFFICES ASSUME Serial, Exact, IInv, SerialInv, [Next]_vars PROVE SerialInv'
  OBVIOUS
<1>0. PICK r0 : Requests = {r0}
  BY DEF Serial
<1>r. req \in [Requests -> RequestType]
  BY DEF IInv, TypeOK, RequestType
<1>c. \A r \in Requests : req[r].card \in Cards /\ req[r].typed \in SUBSET Cards
  BY <1>r DEF RequestType
<1>1. ASSUME NEW x \in Cards, NEW w \in Worths, NEW d \in Days, Generate(x, w, d)
      PROVE  SerialInv'
  <2>1. /\ \A c \in Cards : status[c] = "N" => status'[c] = "N"
        /\ req' = req /\ granted' = granted
    BY <1>1 DEF Generate, IInv, TypeOK, history
  <2> QED
    BY <2>1 DEF SerialInv
<1>2. ASSUME NEW r \in Requests, NEW t \in Typed, NEW n \in Names, Submit(r, t, n)
      PROVE  SerialInv'
  <2>1. req'[r].pc = "user" /\ req'[r].typed = t
    BY <1>2, <1>r DEF Submit, RequestType
  <2> QED
    BY <1>0, <2>1 DEF SerialInv, Exact
<1>3. ASSUME NEW r \in Requests, CountUnused(r) PROVE SerialInv'
  <2>1. PICK k \in {"use", "idle"} : Goto(r, k) /\ (k = "use" => Unused(req[r].typed) # {})
    BY <1>3 DEF CountUnused
  <2>2. /\ req'[r].pc = k
        /\ k = "use" => req'[r].typed = req[r].typed
        /\ k = "idle" => req'[r].typed = {}
    BY <1>r, <2>1, GotoEffect DEF PcStates
  <2>3. k = "use" => \E c \in Cards : c \in req[r].typed /\ status[c] = "N"
    BY <1>c, <2>1 DEF Unused
  <2>4. status' = status
    BY <1>3 DEF CountUnused, coupons
  <2> QED
    BY <1>0, <2>2, <2>3, <2>4 DEF SerialInv
<1>4. ASSUME NEW r \in Requests, UseCoupon(r) PROVE SerialInv'
  <2>1. /\ req'[r].pc = "read" /\ req'[r].typed = req[r].typed /\ req[r].pc = "use"
        /\ granted' = granted
    BY <1>4, <1>r, GotoEffect, UseCouponEffect DEF PcStates
  <2>2. \A c \in req[r].typed : granted[c] = 0
    BY <1>c, <2>1 DEF SerialInv, IInv, CardInv
  <2> QED
    BY <1>0, <2>1, <2>2 DEF SerialInv
<1>5. ASSUME NEW r \in Requests, ReadCredit(r) PROVE SerialInv'
  <2>1. PICK c \in req[r].typed :
          /\ req[r].pc = "read"
          /\ req' = [req EXCEPT ![r] = IF worth[c] = 0 THEN NoRequest
                                       ELSE [@ EXCEPT !.pc = "login", !.card = c]]
    BY <1>5 DEF ReadCredit
  <2>2. granted[c] = 0 /\ granted' = granted
    BY <1>5, <2>1 DEF SerialInv, ReadCredit, history
  <2>3. CASE worth[c] = 0
    <3>1. req'[r].pc = "idle" /\ req'[r].typed = {}
      BY <1>r, <2>1, <2>3 DEF NoRequest
    <3> QED
      BY <1>0, <3>1 DEF SerialInv
  <2>4. CASE worth[c] # 0
    <3>1. /\ req'[r].pc = "login" /\ req'[r].card = c /\ req'[r].typed = req[r].typed
      BY <1>r, <2>1, <2>4 DEF RequestType
    <3> QED
      BY <1>0, <2>2, <3>1 DEF SerialInv
  <2> QED BY <2>3, <2>4
<1>6. ASSUME NEW r \in Requests,
             CheckUser(r) \/ CreditLogin(r) \/ WriteRecord(r) \/ Crash(r)
      PROVE  SerialInv'
  <2>1. PICK k \in {"count", "idle", "record"} : Goto(r, k)
    BY <1>6 DEF CheckUser, CreditLogin, WriteRecord, Crash
  <2>2. req'[r].pc = k /\ req'[r].typed \in {{}, req[r].typed}
    BY <1>r, <2>1, GotoEffect DEF PcStates
  <2> QED
    BY <1>0, <2>2 DEF SerialInv
<1>7. CASE UNCHANGED vars
  BY <1>7 DEF vars, coupons, history, SerialInv
<1> QED
  BY <1>1, <1>2, <1>3, <1>4, <1>5, <1>6, <1>7 DEF Next, Serve

\* Steps that leave cards, accounts and grants alone do not move a voucher.
LEMMA StutterStep ==
  ASSUME UNCHANGED <<status, worth, login, granted>>
  PROVE  UNCHANGED Abstract!avars
BY DEF Abstract!avars, VoucherState, VoucherOf

LEMMA MoveVoucher ==
  ASSUME NEW c \in Cards, NEW s, VoucherOf(c)' = s,
         \A x \in Cards \ {c} : VoucherOf(x)' = VoucherOf(x)
  PROVE  VoucherState' = [VoucherState EXCEPT ![c] = s]
BY DEF VoucherState

LEMMA StepRefines == IInv /\ IInv' /\ SerialInv /\ [Next]_vars
                       => [Abstract!ANext]_(Abstract!avars)
<1> SUFFICES ASSUME IInv, IInv', SerialInv, [Next]_vars
             PROVE  [Abstract!ANext]_(Abstract!avars)
  OBVIOUS
<1>c. \A r \in Requests : req[r].card \in Cards
  BY DEF IInv, TypeOK
<1>1. ASSUME NEW c \in Cards, NEW w \in Worths, NEW d \in Days, Generate(c, w, d)
      PROVE  Abstract!ANext
  <2>1. worth' \in [Cards -> Int]
    BY DEF IInv, TypeOK
  <2>2. VoucherState[c] = "absent"
    BY <1>1 DEF Generate, VoucherState, VoucherOf, IInv, CardInv
  <2>3. VoucherState' = [VoucherState EXCEPT ![c] = "open"]
    BY <1>1, MoveVoucher DEF Generate, VoucherOf, IInv, TypeOK, CardInv, history
  <2>4. Abstract!Issue(c)
    BY <1>1, <2>1, <2>2, <2>3 DEF Abstract!Issue, Generate, IInv, TypeOK
  <2> QED
    BY <2>4 DEF Abstract!ANext
<1>2. ASSUME NEW r \in Requests, UseCoupon(r) PROVE Abstract!ANext
  <2>0. /\ Unused(req[r].typed) # {}
        /\ UNCHANGED <<worth, login, granted>>
    BY <1>2, UseCouponEffect DEF SerialInv, Unused
  <2>1. PICK c \in Cards : /\ status[c] = "N" /\ granted[c] = 0
                           /\ status' = [status EXCEPT ![c] = "U"]
    BY <1>2, <2>0, UseCouponEffect DEF IInv, CardInv
  <2>2. VoucherState[c] = "open"
    BY <2>1 DEF VoucherState, VoucherOf
  <2>3. VoucherState' = [VoucherState EXCEPT ![c] = "consumed"]
    BY <2>0, <2>1, MoveVoucher DEF VoucherOf, IInv, TypeOK
  <2>4. Abstract!Consume(c)
    BY <2>0, <2>2, <2>3 DEF Abstract!Consume
  <2> QED
    BY <2>1, <2>4 DEF Abstract!ANext
<1>3. ASSUME NEW r \in Requests, CreditLogin(r) PROVE Abstract!ANext
  <2>0. PICK c \in Cards, u \in Users : c = req[r].card /\ u = req[r].username
    BY <1>3, <1>c DEF CreditLogin, IInv, RedemptionInv
  <2> DEFINE balance == [v \in Users |-> login[v].credit]
  <2>1. status[c] = "U" /\ granted[c] = 0
    BY <1>3, <2>0 DEF CreditLogin, SerialInv, IInv, RedemptionInv
  <2>2. VoucherState[c] = "consumed"
    BY <2>1 DEF VoucherState, VoucherOf
  <2>3. VoucherState' = [VoucherState EXCEPT ![c] = "granted"]
    BY <1>3, <2>0, <2>1, MoveVoucher DEF CreditLogin, VoucherOf, IInv, TypeOK, coupons
  <2>4. /\ login'[u].credit = login[u].credit + worth[c]
        /\ \A v \in Users \ {u} : login'[v] = login[v]
    BY <1>3, <2>0 DEF CreditLogin, IInv, TypeOK
  <2>5. balance' = [balance EXCEPT ![u] = @ + worth[c]]
    BY <2>4
  <2>6. Abstract!Grant(c, u)
    BY <1>3, <2>2, <2>3, <2>5 DEF Abstract!Grant, CreditLogin, coupons
  <2> QED
    BY <2>6 DEF Abstract!ANext
<1>4. ASSUME NEW r \in Requests,
             CheckUser(r) \/ CountUnused(r) \/ ReadCredit(r) \/ WriteRecord(r) \/ Crash(r)
      PROVE  UNCHANGED Abstract!avars
  BY <1>4, StutterStep DEF CheckUser, CountUnused, ReadCredit, WriteRecord, Crash,
                             coupons, history
<1>5. ASSUME NEW r \in Requests, NEW t \in Typed, NEW n \in Names, Submit(r, t, n)
      PROVE  UNCHANGED Abstract!avars
  BY <1>5, StutterStep DEF Submit, coupons
<1>6. CASE UNCHANGED vars
  BY <1>6, StutterStep DEF vars, coupons, history
<1> QED
  BY <1>1, <1>2, <1>3, <1>4, <1>5, <1>6 DEF Next, Serve

\* As long as redemptions do not overlap and nothing typed matches two cards,
\* cards are one-time credit.
THEOREM SerialRefinement ==
  ASSUME Serial, Exact PROVE Spec => ImplementsOneTimeCredit
<1>1. Init => SerialInv /\ Abstract!AInit
  <2> SUFFICES ASSUME Init PROVE SerialInv /\ Abstract!AInit
    OBVIOUS
  <2>1. SerialInv
    BY DEF Init, NoRequest, SerialInv
  <2>2. [u \in Users |-> login[u].credit] = [u \in Users |-> 0]
    BY DEF Init
  <2>3. Abstract!AInit
    BY <2>2 DEF Init, Abstract!AInit, VoucherState, VoucherOf
  <2> QED BY <2>1, <2>3
<1>2. IInv /\ SerialInv /\ [Next]_vars => SerialInv'
  BY InductiveSerial
<1> QED
  BY <1>1, <1>2, StepRefines, IInvHolds, PTL
     DEF Spec, ImplementsOneTimeCredit, Abstract!ASpec
=============================================================================
