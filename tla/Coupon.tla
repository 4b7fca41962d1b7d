------------------------------- MODULE Coupon -------------------------------
(***************************************************************************)
(* Prepaid cards: generate-coupons.pl puts them on sale, validate.cgi and  *)
(* check-status-coupon.pl tell whether one is still good, and              *)
(* coupon_credit.cgi turns one into credit.  A redemption is a CGI process *)
(* that runs six SQL statements without a transaction (coupons is a MyISAM *)
(* table, so it could not be in one); redemptions interleave between them  *)
(* and may die between them.                                               *)
(*                                                                         *)
(* Every script looks a card up with token LIKE ? AND pass LIKE ?, on the  *)
(* two halves of the typed string, of which only the length is tested.     *)
(* What was typed therefore stands for a set of cards, the rows it         *)
(* matches: one for a card number, none for a wrong one, and several when  *)
(* it contains the pattern characters of LIKE.  The table has no key on    *)
(* token or pass and loses no rows, so that statements scan it in the      *)
(* order of insertion.                                                     *)
(***************************************************************************)
EXTENDS Integers, FiniteSets

CONSTANTS Cards,       \* rows table coupons can hold, one per card number
          Users,       \* rows of table login
          Names,       \* what a customer may type as user name
          Typed,       \* strings that may be typed: the sets of cards they match
          Requests,    \* CGI processes serving coupon_credit.cgi
          Worths,      \* credit of a card; generate-coupons.pl takes any number
          Days,        \* validity of a card, in days
          Today,       \* the day the redemptions happen on
          MaxCrashes   \* bound: how many redemptions may die half-way

ASSUME CouponConstants == /\ Cards # {} /\ Users # {} /\ Users \subseteq Names
                          /\ Typed \subseteq SUBSET Cards
                          /\ Worths \subseteq Nat
                          /\ Days \subseteq Nat
                          /\ Today \in Nat \ {0}
                          /\ MaxCrashes \in Nat
                          /\ IsFiniteSet(Requests)

VARIABLES
  id,       \* id[c]: column coupons.id, the order of insertion
  rows,     \* the table's AUTO_INCREMENT counter
  status,   \* status[c]: column coupons.status; "NONE" = not generated
  worth,    \* worth[c]: column coupons.credit
  expire,   \* expire[c]: column coupons.expire
  login,    \* login[u]: columns credit, account_state, expire_at (0 = NULL)
  records,  \* records[c]: rows of transactions_records for a credit of c
  req,      \* req[r]: the redemption r is serving
  granted,  \* history: how often c's credit was added to login.credit
  lost,     \* history: cards whose redemption died after the UPDATE
  blurred,  \* history: cards matched by a submitted string that matches others
  overlap,  \* history: redemptions between count and UPDATE of c when it was used up
  crashes

coupons == <<id, rows, status, worth, expire>>
history == <<granted, lost, blurred, overlap>>
vars == <<coupons, login, records, req, history, crashes>>

PcStates == {"idle", "user", "count", "use", "read", "login", "record"}

\* Placeholders for fields nothing reads before they are set.
AnyCard == CHOOSE c \in Cards : TRUE
AnyUser == CHOOSE u \in Users : TRUE

\* No CGI process: what a script kept is gone when it ends.
NoRequest == [pc |-> "idle", typed |-> {}, card |-> AnyCard, username |-> AnyUser]

AccountType == [credit : Int, account_state : {"ACTIVE", "DISABLED"}, expire_at : Nat]

TypeOK ==
  /\ id \in [Cards -> Nat]
  /\ rows \in Nat
  /\ status \in [Cards -> {"NONE", "N", "U"}]
  /\ worth \in [Cards -> Nat]
  /\ expire \in [Cards -> Nat]
  /\ login \in [Users -> AccountType]
  /\ records \in [Cards -> Nat]
  /\ req \in [Requests -> [pc : PcStates, typed : SUBSET Cards, card : Cards,
                        username : Names]]
  /\ granted \in [Cards -> Nat]
  /\ lost \in SUBSET Cards
  /\ blurred \in SUBSET Cards
  /\ overlap \in [Cards -> Nat]
  /\ crashes \in 0..MaxCrashes

\* Accounts start without credit, active or suspended, with an expiry date or
\* none (expire.pl clears it, an administrator's suspension does not).
Init ==
  /\ id = [c \in Cards |-> 0]
  /\ rows = 0
  /\ status = [c \in Cards |-> "NONE"]
  /\ worth = [c \in Cards |-> 0]
  /\ expire = [c \in Cards |-> 0]
  /\ login \in [Users -> [credit : {0}, account_state : {"ACTIVE", "DISABLED"},
                          expire_at : {0, Today}]]
  /\ records = [c \in Cards |-> 0]
  /\ req = [r \in Requests |-> NoRequest]
  /\ granted = [c \in Cards |-> 0]
  /\ lost = {}
  /\ blurred = {}
  /\ overlap = [c \in Cards |-> 0]
  /\ crashes = 0
-----------------------------------------------------------------------------
\* generate-coupons.pl: one INSERT per card.
Generate(c, w, d) ==
  /\ status[c] = "NONE"
  /\ rows' = rows + 1
  /\ id' = [id EXCEPT ![c] = rows + 1]
  /\ status' = [status EXCEPT ![c] = "N"]
  /\ worth' = [worth EXCEPT ![c] = w]
  /\ expire' = [expire EXCEPT ![c] = d]
  /\ UNCHANGED <<login, records, req, history, crashes>>

\* WHERE token LIKE ? AND pass LIKE ?, without and with AND status = 'N'.
Matching(t) == {c \in t : status[c] # "NONE"}
Unused(t) == {c \in t : status[c] = "N"}

\* c is the row of S that a scan of the table comes to first.
IsFirst(c, S) == c \in S /\ \A e \in S : id[c] <= id[e]

\* The answer of validate.cgi and check-status-coupon.pl, which fetch the first
\* matching row and test its status; they change nothing.
Valid(t) == \E c \in t : IsFirst(c, Matching(t)) /\ status[c] = "N"

-----------------------------------------------------------------------------
(* coupon_credit.cgi *)

\* The script goes on to its next statement, or ends.
Goto(r, k) ==
  req' = [req EXCEPT ![r] = IF k = "idle" THEN NoRequest ELSE [@ EXCEPT !.pc = k]]

\* A string of 32 characters is typed; others end at once.
Submit(r, t, n) ==
  /\ req[r].pc = "idle"
  /\ req' = [req EXCEPT ![r] = [@ EXCEPT !.pc = "user", !.typed = t, !.username = n]]
  /\ blurred' = IF \E c, e \in t : c # e THEN blurred \cup t ELSE blurred
  /\ UNCHANGED <<coupons, login, records, granted, lost, overlap, crashes>>

\* SELECT count(*) FROM login: an unknown user name ends the redemption.
CheckUser(r) ==
  /\ req[r].pc = "user"
  /\ Goto(r, IF req[r].username \in Users THEN "count" ELSE "idle")
  /\ UNCHANGED <<coupons, login, records, history, crashes>>

\* (mutant) The card is credited without being used up.
CountThenRead(r) ==
  /\ req[r].pc = "count"
  /\ Goto(r, IF Unused(req[r].typed) # {} THEN "read" ELSE "idle")
  /\ UNCHANGED <<coupons, login, records, history, crashes>>

\* (mutant) The count does not ask for status = 'N'.
CountAny(r) ==
  /\ req[r].pc = "count"
  /\ Goto(r, IF Matching(req[r].typed) # {} THEN "use" ELSE "idle")
  /\ UNCHANGED <<coupons, login, records, history, crashes>>

\* SELECT count(*) FROM coupons WHERE status = 'N': no such card, no credit.
CountUnused(r) ==
  /\ req[r].pc = "count"
  /\ Goto(r, IF Unused(req[r].typed) # {} THEN "use" ELSE "idle")
  /\ UNCHANGED <<coupons, login, records, history, crashes>>

\* The redemptions that found card c unused and have not come to the UPDATE.
Rivals(c) == {q \in Requests : req[q].pc = "use" /\ c \in req[q].typed}

\* Card c becomes a used one.
UseUp(c) ==
  /\ status' = [status EXCEPT ![c] = "U"]
  /\ overlap' = [overlap EXCEPT ![c] = Cardinality(Rivals(c))]

\* (mutant) The test of the number of changed rows is the wrong way round.
UseCouponInverted(r) ==
  LET S == Unused(req[r].typed) IN
  /\ req[r].pc = "use"
  /\ \/ \E c \in S : IsFirst(c, S) /\ UseUp(c) /\ Goto(r, "idle")
     \/ S = {} /\ Goto(r, "read") /\ UNCHANGED <<status, overlap>>
  /\ UNCHANGED <<id, rows, worth, expire, login, records, granted, lost, blurred, crashes>>

\* UPDATE coupons SET status = 'U' WHERE status = 'N' ... LIMIT 1: the first
\* unused match, if there is one, is used up.  The script goes on unless
\* execute returned false, and execute returns the true value "0E0" when no
\* row matched: the redemption continues in either case.
UseCoupon(r) ==
  LET S == Unused(req[r].typed) IN
  /\ req[r].pc = "use"
  /\ \/ \E c \in S : IsFirst(c, S) /\ UseUp(c)
     \/ S = {} /\ UNCHANGED <<status, overlap>>
  /\ Goto(r, "read")
  /\ UNCHANGED <<id, rows, worth, expire, login, records, granted, lost, blurred, crashes>>

\* SELECT credit, expire ...: the first match, used or not, is the card that is
\* credited; one worth nothing ends the redemption here.
ReadCredit(r) ==
  /\ req[r].pc = "read"
  /\ \E c \in req[r].typed :
       /\ IsFirst(c, Matching(req[r].typed))
       /\ req' = [req EXCEPT ![r] = IF worth[c] = 0 THEN NoRequest
                                    ELSE [@ EXCEPT !.pc = "login", !.card = c]]
  /\ UNCHANGED <<coupons, login, records, history, crashes>>

\* (mutant) The INSERT into the ledger is missing.
CreditWithoutRecord(r) ==
  LET c == req[r].card
      u == req[r].username IN
  /\ req[r].pc = "login"
  /\ login' = [login EXCEPT ![u].credit = @ + worth[c], ![u].account_state = "ACTIVE"]
  /\ granted' = [granted EXCEPT ![c] = @ + 1]
  /\ Goto(r, "idle")
  /\ UNCHANGED <<coupons, records, lost, blurred, overlap, crashes>>

\* UPDATE login SET account_state = 'ACTIVE', credit = credit + ?,
\*   expire_at = IF(expire_at, expire_at + days, now() + days)
CreditLogin(r) ==
  LET c == req[r].card
      u == req[r].username IN
  /\ req[r].pc = "login"
  /\ login' = [login EXCEPT ![u] =
       [credit        |-> @.credit + worth[c],
        account_state |-> "ACTIVE",
        expire_at     |-> (IF @.expire_at # 0 THEN @.expire_at ELSE Today) + expire[c]]]
  /\ granted' = [granted EXCEPT ![c] = @ + 1]
  /\ Goto(r, "record")
  /\ UNCHANGED <<coupons, records, lost, blurred, overlap, crashes>>

\* INSERT INTO transactions_records, and the page that says so.
WriteRecord(r) ==
  /\ req[r].pc = "record"
  /\ records' = [records EXCEPT ![req[r].card] = @ + 1]
  /\ Goto(r, "idle")
  /\ UNCHANGED <<coupons, login, history, crashes>>

\* The CGI process is killed between two statements (the browser left, the
\* server or the database went away).  Nothing resumes it.
Crash(r) ==
  /\ req[r].pc # "idle"
  /\ crashes < MaxCrashes
  /\ crashes' = crashes + 1
  /\ lost' = lost \cup (IF req[r].pc = "read" THEN req[r].typed
                        ELSE IF req[r].pc \in {"login", "record"} THEN {req[r].card}
                        ELSE {})
  /\ Goto(r, "idle")
  /\ UNCHANGED <<coupons, login, records, granted, blurred, overlap>>
-----------------------------------------------------------------------------
Serve(r) == \/ CheckUser(r) \/ CountUnused(r) \/ UseCoupon(r)
            \/ ReadCredit(r) \/ CreditLogin(r) \/ WriteRecord(r)

Next ==
  \/ \E c \in Cards, w \in Worths, d \in Days : Generate(c, w, d)
  \/ \E r \in Requests, t \in Typed, n \in Names : Submit(r, t, n)
  \/ \E r \in Requests : Serve(r) \/ Crash(r)

Spec == Init /\ [][Next]_vars

\* A redemption the web server started runs on unless it dies.
FairSpec == Spec /\ \A r \in Requests : WF_vars(Serve(r))
-----------------------------------------------------------------------------
(* Properties. *)

\* Redemption r has passed the UPDATE and credits card c, or will.
Crediting(r, c) ==
  \/ req[r].pc = "read" /\ IsFirst(c, Matching(req[r].typed))
  \/ req[r].pc \in {"login", "record"} /\ req[r].card = c

\* The card for which validate.cgi and check-status-coupon.pl answer that it is
\* valid has not been credited to anyone, and no redemption is about to credit
\* it without first using it up.  This holds for whatever is typed.
ValidCardIsUncredited ==
  \A t \in Typed : Valid(t) =>
    \A c \in t : IsFirst(c, Matching(t)) =>
      granted[c] = 0 /\ \A r \in Requests : ~Crediting(r, c)

\* A used card that brought no credit was worth nothing, is being redeemed, its
\* redemption died, or a string was submitted that matches it and other cards.
UncreditedOnlyByCrash ==
  \A c \in Cards :
    (status[c] = "U" /\ granted[c] = 0 /\ worth[c] # 0 /\ c \notin blurred) =>
      \/ c \in lost
      \/ \E r \in Requests : req[r].pc \in {"read", "login"} /\ Crediting(r, c)

\* The ledger never shows more redemptions than were credited, and fewer only
\* while one is being written or after a crash.
LedgerFollowsCredit ==
  \A c \in Cards :
    /\ records[c] <= granted[c]
    /\ records[c] < granted[c] =>
         \/ c \in lost
         \/ \E r \in Requests : req[r].card = c /\ req[r].pc = "record"

\* A card that was only ever looked up by its own number is credited at most as
\* often as there were redemptions of it between the count and the UPDATE of
\* coupon_credit.cgi when it was used up, the one that used it up included.
\* Redemptions that come later never credit it.
CreditedAtMostOncePerOverlap ==
  \A c \in Cards \ blurred : granted[c] <= overlap[c]

\* A used card never becomes valid again, and whoever is credited is active
\* afterwards with an expiry date that moved forward.
RedemptionSteps ==
  [][/\ \A c \in Cards : status[c] = "U" => status'[c] = "U"
     /\ \A u \in Users : login'[u] # login[u] =>
          /\ login'[u].account_state = "ACTIVE"
          /\ login'[u].credit > login[u].credit
          /\ login'[u].expire_at >= login[u].expire_at]_vars

\* A used card of some worth is eventually credited, unless its redemption died
\* or a string that matches other cards too was submitted, in which case the
\* SELECT may have read another card than the UPDATE used up.
UsedIsCredited ==
  \A c \in Cards :
    (status[c] = "U" /\ worth[c] # 0) ~> (granted[c] > 0 \/ c \in lost \cup blurred)

\* The failure page after the UPDATE ("the card number is invalid") is for
\* redemptions that lost the race for a card: a card is credited once.
CreditedAtMostOnce == \A c \in Cards : granted[c] <= 1
-----------------------------------------------------------------------------
(* Refinement: a card is a voucher of OneTimeCredit. *)
VoucherOf(c) == IF granted[c] > 0 THEN "granted"
                ELSE IF status[c] = "U" THEN "consumed"
                ELSE IF status[c] = "N" THEN "open" ELSE "absent"

VoucherState == [c \in Cards |-> VoucherOf(c)]

Abstract == INSTANCE OneTimeCredit WITH
              Vouchers <- Cards, Users <- Users, state <- VoucherState,
              worth <- worth, balance <- [u \in Users |-> login[u].credit]

\* One redemption at a time implements the one-time-credit specification.
ImplementsOneTimeCredit == Abstract!ASpec
=============================================================================
