--------------------------- MODULE OneTimeCredit ---------------------------
(***************************************************************************)
(* What the shop promises for anything a customer can turn into traffic    *)
(* credit exactly once: an Alipay order (payment_transactions) or a card   *)
(* from a coupon batch (coupons).  A voucher is issued with a fixed worth, *)
(* is consumed by at most one redemption, and adds its worth to one        *)
(* balance (login.credit) at most once and only after it was consumed.     *)
(***************************************************************************)
EXTENDS Integers

CONSTANTS Vouchers,  \* orders or cards
          Users      \* rows of table login

VARIABLES state,     \* state[v]: how far voucher v got
          worth,     \* worth[v]: the credit v stands for
          balance    \* balance[u]: login.credit of u

avars == <<state, worth, balance>>

VoucherStates == {"absent", "open", "consumed", "granted"}

AInit == /\ state = [v \in Vouchers |-> "absent"]
         /\ worth = [v \in Vouchers |-> 0]
         /\ balance = [u \in Users |-> 0]

Issue(v) == /\ state[v] = "absent"
            /\ state' = [state EXCEPT ![v] = "open"]
            /\ worth' \in [Vouchers -> Int]
            /\ \A x \in Vouchers \ {v} : worth'[x] = worth[x]
            /\ UNCHANGED balance

Consume(v) == /\ state[v] = "open"
              /\ state' = [state EXCEPT ![v] = "consumed"]
              /\ UNCHANGED <<worth, balance>>

Grant(v, u) == /\ state[v] = "consumed"
               /\ state' = [state EXCEPT ![v] = "granted"]
               /\ balance' = [balance EXCEPT ![u] = @ + worth[v]]
               /\ UNCHANGED worth

ANext == \E v \in Vouchers : \/ Issue(v)
                             \/ Consume(v)
                             \/ \E u \in Users : Grant(v, u)

ASpec == AInit /\ [][ANext]_avars
=============================================================================
