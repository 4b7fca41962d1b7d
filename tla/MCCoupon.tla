------------------------------ MODULE MCCoupon ------------------------------
(* TLC instances of Coupon. *)
EXTENDS Coupon

CONSTANTS c1, c2

\* The numbers of the two cards, a string that matches both, one that matches
\* none.
NumbersAndPattern == {{c1}, {c2}, {c1, c2}, {}}

\* The number of the one card.
OneNumber == {{c1}}
=============================================================================
