----------------------------- MODULE MCPayment -----------------------------
(* TLC instances of Payment. *)
EXTENDS Payment

\* In half gigabytes: less than zero, nothing, a total that is rounded (0.5 GB), at
\* the discount step (10 GB), beyond it.
SomeAmounts == {-1, 0, 1, 20, 21}
=============================================================================
