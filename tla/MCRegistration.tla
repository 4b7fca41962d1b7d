--------------------------- MODULE MCRegistration ---------------------------
(* TLC instances of Registration. *)
EXTENDS Registration

\* The next address carries into the third octet.
BeforeCarry == {<<10, 1, 1, 254>>}

\* Credit is added and taken back.
PlusMinusOne == {1, -1}
=============================================================================
