------------------------------ MODULE MCExpiry ------------------------------
(* TLC instance of Expiry. *)
EXTENDS Expiry

\* The form's default, and a correction by the administrator.
NoneOrBack == {0, -1}
=============================================================================
