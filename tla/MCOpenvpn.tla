------------------------------ MODULE MCOpenvpn ------------------------------
(* TLC instances of OpenvpnAccounting. *)
EXTENDS OpenvpnAccounting

CONSTANT u1

\* Every session belongs to one user.
AllOfOne == [x \in Sessions |-> u1]
=============================================================================
