----------------------------- MODULE MCTickets ------------------------------
(* TLC instances of Tickets. *)
EXTENDS Tickets, TLC

Processes == Permutations(Requests)
=============================================================================
