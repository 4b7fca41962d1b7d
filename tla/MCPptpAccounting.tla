-------------------------- MODULE MCPptpAccounting --------------------------
(* TLC instances of PptpAccounting. *)
EXTENDS PptpAccounting
=============================================================================
