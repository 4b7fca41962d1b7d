----------------------------- MODULE MCPppAuth -----------------------------
(* TLC instances of PppAuth. *)
EXTENDS PppAuth

ExclusiveOptions == {"exclusive", "authoritative", "column-update"}

\* Exclusive logins as they work; the same with failing scripts; mysql-exclusive
\* without what it needs; a plugin that leaves the last word to the secrets
\* files; no column to update.
SomeFiles == {ExclusiveOptions \cup {"condition"},
              ExclusiveOptions \cup {"condition", "ip-up-fail", "ip-down-fail"},
              {"exclusive", "column-update"},
              {"column-update", "ip-up-fail", "ip-down-fail"},
              {"authoritative"}}
=============================================================================
