------------------------------ MODULE PppAuth ------------------------------
(***************************************************************************)
(* Authentication of PPTP clients by the pppd plugin (auth-mysql.c).  Each *)
(* client has a pppd of its own; they meet in column login.status, which   *)
(* mysql-column-update names: the plugin sets it to 1 when it accepts a    *)
(* client and back to 0 when the link is gone.  With mysql-exclusive the   *)
(* row is read FOR UPDATE, so its lock is held from the SELECT to the      *)
(* commit of the UPDATE.                                                   *)
(***************************************************************************)
EXTENDS Naturals

CONSTANTS Pppds,          \* pppd processes, each serving one client after the other
          Users,          \* rows of table login
          OptionFiles,    \* the options files considered, each a set of OptionNames
          MaxFaults,      \* bound: dead pppds, lost connections, vanished clients
          NULL            \* no lock

\* The mysql-* options that steer the plugin; "condition" stands for a
\* mysql-condition that contains "status = 0".
OptionNames == {"exclusive", "authoritative", "column-update", "condition",
                "ip-up-fail", "ip-down-fail"}

ASSUME AuthConstants ==
  /\ Users # {}
  /\ OptionFiles \subseteq SUBSET OptionNames
  /\ MaxFaults \in Nat
  /\ NULL \notin Pppds

VARIABLES
  opts,    \* the options file all pppds were started with
  proc,    \* proc[p]: what pppd p is doing, and for whom
  status,  \* status[u]: login.status as committed
  lock,    \* lock[u]: the pppd whose transaction holds the lock on u's row
  lost,    \* history: users whose status nobody is left to reset
  faults

vars == <<opts, proc, status, lock, lost, faults>>

PcStates == {"off", "connect", "select", "verify", "update", "fail",
             "authed", "up", "revert"}

AnyUser == CHOOSE u \in Users : TRUE

TypeOK ==
  /\ opts \in OptionFiles
  /\ proc \in [Pppds -> [pc : PcStates, user : Users]]
  /\ status \in [Users -> {0, 1}]
  /\ lock \in [Users -> Pppds \cup {NULL}]
  /\ lost \in SUBSET Users
  /\ faults \in 0..MaxFaults

Init ==
  /\ opts \in OptionFiles
  /\ proc = [p \in Pppds |-> [pc |-> "off", user |-> AnyUser]]
  /\ status = [u \in Users |-> 0]
  /\ lock = [u \in Users |-> NULL]
  /\ lost = {}
  /\ faults = 0

Goto(p, pc) == proc' = [proc EXCEPT ![p].pc = pc] /\ UNCHANGED opts
At(p, pc) == proc[p].pc = pc
User(p) == proc[p].user

Exclusive == "exclusive" \in opts
Authoritative == "authoritative" \in opts
ColumnUpdate == "column-update" \in opts
Condition == "condition" \in opts

\* The test the plugin makes wherever it locks or resets.
Locking == Exclusive /\ Authoritative /\ ColumnUpdate

\* The end of p's transaction, by commit, rollback or mysql_close.
Released(p) == [u \in Users |-> IF lock[u] = p THEN NULL ELSE lock[u]]

Fault == faults < MaxFaults /\ faults' = faults + 1

\* Statuses 1 that p set and will not reset.
Abandon(p) == lost' = IF At(p, "authed") \/ At(p, "up") \/ At(p, "revert")
                      THEN lost \cup {User(p)} ELSE lost
-----------------------------------------------------------------------------
(* The PAP and CHAP hooks *)

\* A client names its user; pppd calls the hook.
Ask(p, u) ==
  /\ At(p, "off")
  /\ proc' = [proc EXCEPT ![p] = [pc |-> "connect", user |-> u]]
  /\ UNCHANGED <<opts, status, lock, lost, faults>>

\* pppd__mysql_parameter refuses mysql-exclusive without the two other options.
ParametersComplete == Exclusive => ColumnUpdate /\ Authoritative

\* pppd__mysql_connect, with its retries; autocommit is off from here.
Connect(p) ==
  /\ At(p, "connect")
  /\ Goto(p, IF ParametersComplete THEN "select" ELSE "fail")
  /\ UNCHANGED <<status, lock, lost, faults>>

ConnectFails(p) ==
  /\ At(p, "connect")
  /\ Fault
  /\ Goto(p, "fail")
  /\ UNCHANGED <<status, lock, lost>>

\* Mutant of Select: the row is read without FOR UPDATE.
SelectUnlocked(p) ==
  /\ At(p, "select")
  /\ Goto(p, IF Condition => status[User(p)] = 0 THEN "verify" ELSE "fail")
  /\ UNCHANGED <<status, lock, lost, faults>>

\* pppd__mysql_password.  FOR UPDATE waits until no other transaction has the
\* row and locks it; if there is no row the hook closes the connection at once.
Select(p) ==
  LET u == User(p)
      found == Condition => status[u] = 0 IN
  /\ At(p, "select")
  /\ Locking => lock[u] = NULL
  /\ lock' = IF Locking /\ found THEN [lock EXCEPT ![u] = p] ELSE lock
  /\ Goto(p, IF found THEN "verify" ELSE "fail")
  /\ UNCHANGED <<status, lost, faults>>

\* Mutant of SelectTimesOut: the query is retried for ever.
SelectRetries(p) ==
  /\ At(p, "select")
  /\ Locking /\ lock[User(p)] # NULL
  /\ UNCHANGED vars

\* The wait for the lock times out as often as the query is retried.
SelectTimesOut(p) ==
  /\ At(p, "select")
  /\ Locking /\ lock[User(p)] # NULL
  /\ Goto(p, "fail")
  /\ UNCHANGED <<status, lock, lost, faults>>

\* pppd__verify_password, or pppd__decrypt_password and the digest's
\* verify_response, accepts the client or does not.
Verify(p) ==
  /\ At(p, "verify")
  /\ \/ Goto(p, "update") /\ UNCHANGED lock
     \/ Goto(p, "fail") /\ lock' = Released(p)
  /\ UNCHANGED <<status, lost, faults>>

\* pppd__mysql_status(name, 1): UPDATE and commit.  Without mysql-column-update
\* there is no column to set, the query fails and so does the hook.
SetStatus(p) ==
  LET u == User(p) IN
  /\ At(p, "update")
  /\ lock[u] \in {NULL, p}
  /\ lock' = Released(p)
  /\ IF ColumnUpdate
     THEN status' = [status EXCEPT ![u] = 1] /\ Goto(p, "authed")
     ELSE UNCHANGED status /\ Goto(p, "fail")
  /\ UNCHANGED <<lost, faults>>

\* The connection breaks: before the commit, or after it but before the answer.
SetStatusFails(p) ==
  LET u == User(p) IN
  /\ At(p, "update")
  /\ Fault
  /\ lock' = Released(p)
  /\ \/ UNCHANGED <<status, lost>>
     \/ /\ ColumnUpdate /\ lock[u] \in {NULL, p}
        /\ status' = [status EXCEPT ![u] = 1]
        /\ lost' = lost \cup {u}
  /\ Goto(p, "fail")

\* The hook refuses the client; unless it is authoritative pppd looks into the
\* secrets file.
Refuse(p) ==
  /\ At(p, "fail")
  /\ \/ Goto(p, "off")
     \/ ~Authoritative /\ Goto(p, "authed")
  /\ UNCHANGED <<status, lock, lost, faults>>
-----------------------------------------------------------------------------
(* The IPCP notifiers *)

\* pppd__mysql_up: the script succeeds or its failure is ignored.
IpUp(p) ==
  /\ At(p, "authed")
  /\ Goto(p, "up")
  /\ UNCHANGED <<status, lock, lost, faults>>

\* Mutant of IpUpFails: pppd dies without resetting the status.
IpUpFailsDies(p) ==
  /\ At(p, "authed")
  /\ "ip-up-fail" \in opts
  /\ Goto(p, "off")
  /\ UNCHANGED <<status, lock, lost, faults>>

\* pppd__mysql_up: the script fails, the status is reset and pppd dies.
IpUpFails(p) ==
  /\ At(p, "authed")
  /\ "ip-up-fail" \in opts
  /\ Goto(p, IF Locking THEN "revert" ELSE "off")
  /\ UNCHANGED <<status, lock, lost, faults>>

\* The client is gone before IPCP came up: no notifier is called.
Vanish(p) ==
  /\ At(p, "authed")
  /\ Fault
  /\ Abandon(p)
  /\ Goto(p, "off")
  /\ UNCHANGED <<status, lock>>

\* Mutant of IpDown: the status is not reset.
IpDownKeeps(p) ==
  /\ At(p, "up")
  /\ Goto(p, "off")
  /\ UNCHANGED <<status, lock, lost, faults>>

\* pppd__mysql_down: after the script the status is reset.
IpDown(p) ==
  /\ At(p, "up")
  /\ Goto(p, IF Locking THEN "revert" ELSE "off")
  /\ UNCHANGED <<status, lock, lost, faults>>

\* pppd__mysql_down: the script fails and pppd dies before that.
IpDownFails(p) ==
  /\ At(p, "up")
  /\ "ip-down-fail" \in opts
  /\ Fault
  /\ Abandon(p)
  /\ Goto(p, "off")
  /\ UNCHANGED <<status, lock>>

\* pppd__mysql_status(username, 0) on a connection of its own.
Revert(p) ==
  LET u == User(p) IN
  /\ At(p, "revert")
  /\ lock[u] = NULL
  /\ status' = [status EXCEPT ![u] = 0]
  /\ Goto(p, "off")
  /\ UNCHANGED <<lock, lost, faults>>

\* It cannot connect or the update fails; the return code is ignored.
RevertFails(p) ==
  /\ At(p, "revert")
  /\ Fault
  /\ Abandon(p)
  /\ Goto(p, "off")
  /\ UNCHANGED <<status, lock>>

\* pppd dies; the server rolls back and releases what it held.
Dies(p) ==
  /\ ~At(p, "off")
  /\ Fault
  /\ Abandon(p)
  /\ lock' = Released(p)
  /\ Goto(p, "off")
  /\ UNCHANGED status
-----------------------------------------------------------------------------
Hook(p) == \/ Connect(p) \/ Select(p) \/ SelectTimesOut(p) \/ Verify(p)
           \/ SetStatus(p) \/ Refuse(p)

Step(p) ==
  \/ \E u \in Users : Ask(p, u)
  \/ Hook(p)
  \/ IpUp(p) \/ IpUpFails(p) \/ IpDown(p) \/ Revert(p)
  \/ ConnectFails(p) \/ SetStatusFails(p) \/ Vanish(p) \/ IpDownFails(p)
  \/ RevertFails(p) \/ Dies(p)

Next == \E p \in Pppds : Step(p)

Spec == Init /\ [][Next]_vars

\* A hook, once called, runs to its end (a wait for a lock ends by the lock or
\* by the timeout); IPCP comes up or the script fails; the reset gets done.
\* Nothing makes a client come or go.
Fairness == \A p \in Pppds : /\ WF_vars(Hook(p))
                             /\ WF_vars(IpUp(p) \/ IpUpFails(p))
                             /\ WF_vars(Revert(p))

FairSpec == Spec /\ Fairness
-----------------------------------------------------------------------------
(* Properties. *)

\* p has been let in as its user and has not given that up.
Holds(p) == proc[p].pc \in {"authed", "up", "revert"}

\* pppd-mysql.8 on mysql-exclusive: "the plugin will forbid concurrent
\* connections from the same user".
NoConcurrentConnections ==
  \A p, q \in Pppds : (Holds(p) /\ Holds(q) /\ User(p) = User(q)) => p = q

\* The same where the condition makes the SELECT look at the status.
ExclusiveIfConditioned == (Locking /\ Condition) => NoConcurrentConnections

\* A user is marked as logged in while a pppd holds the login, so that every
\* later SELECT refuses, and the mark of a user nobody holds is one whose pppd
\* was lost: no orderly login or logout locks a user out.
StatusFollowsLogins ==
  (Locking /\ Condition) => \A u \in Users :
    /\ (\E p \in Pppds : Holds(p) /\ User(p) = u) => status[u] = 1
    /\ status[u] = 1 => (\E p \in Pppds : Holds(p) /\ User(p) = u) \/ u \in lost

\* A mark is only cleared by the pppd that held the login, as it ends: neither a
\* refused attempt nor the end of another link logs a user out.
LogoutIsOwn ==
  [][(Locking /\ Condition) => \A u \in Users : (status[u] = 1 /\ status'[u] = 0) =>
       \E p \in Pppds : Holds(p) /\ User(p) = u /\ ~Holds(p)']_vars

\* A client that asks is answered, whatever the other pppds do.
AttemptEnds ==
  \A p \in Pppds : At(p, "connect") ~> (At(p, "authed") \/ At(p, "off"))

\* A mark does not outlive its login: whoever is marked is connected, gets
\* unmarked, or is a user whose pppd was lost.
MarkIsCleared ==
  \A u \in Users : (Locking /\ status[u] = 1) ~>
    \/ status[u] = 0 \/ u \in lost
    \/ \E p \in Pppds : proc[p] = [pc |-> "up", user |-> u]
=============================================================================
