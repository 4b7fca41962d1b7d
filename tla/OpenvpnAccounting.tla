-------------------------- MODULE OpenvpnAccounting --------------------------
(***************************************************************************)
(* What an OpenVPN session costs.  The plugin myopenvpn.c admits users with *)
(* credit; the cron job openvpn-refresh.pl asks the management interface   *)
(* for the client list, keeps table openvpn_connections up to date, kills  *)
(* the users who used up their credit and moves the rows of sessions that  *)
(* are gone to table connections, charging login.credit.  The job checks   *)
(* no result of a statement and uses no transaction; the management        *)
(* interface serves one connection, so jobs do not overlap.                *)
(***************************************************************************)
EXTENDS Integers, FiniteSets, FiniteSetsExt

CONSTANTS Sessions,    \* client sessions over time (name:ip:port:since)
          Users,       \* rows of table login
          UserOf,      \* UserOf[x]: the common name of session x
          Credits,     \* what login.credit may be at the start
          MaxInt,      \* 2^31 - 1, the largest value of an int(11) column
          Packets,     \* how many units one Carry step adds
          MaxBytes,    \* bound: units a session carries
          MaxFaults,   \* bound: dying jobs and failing statements
          NULL         \* no row

ASSUME OpenvpnConstants == /\ Sessions # {}
                           /\ UserOf \in [Sessions -> Users]
                           /\ Credits \subseteq Int /\ MaxInt \in Nat
                           /\ Packets \subseteq Nat
                           /\ MaxBytes \in Nat /\ MaxFaults \in Nat
                           /\ NULL \notin Nat

VARIABLES
  strict,    \* sql_mode: does the server refuse values beyond a column's range?
  state,     \* state[x]: the session as the OpenVPN server sees it
  bytes,     \* bytes[x]: what it received and sent
  table,     \* table[x]: traffic of x's row of openvpn_connections, or NULL
  archived,  \* archived[x]: rows of connections for x
  credit,    \* credit[u]: login.credit
  job,       \* the running openvpn-refresh.pl
  charges,   \* history: how often x was charged
  charged,   \* history: what x was charged in all
  unpaid,    \* history: sessions whose UPDATE of login failed
  faults

tables  == <<table, archived, credit>>
history == <<charges, charged, unpaid>>
vars    == <<strict, state, bytes, tables, job, history, faults>>

JobStates == {"idle", "record", "kill", "move", "charge", "delete"}
AnySession == CHOOSE x \in Sessions : TRUE

\* list and recv are the answer of the management interface, todo the clients
\* not yet recorded, over the users to kill, finished the rows to move and cur
\* the one being moved.
IdleJob == [pc |-> "idle", list |-> {}, recv |-> [x \in Sessions |-> 0], todo |-> {},
            over |-> {}, finished |-> {}, cur |-> AnySession]

TypeOK ==
  /\ strict \in BOOLEAN
  /\ state \in [Sessions -> {"new", "on", "off"}]
  /\ bytes \in [Sessions -> Nat]
  /\ table \in [Sessions -> Nat \cup {NULL}]
  /\ archived \in [Sessions -> Nat]
  /\ credit \in [Users -> Int]
  /\ job \in [pc : JobStates, list : SUBSET Sessions, recv : [Sessions -> Nat],
              todo : SUBSET Sessions, over : SUBSET Users,
              finished : SUBSET Sessions, cur : Sessions]
  /\ charges \in [Sessions -> Nat]
  /\ charged \in [Sessions -> Nat]
  /\ unpaid \in SUBSET Sessions
  /\ faults \in 0..MaxFaults

Init ==
  /\ strict \in BOOLEAN
  /\ state = [x \in Sessions |-> "new"]
  /\ bytes = [x \in Sessions |-> 0]
  /\ table = [x \in Sessions |-> NULL]
  /\ archived = [x \in Sessions |-> 0]
  /\ credit \in [Users -> Credits]
  /\ job = IdleJob
  /\ charges = [x \in Sessions |-> 0] /\ charged = [x \in Sessions |-> 0]
  /\ unpaid = {}
  /\ faults = 0
-----------------------------------------------------------------------------
(* The OpenVPN server *)

\* openvpn_plugin_func_v1: SELECT ... AND credit > 0 AND account_state = 'ACTIVE'.
\* (A disabled account or a wrong password is a login that does not happen.)
Login(x) ==
  /\ state[x] = "new"
  /\ credit[UserOf[x]] > 0
  /\ state' = [state EXCEPT ![x] = "on"]
  /\ UNCHANGED <<strict, bytes, tables, job, history, faults>>

Carry(x, n) ==
  /\ state[x] = "on"
  /\ bytes[x] + n <= MaxBytes
  /\ bytes' = [bytes EXCEPT ![x] = @ + n]
  /\ UNCHANGED <<strict, state, tables, job, history, faults>>

\* The client leaves, times out, or the server restarts.
Disconnect(x) ==
  /\ state[x] = "on"
  /\ state' = [state EXCEPT ![x] = "off"]
  /\ UNCHANGED <<strict, bytes, tables, job, history, faults>>
-----------------------------------------------------------------------------
(* openvpn-refresh.pl *)

\* The job connects (if it cannot it logs that and exits) and gets the clients.
Poll ==
  LET on == {x \in Sessions : state[x] = "on"} IN
  /\ job.pc = "idle"
  /\ job' = [IdleJob EXCEPT !.pc = "record", !.list = on, !.todo = on, !.recv = bytes]
  /\ UNCHANGED <<strict, state, bytes, tables, history, faults>>

\* What column traffic, an int(11), holds after SET traffic = n: MySQL cuts n
\* off at the largest value or, in strict mode, fails the statement.
StoredTraffic(n, old) == IF n <= MaxInt THEN n ELSE IF strict THEN old ELSE MaxInt

\* Mutant of Record: the counters are added to the row.
RecordAdds(x) ==
  /\ job.pc = "record" /\ x \in job.todo
  /\ table' = [table EXCEPT ![x] = IF @ = NULL THEN 0 ELSE StoredTraffic(@ + job.recv[x], @)]
  /\ job' = [job EXCEPT !.todo = @ \ {x}]
  /\ UNCHANGED <<strict, state, bytes, archived, credit, history, faults>>

\* One client: INSERT a row with traffic 0, or UPDATE the one it has.  Only the
\* job writes this table, so the count before it is part of the step.
Record(x) ==
  /\ job.pc = "record" /\ x \in job.todo
  /\ table' = [table EXCEPT ![x] = IF @ = NULL THEN 0 ELSE StoredTraffic(job.recv[x], @)]
  /\ job' = [job EXCEPT !.todo = @ \ {x}]
  /\ UNCHANGED <<strict, state, bytes, archived, credit, history, faults>>

Rows == {x \in Sessions : table[x] # NULL}

\* SUM(traffic) ... GROUP BY username.
Used(u) == MapThenSumSet(LAMBDA x : table[x], {x \in Rows : UserOf[x] = u})

\* Mutant of Collect: no row is taken as finished when no client is connected.
CollectIfAny ==
  /\ job.pc = "record" /\ job.todo = {}
  /\ job' = [job EXCEPT !.pc = "kill", !.finished = IF job.list = {} THEN {} ELSE Rows \ job.list,
                        !.over = {u \in Users : credit[u] < Used(u)}]
  /\ UNCHANGED <<strict, state, bytes, tables, history, faults>>

\* SELECT the rows and keep those whose client is not in the list, then SELECT
\* the users of rows whose credit is below the sum of their traffic.
Collect ==
  /\ job.pc = "record" /\ job.todo = {}
  /\ job' = [job EXCEPT !.pc = "kill", !.finished = Rows \ job.list,
                        !.over = {u \in Users : (\E x \in Rows : UserOf[x] = u)
                                                  /\ credit[u] < Used(u)}]
  /\ UNCHANGED <<strict, state, bytes, tables, history, faults>>

\* Mutant of Kill: the name matches no client.
KillNobody(u) ==
  /\ job.pc = "kill" /\ u \in job.over
  /\ job' = [job EXCEPT !.over = @ \ {u}]
  /\ UNCHANGED <<strict, state, bytes, tables, history, faults>>

\* kill <common name>: the server drops every client of that name.
Kill(u) ==
  /\ job.pc = "kill" /\ u \in job.over
  /\ state' = [x \in Sessions |-> IF UserOf[x] = u /\ state[x] = "on" THEN "off" ELSE state[x]]
  /\ job' = [job EXCEPT !.over = @ \ {u}]
  /\ UNCHANGED <<strict, bytes, tables, history, faults>>

\* Mutant of Archive: the charge is skipped.
ArchiveOnly(x) ==
  /\ job.pc = "move" \/ (job.pc = "kill" /\ job.over = {})
  /\ x \in job.finished
  /\ archived' = [archived EXCEPT ![x] = @ + 1]
  /\ job' = [job EXCEPT !.pc = "delete", !.cur = x]
  /\ UNCHANGED <<strict, state, bytes, table, credit, history, faults>>

\* INSERT INTO connections: the first statement for a finished row.
Archive(x) ==
  /\ \/ job.pc = "kill" /\ job.over = {}
     \/ job.pc = "move"
  /\ x \in job.finished
  /\ archived' = [archived EXCEPT ![x] = @ + 1]
  /\ job' = [job EXCEPT !.pc = "charge", !.cur = x]
  /\ UNCHANGED <<strict, state, bytes, table, credit, history, faults>>

\* UPDATE login SET credit = credit - ?.  (The job remembers the traffic from
\* its SELECT; nobody changed the row since.)
Charge ==
  LET x == job.cur IN
  /\ job.pc = "charge"
  /\ credit' = [credit EXCEPT ![UserOf[x]] = @ - table[x]]
  /\ charges' = [charges EXCEPT ![x] = @ + 1]
  /\ charged' = [charged EXCEPT ![x] = @ + table[x]]
  /\ job' = [job EXCEPT !.pc = "delete"]
  /\ UNCHANGED <<strict, state, bytes, table, archived, unpaid, faults>>

\* The same statement fails (a lock wait timeout) and the job goes on.
ChargeFails ==
  /\ job.pc = "charge"
  /\ faults < MaxFaults
  /\ faults' = faults + 1
  /\ unpaid' = unpaid \cup {job.cur}
  /\ job' = [job EXCEPT !.pc = "delete"]
  /\ UNCHANGED <<strict, state, bytes, tables, charges, charged>>

\* Mutant of Delete: no row has the id.
DeleteMisses ==
  /\ job.pc = "delete"
  /\ job' = [job EXCEPT !.pc = "move", !.finished = @ \ {job.cur}]
  /\ UNCHANGED <<strict, state, bytes, tables, history, faults>>

\* DELETE FROM openvpn_connections.
Delete ==
  /\ job.pc = "delete"
  /\ table' = [table EXCEPT ![job.cur] = NULL]
  /\ job' = [job EXCEPT !.pc = "move", !.finished = @ \ {job.cur}]
  /\ UNCHANGED <<strict, state, bytes, archived, credit, history, faults>>

Done ==
  /\ \/ job.pc = "kill" /\ job.over = {}
     \/ job.pc = "move"
  /\ job.finished = {}
  /\ job' = IdleJob
  /\ UNCHANGED <<strict, state, bytes, tables, history, faults>>

\* The job dies between two statements.
JobDies ==
  /\ job.pc # "idle"
  /\ faults < MaxFaults
  /\ faults' = faults + 1
  /\ job' = IdleJob
  /\ UNCHANGED <<strict, state, bytes, tables, history>>
-----------------------------------------------------------------------------
Refresh == \/ Poll \/ Collect \/ Charge \/ Delete \/ Done
           \/ \E x \in Sessions : Record(x) \/ Archive(x)
           \/ \E u \in Users : Kill(u)

Next == \/ \E x \in Sessions : Login(x) \/ Disconnect(x)
        \/ \E x \in Sessions, n \in Packets : Carry(x, n)
        \/ Refresh \/ ChargeFails \/ JobDies

Spec == Init /\ [][Next]_vars

\* crond keeps starting the job and a job runs to its end; nothing makes a
\* client come, send or go.
FairSpec == Spec /\ WF_vars(Refresh)
-----------------------------------------------------------------------------
(* Properties. *)

\* Only sessions that are over have been charged, although the list the job
\* compares the rows with is old when it does so.
ChargedIsOver == \A x \in Sessions : charges[x] + archived[x] > 0 => state[x] = "off"

\* A session is charged, and put on record, once and at most once more for each
\* fault: the row is only deleted after both, so a dying job repeats them.
OncePerFault == \A x \in Sessions : charges[x] <= 1 + faults /\ archived[x] <= 1 + faults

\* Without faults a session never costs more than it carried, and its record in
\* connections and its charge come together.
NeverOvercharged ==
  faults = 0 => \A x \in Sessions :
    /\ charged[x] <= bytes[x]
    /\ archived[x] # charges[x] => job.pc = "charge" /\ job.cur = x

\* A session on record was charged, is about to be, or still has its row so
\* that the next job will do it, unless the statement itself failed.
RecordedIsCharged ==
  \A x \in Sessions : archived[x] > 0 =>
    charges[x] > 0 \/ table[x] # NULL \/ x \in unpaid

\* A session that has a row and is over is charged in the end, however many jobs
\* die, unless the statement itself failed.
GoneIsCharged ==
  \A x \in Sessions :
    (state[x] = "off" /\ table[x] # NULL) ~> (charges[x] > 0 \/ x \in unpaid)

\* openvpn-refresh.pl:95, "now lets find connections which have used up its
\* exceed": a session that carried more than its user's credit is dropped, as far
\* as the int(11) column lets the job see it.  A credit of MaxInt or more is never
\* below what one row can hold, and in strict mode a row stops following a session
\* whose traffic has outgrown the column.
OverdrawnIsCut ==
  \A x \in Sessions :
    LET Refused == strict /\ bytes[x] > MaxInt IN
    (/\ state[x] = "on" /\ bytes[x] > credit[UserOf[x]]
     /\ credit[UserOf[x]] < MaxInt /\ ~Refused) ~> (state[x] = "off" \/ Refused)
=============================================================================
