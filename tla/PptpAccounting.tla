--------------------------- MODULE PptpAccounting ---------------------------
(***************************************************************************)
(* What a PPTP session costs: pppd runs mysql-ip-up and mysql-ip-down      *)
(* through the plugin's pppd__ip_up and pppd__ip_down, and the cron job    *)
(* update_traffic.pl polls the interfaces, writes what it saw into table   *)
(* connections and kills sessions that carried too much.  The scripts and  *)
(* the cron job share connections and login.credit without a transaction;  *)
(* every statement is a step of its own.  Interface names are reused.      *)
(***************************************************************************)
EXTENDS Integers, FiniteSets

CONSTANTS Sessions,    \* pppd processes over time; a session's pid is itself
          Ifaces,      \* ppp0, ppp1, ...
          Users,       \* rows of table login
          Credit0,     \* login.credit at the start
          Half,        \* 2^31 bytes in the units of the model
          Limit,       \* 3 * 1024 * 1024 * 1024 bytes in the same units
          RxCounts,    \* bound: what a session's two byte counters may read after
          TxCounts,    \*        some traffic
          MaxFaults,   \* bound: pppd deaths, failing scripts, dying cron jobs
          NULL         \* connection_traffic of a row nobody wrote yet

ASSUME PptpConstants == /\ Sessions # {} /\ Ifaces # {} /\ Users # {}
                        /\ Credit0 \in Int
                        /\ Half \in Nat \ {0} /\ Limit \in Nat
                        /\ RxCounts \subseteq Nat /\ TxCounts \subseteq Nat
                        /\ MaxFaults \in Nat
                        /\ NULL \notin Int

VARIABLES
  link,      \* link[i]: the session on interface i and what its pppd is doing
  username,  \* username[s], iface[s]: whose session it is and where it runs
  iface,
  rx, tx,    \* what session s carried
  row,       \* row[s]: s's row of connections (open: end_time < start_time)
  traffic,   \* traffic[s]: column connection_traffic
  credit,    \* credit[u]: login.credit
  killed,    \* sessions whose pppd got a SIGTERM from the cron job
  cron,      \* the running update_traffic.pl
  charge,    \* history: what session s was charged, NULL if not (yet)
  cronEnded, \* history: rows the cron job closed while they were open
  faulty,    \* history: sessions whose pppd died or whose script failed
  faults

sessions == <<username, iface, rx, tx>>
tables   == <<row, traffic, credit>>
history  == <<charge, cronEnded, faulty>>
vars     == <<link, sessions, tables, killed, cron, history, faults>>

LinkStates == {"free", "close", "insert", "up", "down", "charge"}
CronStates == {"idle", "poll", "write", "limit", "credit"}

\* Placeholders for fields nothing reads before they are set.
AnySession == CHOOSE s \in Sessions : TRUE
AnyIface   == CHOOSE i \in Ifaces : TRUE
AnyUser    == CHOOSE u \in Users : TRUE

IdleCron == [pc |-> "idle", todo |-> {}, if |-> AnyIface, val |-> 0,
             ended |-> {}, victims |-> {}]

TypeOK ==
  /\ link \in [Ifaces -> [pc : LinkStates, s : Sessions]]
  /\ username \in [Sessions -> Users]
  /\ iface \in [Sessions -> Ifaces]
  /\ rx \in [Sessions -> Nat] /\ tx \in [Sessions -> Nat]
  /\ row \in [Sessions -> {"unborn", "none", "open", "closed"}]
  /\ traffic \in [Sessions -> Int \cup {NULL}]
  /\ credit \in [Users -> Int]
  /\ killed \in SUBSET Sessions
  /\ cron \in [pc : CronStates, todo : SUBSET Ifaces, if : Ifaces, val : Nat,
               ended : SUBSET Sessions, victims : SUBSET Sessions]
  /\ charge \in [Sessions -> Int \cup {NULL}]
  /\ cronEnded \in SUBSET Sessions
  /\ faulty \in SUBSET Sessions
  /\ faults \in 0..MaxFaults

Init ==
  /\ link = [i \in Ifaces |-> [pc |-> "free", s |-> AnySession]]
  /\ username = [s \in Sessions |-> AnyUser]
  /\ iface = [s \in Sessions |-> AnyIface]
  /\ rx = [s \in Sessions |-> 0] /\ tx = [s \in Sessions |-> 0]
  /\ row = [s \in Sessions |-> "unborn"]
  /\ traffic = [s \in Sessions |-> NULL]
  /\ credit = [u \in Users |-> Credit0]
  /\ killed = {}
  /\ cron = IdleCron
  /\ charge = [s \in Sessions |-> NULL]
  /\ cronEnded = {} /\ faulty = {}
  /\ faults = 0

Open(s) == row[s] = "open"
Live(i) == link[i].pc # "free"
-----------------------------------------------------------------------------
(* pppd and the two scripts *)

Goto(i, pc) == link' = [link EXCEPT ![i].pc = pc]

\* A client of user u got through authentication and IPCP on interface i: the
\* interface is up with fresh counters and mysql-ip-up is about to run.
LinkUp(i, s, u) ==
  /\ link[i].pc = "free" /\ row[s] = "unborn"
  /\ link' = [link EXCEPT ![i] = [pc |-> "close", s |-> s]]
  /\ username' = [username EXCEPT ![s] = u]
  /\ iface' = [iface EXCEPT ![s] = i]
  /\ row' = [row EXCEPT ![s] = "none"]
  /\ UNCHANGED <<rx, tx, traffic, credit, killed, cron, history, faults>>

\* Mutant of IpUpClose: no close of stale rows.
IpUpCloseForgotten(i) ==
  /\ link[i].pc = "close"
  /\ Goto(i, "insert")
  /\ UNCHANGED <<sessions, tables, killed, cron, history, faults>>

\* mysql-ip-up: close what is still open on this interface.
IpUpClose(i) ==
  /\ link[i].pc = "close"
  /\ row' = [x \in Sessions |-> IF iface[x] = i /\ Open(x) THEN "closed" ELSE row[x]]
  /\ Goto(i, "insert")
  /\ UNCHANGED <<sessions, traffic, credit, killed, cron, history, faults>>

\* mysql-ip-up: INSERT INTO connections with the pid of this pppd, and the log.
IpUpInsert(i) ==
  /\ link[i].pc = "insert"
  /\ row' = [row EXCEPT ![link[i].s] = "open"]
  /\ Goto(i, "up")
  /\ UNCHANGED <<sessions, traffic, credit, killed, cron, history, faults>>

\* The link carries something: the counter of one direction grows to n.
Traffic(i, n) ==
  LET s == link[i].s IN
  /\ link[i].pc \in {"close", "insert", "up"}
  /\ \/ n \in RxCounts /\ n > rx[s] /\ rx' = [rx EXCEPT ![s] = n] /\ UNCHANGED tx
     \/ n \in TxCounts /\ n > tx[s] /\ tx' = [tx EXCEPT ![s] = n] /\ UNCHANGED rx
  /\ UNCHANGED <<link, username, iface, tables, killed, cron, history, faults>>

\* IPCP goes down: the client hangs up, or pppd obeys a SIGTERM.
Hangup(i) ==
  /\ link[i].pc = "up"
  /\ Goto(i, "down")
  /\ UNCHANGED <<sessions, tables, killed, cron, history, faults>>

\* link_stats counts in 32 bits and pppd__ip_down prints the counters with
\* "%d": from 2^31 on the number is negative, from 2^32 on it starts over.
PrintedBytes(n) ==
  LET w == n % (2 * Half) IN IF w < Half THEN w ELSE w - 2 * Half

\* $send + $recv of mysql-ip-down.
ReportedTraffic(s) == PrintedBytes(rx[s]) + PrintedBytes(tx[s])

\* Mutant of IpDownClose: no charge when no row was open.
IpDownCloseOrQuit(i) ==
  LET s == link[i].s
      mine == {x \in Sessions : username[x] = username[s] /\ iface[x] = i /\ Open(x)} IN
  /\ link[i].pc = "down"
  /\ row' = [x \in Sessions |-> IF x \in mine THEN "closed" ELSE row[x]]
  /\ traffic' = [x \in Sessions |-> IF x \in mine THEN ReportedTraffic(s) ELSE traffic[x]]
  /\ Goto(i, IF mine = {} THEN "free" ELSE "charge")
  /\ UNCHANGED <<sessions, credit, killed, cron, history, faults>>

\* mysql-ip-down: close this user's open rows on the interface with the final
\* traffic.
IpDownClose(i) ==
  LET s == link[i].s
      mine == {x \in Sessions : username[x] = username[s] /\ iface[x] = i /\ Open(x)} IN
  /\ link[i].pc = "down"
  /\ row' = [x \in Sessions |-> IF x \in mine THEN "closed" ELSE row[x]]
  /\ traffic' = [x \in Sessions |-> IF x \in mine THEN ReportedTraffic(s) ELSE traffic[x]]
  /\ Goto(i, "charge")
  /\ UNCHANGED <<sessions, credit, killed, cron, history, faults>>

\* mysql-ip-down: UPDATE login SET credit = credit - ?, and the log.  pppd then
\* removes the interface.
IpDownCharge(i) ==
  LET s == link[i].s IN
  /\ link[i].pc = "charge"
  /\ credit' = [credit EXCEPT ![username[s]] = @ - ReportedTraffic(s)]
  /\ charge' = [charge EXCEPT ![s] = ReportedTraffic(s)]
  /\ Goto(i, "free")
  /\ UNCHANGED <<sessions, row, traffic, killed, cron, cronEnded, faulty, faults>>

\* A script cannot reach the database (or pppd cannot start it): ip-up leaves
\* no row behind, ip-down charges nothing.  pppd carries on, or dies at once
\* where the option mysql-ip-up-fail or mysql-ip-down-fail is set.
ScriptFails(i) ==
  /\ faults < MaxFaults
  /\ \/ link[i].pc \in {"close", "insert"} /\ \E k \in {"up", "free"} : Goto(i, k)
     \/ link[i].pc \in {"down", "charge"} /\ Goto(i, "free")
  /\ faults' = faults + 1
  /\ faulty' = faulty \cup {link[i].s}
  /\ UNCHANGED <<sessions, tables, killed, cron, charge, cronEnded>>

\* pppd dies without running mysql-ip-down (SIGKILL, reboot).  A script that is
\* running at that moment is taken to end with it.
PppdDies(i) ==
  /\ link[i].pc # "free"
  /\ faults < MaxFaults
  /\ faults' = faults + 1
  /\ faulty' = faulty \cup {link[i].s}
  /\ Goto(i, "free")
  /\ UNCHANGED <<sessions, tables, killed, cron, charge, cronEnded>>
-----------------------------------------------------------------------------
(* update_traffic.pl *)

\* ifconfig lists the interfaces that are up.
CronStart ==
  /\ cron.pc = "idle"
  /\ cron' = [IdleCron EXCEPT !.pc = "poll", !.todo = {i \in Ifaces : Live(i)}]
  /\ UNCHANGED <<link, sessions, tables, killed, history, faults>>

\* ifconfig pppN: the counters of whatever session has the interface by now.
CronRead(i) ==
  /\ cron.pc = "poll" /\ i \in cron.todo
  /\ cron' = IF Live(i)
             THEN [cron EXCEPT !.pc = "write", !.if = i,
                               !.val = rx[link[i].s] + tx[link[i].s]]
             ELSE [cron EXCEPT !.todo = @ \ {i}]
  /\ UNCHANGED <<link, sessions, tables, killed, history, faults>>

\* Mutant of CronWrite: the rows of every interface are written.
CronWriteEveryRow ==
  /\ cron.pc = "write"
  /\ traffic' = [x \in Sessions |-> IF Open(x) THEN cron.val ELSE traffic[x]]
  /\ cron' = [cron EXCEPT !.pc = "poll", !.todo = @ \ {cron.if}, !.if = AnyIface, !.val = 0]
  /\ UNCHANGED <<link, sessions, row, credit, killed, history, faults>>

\* UPDATE connections SET connection_traffic = ? for the interface's open rows.
CronWrite ==
  /\ cron.pc = "write"
  /\ traffic' = [x \in Sessions |-> IF iface[x] = cron.if /\ Open(x)
                                    THEN cron.val ELSE traffic[x]]
  /\ cron' = [cron EXCEPT !.pc = "poll", !.todo = @ \ {cron.if}, !.if = AnyIface, !.val = 0]
  /\ UNCHANGED <<link, sessions, row, credit, killed, history, faults>>

\* SELECT the open rows above the limit.
CronSelectLimit ==
  LET big == {x \in Sessions : Open(x) /\ traffic[x] # NULL /\ traffic[x] > Limit} IN
  /\ cron.pc = "poll" /\ cron.todo = {}
  /\ cron' = [cron EXCEPT !.pc = "limit", !.ended = big, !.victims = big]
  /\ UNCHANGED <<link, sessions, tables, killed, history, faults>>

\* One kill of the loop over the selected rows: SIGTERM reaches the pppd that the
\* row names, if it is still there.
CronKill(x) ==
  /\ x \in cron.victims
  /\ killed' = IF \E i \in Ifaces : Live(i) /\ link[i].s = x THEN killed \cup {x} ELSE killed
  /\ cron' = [cron EXCEPT !.victims = @ \ {x}]
  /\ UNCHANGED <<link, sessions, tables, history, faults>>

\* Mutant of Overdrawn: the comparison the other way round.
Underdrawn(x) == Open(x) /\ traffic[x] # NULL /\ traffic[x] < credit[username[x]]

\* An open row that alone exceeds its user's credit.
Overdrawn(x) == Open(x) /\ traffic[x] # NULL /\ traffic[x] > credit[username[x]]

\* SELECT the overdrawn rows, once the first loop has killed its own.
CronSelectCredit ==
  LET over == {x \in Sessions : Overdrawn(x)} IN
  /\ cron.pc = "limit" /\ cron.victims = {}
  /\ cron' = [cron EXCEPT !.pc = "credit", !.ended = @ \cup over, !.victims = over]
  /\ UNCHANGED <<link, sessions, tables, killed, history, faults>>

\* UPDATE connections SET end_time = now() for one of the selected rows.
CronClose(s) ==
  /\ cron.pc = "credit" /\ cron.victims = {} /\ s \in cron.ended
  /\ row' = [row EXCEPT ![s] = "closed"]
  /\ cronEnded' = IF Open(s) THEN cronEnded \cup {s} ELSE cronEnded
  /\ cron' = [cron EXCEPT !.ended = @ \ {s}]
  /\ UNCHANGED <<link, sessions, traffic, credit, killed, charge, faulty, faults>>

\* The log entry; the job ends.
CronEnd ==
  /\ cron.pc = "credit" /\ cron.victims = {} /\ cron.ended = {}
  /\ cron' = IdleCron
  /\ UNCHANGED <<link, sessions, tables, killed, history, faults>>

\* The job dies between two of its steps.
CronDies ==
  /\ cron.pc # "idle"
  /\ faults < MaxFaults
  /\ faults' = faults + 1
  /\ cron' = IdleCron
  /\ UNCHANGED <<link, sessions, tables, killed, history>>
-----------------------------------------------------------------------------
Script(i) == IpUpClose(i) \/ IpUpInsert(i) \/ IpDownClose(i) \/ IpDownCharge(i)
Cron == \/ CronStart \/ CronWrite \/ CronSelectLimit \/ CronSelectCredit \/ CronEnd
        \/ \E i \in Ifaces : CronRead(i)
        \/ \E s \in Sessions : CronKill(s) \/ CronClose(s)

Next ==
  \/ \E i \in Ifaces, s \in Sessions, u \in Users : LinkUp(i, s, u)
  \/ \E i \in Ifaces : Script(i) \/ Hangup(i) \/ ScriptFails(i) \/ PppdDies(i)
  \/ \E i \in Ifaces, n \in RxCounts \cup TxCounts : Traffic(i, n)
  \/ Cron \/ CronDies

Spec == Init /\ [][Next]_vars

\* pppd waits for its scripts and obeys a SIGTERM; crond keeps starting the job,
\* which runs to its end.  Nothing makes a client connect, send or hang up.
Fairness ==
  /\ WF_vars(Cron)
  /\ \A i \in Ifaces : /\ WF_vars(Script(i))
                       /\ WF_vars(link[i].s \in killed /\ Hangup(i))

FairSpec == Spec /\ Fairness
-----------------------------------------------------------------------------
(* Properties. *)

\* An interface has at most one open row, whatever became of earlier sessions
\* on it: update_traffic.pl, which only knows interface names, never writes one
\* session's counters into two rows.
OneOpenRowPerInterface ==
  \A x, y \in Sessions : (Open(x) /\ Open(y) /\ iface[x] = iface[y]) => x = y

\* Once mysql-ip-up has run, an open row on the interface is the one of the
\* session that has it.
OpenRowIsLinks ==
  \A i \in Ifaces, x \in Sessions :
    (link[i].pc \in {"up", "down"} /\ link[i].s \notin faulty /\ Open(x) /\ iface[x] = i)
      => x = link[i].s

\* A session that is over was charged, unless its pppd died or a script failed:
\* in particular a row the cron job closed early does not escape.
EndedIsCharged ==
  \A s \in Sessions :
    (row[s] # "unborn" /\ \A i \in Ifaces : Live(i) => link[i].s # s) =>
      charge[s] # NULL \/ s \in faulty

\* What the statistics show for a charged session (connections) is what it was
\* charged (login), unless the cron job closed the row before mysql-ip-down.
RecordedIsCharged ==
  \A s \in Sessions :
    (charge[s] # NULL /\ s \notin faulty) => traffic[s] = charge[s] \/ s \in cronEnded

\* update_traffic.pl reads the counters of an interface and writes them later to
\* whichever row is open on that name.  A session it selects, to kill its pppd
\* and to close its row, is selected for what this session or an earlier one on
\* the same interface carried, and never for the traffic of another interface.
CutForItsInterface ==
  [][\A s \in cron'.ended \ cron.ended :
       \E x \in Sessions :
         /\ row[x] # "unborn" /\ iface[x] = iface[s]
         /\ rx[x] + tx[x] > Limit \/ rx[x] + tx[x] > credit[username[s]]]_vars

\* Session s carried more than the limit, or more than its user's credit.
TooMuch(s) == rx[s] + tx[s] > Limit \/ rx[s] + tx[s] > credit[username[s]]

\* A session that carried more than its user's credit, or more than the limit, is
\* eventually over and charged, unless its pppd or its scripts failed or the
\* credit has come to cover it after all (a direction of 2^31 bytes or more is
\* charged as a negative number, so the end of another session can raise the
\* credit); a cron job that dies half-way is made up for by the next.
OverdrawnIsCut ==
  \A s \in Sessions :
    ((\E i \in Ifaces : link[i] = [pc |-> "up", s |-> s]) /\ TooMuch(s))
      ~> (charge[s] # NULL \/ s \in faulty \/ ~TooMuch(s))

=============================================================================
