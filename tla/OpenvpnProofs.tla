---------------------------- MODULE OpenvpnProofs ----------------------------
(***************************************************************************)
(* Proofs about OpenvpnAccounting, for any sessions, users, column width,  *)
(* sql_mode and number of faults.                                          *)
(***************************************************************************)
EXTENDS OpenvpnAccounting, TLAPS

JobType == [pc : JobStates, list : SUBSET Sessions, recv : [Sessions -> Nat],
            todo : SUBSET Sessions, over : SUBSET Users,
            finished : SUBSET Sessions, cur : Sessions]

HasRow(x) == table[x] # NULL

\* The job moves x and has not yet charged it, or has not yet deleted its row.
Charging(x) == job.pc = "charge" /\ job.cur = x
Deleting(x) == job.pc = "delete" /\ job.cur = x

\* The list stays good enough to compare the rows with: a row that is not in it
\* belongs to a session that is over, and a listed session has not been charged.
ListInv ==
  /\ job.todo \subseteq job.list
  /\ job.pc = "record" =>
       /\ job.finished = {}
       /\ \A x \in Sessions : HasRow(x) => x \in job.list \/ state[x] = "off"
       /\ \A x \in job.list : archived[x] = 0 /\ charges[x] = 0
  /\ \A x \in job.list : state[x] # "new"
  /\ \A x \in Sessions : HasRow(x) => state[x] # "new"

\* The rows to move exist and their sessions are over.
FinishedInv ==
  /\ \A x \in job.finished : HasRow(x) /\ state[x] = "off"
  /\ job.pc \in {"charge", "delete"} => job.cur \in job.finished
  /\ job.pc = "delete" => charges[job.cur] > 0 \/ job.cur \in unpaid

\* Nothing stored exceeds what was carried.
BytesInv ==
  \A x \in Sessions : /\ job.recv[x] <= bytes[x]
                      /\ HasRow(x) => table[x] <= bytes[x]

\* A session with a row that this job has not dealt with yet owes its earlier
\* charges and records to faults.
FaultInv ==
  \A x \in Sessions : HasRow(x) =>
    /\ charges[x] <= faults \/ Deleting(x)
    /\ archived[x] <= faults \/ Charging(x) \/ Deleting(x)

\* As long as there was no fault.
CleanInv ==
  faults = 0 => \A x \in Sessions :
    /\ charges[x] = 0 => charged[x] = 0
    /\ charged[x] <= bytes[x]
    /\ Charging(x) => archived[x] = charges[x] + 1
    /\ ~Charging(x) => archived[x] = charges[x]

Inv == /\ ListInv /\ FinishedInv /\ BytesInv /\ FaultInv /\ CleanInv
       /\ ChargedIsOver /\ OncePerFault /\ RecordedIsCharged

\* The inductive invariant.
IInv == TypeOK /\ Inv

LEMMA IdleType == IdleJob \in JobType
<1>1. AnySession \in Sessions
  BY OpenvpnConstants DEF AnySession
<1> QED
  BY <1>1 DEF IdleJob, JobType, JobStates

LEMMA TypeInitial == Init => TypeOK
<1> SUFFICES ASSUME Init PROVE TypeOK
  OBVIOUS
<1>1. credit \in [Users -> Int]
  <2>1. credit \in [Users -> Credits] /\ Credits \subseteq Int
    BY OpenvpnConstants DEF Init
  <2> QED
    BY <2>1
<1>2. strict \in BOOLEAN
  BY DEF Init
<1> QED
  BY <1>1, <1>2, IdleType, OpenvpnConstants DEF Init, TypeOK, JobType

\* Every step keeps the types; Charge needs that the row it charges exists.
LEMMA TypeInductive == IInv /\ [Next]_vars => TypeOK'
<1> SUFFICES ASSUME IInv, [Next]_vars PROVE TypeOK'
  OBVIOUS
<1> USE DEF tables, history
<1>t. TypeOK /\ FinishedInv /\ job \in JobType
  BY DEF IInv, Inv, TypeOK, JobType
<1>f. faults \in 0..MaxFaults /\ MaxFaults \in Nat
  BY <1>t, OpenvpnConstants DEF TypeOK
<1>1. ASSUME NEW x \in Sessions, Login(x) \/ Disconnect(x) PROVE TypeOK'
  BY <1>1, <1>t DEF Login, Disconnect, TypeOK
<1>2. ASSUME NEW x \in Sessions, NEW n \in Packets, Carry(x, n) PROVE TypeOK'
  <2>1. n \in Nat
    BY OpenvpnConstants
  <2> QED
    BY <1>2, <1>t, <2>1 DEF Carry, TypeOK
<1>3. ASSUME Poll PROVE TypeOK'
  <2>1. job' \in JobType
    BY <1>3, <1>t, IdleType DEF Poll, TypeOK, JobType, JobStates
  <2> QED
    BY <1>3, <1>t, <2>1 DEF Poll, TypeOK, JobType
<1>4. ASSUME NEW x \in Sessions, Record(x) PROVE TypeOK'
  <2>1. job' \in JobType
    BY <1>4, <1>t DEF Record, JobType, JobStates
  <2>2. table' \in [Sessions -> Nat \cup {NULL}]
    <3>1. ASSUME NEW m \in Nat, NEW old \in Nat PROVE StoredTraffic(m, old) \in Nat
      BY OpenvpnConstants DEF StoredTraffic
    <3>2. job.recv[x] \in Nat /\ table \in [Sessions -> Nat \cup {NULL}]
      BY <1>t DEF JobType, TypeOK
    <3>3. table' = [table EXCEPT ![x] = IF table[x] = NULL THEN 0
                                        ELSE StoredTraffic(job.recv[x], table[x])]
      BY <1>4 DEF Record
    <3> QED
      BY <3>1, <3>2, <3>3
  <2> QED
    BY <1>4, <1>t, <2>1, <2>2 DEF Record, TypeOK, JobType
<1>5. ASSUME Collect PROVE TypeOK'
  <2>1. job' \in JobType
    BY <1>5, <1>t DEF Collect, JobType, JobStates, Rows
  <2> QED
    BY <1>5, <1>t, <2>1 DEF Collect, TypeOK, JobType
<1>6. ASSUME NEW u \in Users, Kill(u) PROVE TypeOK'
  <2>1. job' \in JobType
    BY <1>6, <1>t DEF Kill, JobType
  <2> QED
    BY <1>6, <1>t, <2>1 DEF Kill, TypeOK, JobType
<1>7. ASSUME NEW x \in Sessions, Archive(x) PROVE TypeOK'
  <2>1. job' \in JobType
    BY <1>7, <1>t DEF Archive, JobType, JobStates
  <2> QED
    BY <1>7, <1>t, <2>1 DEF Archive, TypeOK, JobType
<1>8. ASSUME Charge PROVE TypeOK'
  <2>1. job' \in JobType
    BY <1>8, <1>t DEF Charge, JobType, JobStates
  <2>2. job.cur \in Sessions /\ table[job.cur] \in Nat /\ UserOf[job.cur] \in Users
    BY <1>8, <1>t, OpenvpnConstants DEF Charge, FinishedInv, HasRow, TypeOK, JobType
  <2>3. /\ credit' \in [Users -> Int] /\ charges' \in [Sessions -> Nat]
        /\ charged' \in [Sessions -> Nat]
    BY <1>8, <1>t, <2>2 DEF Charge, TypeOK
  <2> QED
    BY <1>8, <1>t, <2>1, <2>3 DEF Charge, TypeOK, JobType
<1>9. ASSUME ChargeFails \/ JobDies PROVE TypeOK'
  <2>1. job' \in JobType
    BY <1>9, <1>t, IdleType DEF ChargeFails, JobDies, JobType, JobStates
  <2>2. faults' \in 0..MaxFaults
    BY <1>9, <1>f DEF ChargeFails, JobDies
  <2>3. unpaid' \in SUBSET Sessions
    BY <1>9, <1>t DEF ChargeFails, JobDies, TypeOK, JobType
  <2> QED
    BY <1>9, <1>t, <2>1, <2>2, <2>3 DEF ChargeFails, JobDies, TypeOK, JobType
<1>10. ASSUME Delete PROVE TypeOK'
  <2>1. job' \in JobType
    BY <1>10, <1>t DEF Delete, JobType, JobStates
  <2> QED
    BY <1>10, <1>t, <2>1 DEF Delete, TypeOK, JobType
<1>11. ASSUME Done PROVE TypeOK'
  BY <1>11, <1>t, IdleType DEF Done, TypeOK, JobType
<1>12. CASE UNCHANGED vars
  BY <1>12, <1>t DEF vars, TypeOK
<1> QED
  BY <1>1, <1>2, <1>3, <1>4, <1>5, <1>6, <1>7, <1>8, <1>9, <1>10, <1>11, <1>12
     DEF Next, Refresh

LEMMA InvInitial == Init => Inv
BY OpenvpnConstants
   DEF Init, Inv, ListInv, FinishedInv, BytesInv, FaultInv, CleanInv, ChargedIsOver,
       OncePerFault, RecordedIsCharged, IdleJob, HasRow, Charging, Deleting

\* Every step keeps the invariant.
LEMMA InvInductive == IInv /\ [Next]_vars => Inv'
<1> SUFFICES ASSUME IInv, [Next]_vars PROVE Inv'
  OBVIOUS
<1> USE DEF tables, history, HasRow, Charging, Deleting
<1>t. /\ ListInv /\ FinishedInv /\ BytesInv /\ FaultInv /\ CleanInv
      /\ ChargedIsOver /\ OncePerFault /\ RecordedIsCharged
      /\ state \in [Sessions -> {"new", "on", "off"}]
      /\ bytes \in [Sessions -> Nat] /\ table \in [Sessions -> Nat \cup {NULL}]
      /\ archived \in [Sessions -> Nat] /\ charges \in [Sessions -> Nat]
      /\ charged \in [Sessions -> Nat] /\ unpaid \in SUBSET Sessions
      /\ faults \in Nat /\ job \in JobType
      /\ Packets \subseteq Nat /\ MaxInt \in Nat /\ NULL \notin Nat
      /\ job.recv \in [Sessions -> Nat] /\ job.list \subseteq Sessions
      /\ job.finished \subseteq Sessions /\ job.cur \in Sessions
      /\ job.todo \subseteq Sessions
  BY OpenvpnConstants DEF IInv, Inv, TypeOK, JobType
<1>1. ASSUME NEW x \in Sessions, Login(x) PROVE Inv'
  <2>1. ListInv'
    BY <1>1, <1>t DEF Login, ListInv, ChargedIsOver
  <2>2. FinishedInv'
    BY <1>1, <1>t DEF Login, FinishedInv, ListInv
  <2>3. ChargedIsOver'
    BY <1>1, <1>t DEF Login, ChargedIsOver, FinishedInv
  <2>4. BytesInv' /\ FaultInv' /\ CleanInv' /\ OncePerFault' /\ RecordedIsCharged'
    BY <1>1, <1>t DEF Login, BytesInv, FaultInv, CleanInv, OncePerFault, RecordedIsCharged
  <2> QED
    BY <2>1, <2>2, <2>3, <2>4 DEF Inv
<1>2. ASSUME NEW x \in Sessions, Disconnect(x) PROVE Inv'
  <2>1. ListInv'
    BY <1>2, <1>t DEF Disconnect, ListInv, ChargedIsOver
  <2>2. FinishedInv'
    BY <1>2, <1>t DEF Disconnect, FinishedInv, ListInv
  <2>3. ChargedIsOver'
    BY <1>2, <1>t DEF Disconnect, ChargedIsOver, FinishedInv
  <2>4. BytesInv' /\ FaultInv' /\ CleanInv' /\ OncePerFault' /\ RecordedIsCharged'
    BY <1>2, <1>t DEF Disconnect, BytesInv, FaultInv, CleanInv, OncePerFault, RecordedIsCharged
  <2> QED
    BY <2>1, <2>2, <2>3, <2>4 DEF Inv
<1>3. ASSUME NEW x \in Sessions, NEW n \in Packets, Carry(x, n) PROVE Inv'
  <2>1. BytesInv'
    BY <1>3, <1>t DEF Carry, BytesInv
  <2>2. CleanInv'
    BY <1>3, <1>t DEF Carry, CleanInv, BytesInv, FaultInv, FinishedInv
  <2>3. ListInv' /\ FinishedInv' /\ FaultInv' /\ ChargedIsOver' /\ OncePerFault' /\ RecordedIsCharged'
    BY <1>3, <1>t DEF Carry, ListInv, FinishedInv, FaultInv, ChargedIsOver, OncePerFault, RecordedIsCharged
  <2> QED
    BY <2>1, <2>2, <2>3 DEF Inv
\* A session that is on has not been charged: the new list is good.
<1>4. ASSUME Poll PROVE Inv'
  <2>j. /\ job'.pc = "record" /\ job'.list = {x \in Sessions : state[x] = "on"}
        /\ job'.todo = {x \in Sessions : state[x] = "on"} /\ job'.recv = bytes
        /\ job'.finished = {}
    <3>1. IdleJob.finished = {}
      BY DEF IdleJob
    <3> QED
      BY <1>4, <1>t, <3>1, IdleType DEF Poll, JobType
  <2>1. ListInv'
    <3>1. \A x \in Sessions : state[x] = "on" => archived[x] = 0 /\ charges[x] = 0
      BY <1>t DEF ChargedIsOver
    <3> QED
      BY <1>4, <1>t, <2>j, <3>1 DEF Poll, ListInv
  <2>2. FinishedInv'
    BY <1>4, <1>t, <2>j DEF Poll, FinishedInv, ListInv
  <2>3. BytesInv'
    BY <1>4, <1>t, <2>j DEF Poll, BytesInv
  <2>4. FaultInv'
    BY <1>4, <1>t, <2>j DEF Poll, FaultInv, FinishedInv, ListInv
  <2>5. CleanInv'
    BY <1>4, <1>t, <2>j DEF Poll, CleanInv, BytesInv, FaultInv, FinishedInv
  <2>6. ChargedIsOver' /\ OncePerFault' /\ RecordedIsCharged'
    BY <1>4, <1>t DEF Poll, ChargedIsOver, OncePerFault, RecordedIsCharged
  <2> QED
    BY <2>1, <2>2, <2>3, <2>4, <2>5, <2>6 DEF Inv
\* The new row is one of a listed session.
<1>5. ASSUME NEW x \in Sessions, Record(x) PROVE Inv'
  <2>j. /\ job'.todo = job.todo \ {x} /\ job'.pc = job.pc
        /\ job'.list = job.list /\ job'.recv = job.recv
        /\ job'.finished = job.finished /\ job'.cur = job.cur
    BY <1>5, <1>t, IdleType DEF Record, JobType
  <2>1. ListInv'
    BY <1>5, <1>t, <2>j DEF Record, ListInv, ChargedIsOver
  <2>2. FinishedInv'
    BY <1>5, <1>t, <2>j DEF Record, FinishedInv, ListInv
  <2>3. BytesInv'
    BY <1>5, <1>t, <2>j DEF Record, BytesInv, StoredTraffic
  <2>4. FaultInv'
    BY <1>5, <1>t, <2>j DEF Record, FaultInv, FinishedInv, ListInv
  <2>5. CleanInv'
    BY <1>5, <1>t, <2>j DEF Record, CleanInv, BytesInv, FaultInv, FinishedInv
  <2>6. RecordedIsCharged'
    BY <1>5, <1>t, <2>j DEF Record, RecordedIsCharged, FinishedInv, ListInv
  <2>7. ChargedIsOver' /\ OncePerFault'
    BY <1>5, <1>t DEF Record, ChargedIsOver, OncePerFault
  <2> QED
    BY <2>1, <2>2, <2>3, <2>4, <2>5, <2>6, <2>7 DEF Inv
\* Rows that are not listed belong to sessions that are over.
<1>6. ASSUME Collect PROVE Inv'
  <2>j. /\ job'.pc = "kill" /\ job'.finished = Rows \ job.list
        /\ job'.list = job.list /\ job'.recv = job.recv
        /\ job'.todo = job.todo /\ job'.cur = job.cur
    BY <1>6, <1>t, IdleType DEF Collect, JobType
  <2>1. ListInv'
    BY <1>6, <1>t, <2>j DEF Collect, ListInv, ChargedIsOver, Rows
  <2>2. FinishedInv'
    BY <1>6, <1>t, <2>j DEF Collect, FinishedInv, ListInv, Rows
  <2>3. BytesInv'
    BY <1>6, <1>t, <2>j DEF Collect, BytesInv, Rows
  <2>4. FaultInv'
    BY <1>6, <1>t, <2>j DEF Collect, FaultInv, FinishedInv, ListInv, Rows
  <2>5. CleanInv'
    BY <1>6, <1>t, <2>j DEF Collect, CleanInv, BytesInv, FaultInv, FinishedInv, Rows
  <2>6. ChargedIsOver' /\ OncePerFault' /\ RecordedIsCharged'
    BY <1>6, <1>t DEF Collect, ChargedIsOver, OncePerFault, RecordedIsCharged
  <2> QED
    BY <2>1, <2>2, <2>3, <2>4, <2>5, <2>6 DEF Inv
<1>7. ASSUME NEW u \in Users, Kill(u) PROVE Inv'
  <2>j. /\ job'.pc = job.pc /\ job'.list = job.list
        /\ job'.recv = job.recv /\ job'.todo = job.todo
        /\ job'.finished = job.finished /\ job'.cur = job.cur
    BY <1>7, <1>t, IdleType DEF Kill, JobType
  <2>1. ListInv'
    BY <1>7, <1>t, <2>j DEF Kill, ListInv, ChargedIsOver
  <2>2. FinishedInv'
    BY <1>7, <1>t, <2>j DEF Kill, FinishedInv, ListInv
  <2>3. BytesInv'
    BY <1>7, <1>t, <2>j DEF Kill, BytesInv
  <2>4. FaultInv'
    BY <1>7, <1>t, <2>j DEF Kill, FaultInv, FinishedInv, ListInv
  <2>5. CleanInv'
    BY <1>7, <1>t, <2>j DEF Kill, CleanInv, BytesInv, FaultInv, FinishedInv
  <2>6. ChargedIsOver'
    BY <1>7, <1>t, <2>j DEF Kill, ChargedIsOver, FinishedInv
  <2>7. OncePerFault' /\ RecordedIsCharged'
    BY <1>7, <1>t DEF Kill, OncePerFault, RecordedIsCharged
  <2> QED
    BY <2>1, <2>2, <2>3, <2>4, <2>5, <2>6, <2>7 DEF Inv
\* No other row is being moved, so all earlier records are owed to faults.
<1>8. ASSUME NEW x \in Sessions, Archive(x) PROVE Inv'
  <2>j. /\ job'.pc = "charge" /\ job'.cur = x
        /\ job'.list = job.list /\ job'.recv = job.recv
        /\ job'.todo = job.todo /\ job'.finished = job.finished
    BY <1>8, <1>t, IdleType DEF Archive, JobType
  <2>1. ListInv'
    BY <1>8, <1>t, <2>j DEF Archive, ListInv, ChargedIsOver
  <2>2. FinishedInv'
    BY <1>8, <1>t, <2>j DEF Archive, FinishedInv, ListInv
  <2>3. BytesInv'
    BY <1>8, <1>t, <2>j DEF Archive, BytesInv
  <2>4. FaultInv'
    BY <1>8, <1>t, <2>j DEF Archive, FaultInv, FinishedInv, ListInv
  <2>5. CleanInv'
    BY <1>8, <1>t, <2>j DEF Archive, CleanInv, BytesInv, FaultInv, FinishedInv
  <2>6. ChargedIsOver'
    BY <1>8, <1>t, <2>j DEF Archive, ChargedIsOver, FinishedInv
  <2>7. OncePerFault'
    BY <1>8, <1>t, <2>j DEF Archive, OncePerFault, FaultInv, FinishedInv
  <2>8. RecordedIsCharged'
    BY <1>8, <1>t, <2>j DEF Archive, RecordedIsCharged, FinishedInv
  <2> QED
    BY <2>1, <2>2, <2>3, <2>4, <2>5, <2>6, <2>7, <2>8 DEF Inv
\* Likewise for the charges; the row is no larger than what was carried.
<1>9. ASSUME Charge PROVE Inv'
  <2>j. /\ job'.pc = "delete" /\ job'.list = job.list
        /\ job'.recv = job.recv /\ job'.todo = job.todo
        /\ job'.finished = job.finished /\ job'.cur = job.cur
    BY <1>9, <1>t, IdleType DEF Charge, JobType
  <2>1. ListInv'
    BY <1>9, <1>t, <2>j DEF Charge, ListInv, ChargedIsOver
  <2>2. FinishedInv'
    BY <1>9, <1>t, <2>j DEF Charge, FinishedInv, ListInv
  <2>3. BytesInv'
    BY <1>9, <1>t, <2>j DEF Charge, BytesInv
  <2>4. FaultInv'
    BY <1>9, <1>t, <2>j DEF Charge, FaultInv, FinishedInv, ListInv
  <2>5. CleanInv'
    BY <1>9, <1>t, <2>j DEF Charge, CleanInv, BytesInv, FaultInv, FinishedInv
  <2>6. ChargedIsOver'
    BY <1>9, <1>t, <2>j DEF Charge, ChargedIsOver, FinishedInv
  <2>7. OncePerFault'
    BY <1>9, <1>t, <2>j DEF Charge, OncePerFault, FaultInv, FinishedInv
  <2>8. RecordedIsCharged'
    BY <1>9, <1>t, <2>j DEF Charge, RecordedIsCharged, FinishedInv
  <2> QED
    BY <2>1, <2>2, <2>3, <2>4, <2>5, <2>6, <2>7, <2>8 DEF Inv
<1>10. ASSUME ChargeFails PROVE Inv'
  <2>j. /\ job'.pc = "delete" /\ job'.list = job.list
        /\ job'.recv = job.recv /\ job'.todo = job.todo
        /\ job'.finished = job.finished /\ job'.cur = job.cur
    BY <1>10, <1>t, IdleType DEF ChargeFails, JobType
  <2>1. ListInv'
    BY <1>10, <1>t, <2>j DEF ChargeFails, ListInv, ChargedIsOver
  <2>2. FinishedInv'
    BY <1>10, <1>t, <2>j DEF ChargeFails, FinishedInv, ListInv
  <2>3. BytesInv'
    BY <1>10, <1>t, <2>j DEF ChargeFails, BytesInv
  <2>4. FaultInv'
    BY <1>10, <1>t, <2>j DEF ChargeFails, FaultInv, FinishedInv, ListInv
  <2>5. CleanInv'
    BY <1>10, <1>t, <2>j DEF ChargeFails, CleanInv, BytesInv, FaultInv, FinishedInv
  <2>6. OncePerFault'
    BY <1>10, <1>t, <2>j DEF ChargeFails, OncePerFault, FaultInv, FinishedInv
  <2>7. RecordedIsCharged'
    BY <1>10, <1>t, <2>j DEF ChargeFails, RecordedIsCharged, FinishedInv
  <2>8. ChargedIsOver'
    BY <1>10, <1>t DEF ChargeFails, ChargedIsOver
  <2> QED
    BY <2>1, <2>2, <2>3, <2>4, <2>5, <2>6, <2>7, <2>8 DEF Inv
<1>11. ASSUME Delete PROVE Inv'
  <2>j. /\ job'.pc = "move" /\ job'.finished = job.finished \ {job.cur}
        /\ job'.list = job.list /\ job'.recv = job.recv
        /\ job'.todo = job.todo /\ job'.cur = job.cur
    BY <1>11, <1>t, IdleType DEF Delete, JobType
  <2>1. ListInv'
    BY <1>11, <1>t, <2>j DEF Delete, ListInv, ChargedIsOver
  <2>2. FinishedInv'
    BY <1>11, <1>t, <2>j DEF Delete, FinishedInv, ListInv
  <2>3. BytesInv'
    BY <1>11, <1>t, <2>j DEF Delete, BytesInv
  <2>4. FaultInv'
    BY <1>11, <1>t, <2>j DEF Delete, FaultInv, FinishedInv, ListInv
  <2>5. CleanInv'
    BY <1>11, <1>t, <2>j DEF Delete, CleanInv, BytesInv, FaultInv, FinishedInv
  <2>6. RecordedIsCharged'
    BY <1>11, <1>t, <2>j DEF Delete, RecordedIsCharged, FinishedInv
  <2>7. ChargedIsOver' /\ OncePerFault'
    BY <1>11, <1>t DEF Delete, ChargedIsOver, OncePerFault
  <2> QED
    BY <2>1, <2>2, <2>3, <2>4, <2>5, <2>6, <2>7 DEF Inv
<1>12. ASSUME Done PROVE Inv'
  <2>j. /\ job'.pc = "idle" /\ job'.list = {} /\ job'.todo = {} /\ job'.finished = {}
        /\ job'.recv = [x \in Sessions |-> 0]
    BY <1>12 DEF Done, IdleJob
  <2>1. ListInv'
    BY <1>12, <1>t, <2>j DEF Done, ListInv, ChargedIsOver
  <2>2. FinishedInv'
    BY <1>12, <1>t, <2>j DEF Done, FinishedInv, ListInv
  <2>3. BytesInv'
    BY <1>12, <1>t, <2>j DEF Done, BytesInv
  <2>4. FaultInv'
    BY <1>12, <1>t, <2>j DEF Done, FaultInv, FinishedInv, ListInv
  <2>5. CleanInv'
    BY <1>12, <1>t, <2>j DEF Done, CleanInv, BytesInv, FaultInv, FinishedInv
  <2>6. ChargedIsOver' /\ OncePerFault' /\ RecordedIsCharged'
    BY <1>12, <1>t DEF Done, ChargedIsOver, OncePerFault, RecordedIsCharged
  <2> QED
    BY <2>1, <2>2, <2>3, <2>4, <2>5, <2>6 DEF Inv
\* The fault pays for the charge or the record the next job repeats.
<1>13. ASSUME JobDies PROVE Inv'
  <2>j. /\ job'.pc = "idle" /\ job'.list = {} /\ job'.todo = {} /\ job'.finished = {}
        /\ job'.recv = [x \in Sessions |-> 0]
    BY <1>13 DEF JobDies, IdleJob
  <2>1. ListInv'
    BY <1>13, <1>t, <2>j DEF JobDies, ListInv, ChargedIsOver
  <2>2. FinishedInv'
    BY <1>13, <1>t, <2>j DEF JobDies, FinishedInv, ListInv
  <2>3. BytesInv'
    BY <1>13, <1>t, <2>j DEF JobDies, BytesInv
  <2>4. FaultInv'
    BY <1>13, <1>t, <2>j DEF JobDies, FaultInv, FinishedInv, ListInv, OncePerFault
  <2>5. CleanInv'
    BY <1>13, <1>t, <2>j DEF JobDies, CleanInv, BytesInv, FaultInv, FinishedInv
  <2>6. OncePerFault'
    BY <1>13, <1>t, <2>j DEF JobDies, OncePerFault, FaultInv, FinishedInv
  <2>7. ChargedIsOver' /\ RecordedIsCharged'
    BY <1>13, <1>t DEF JobDies, ChargedIsOver, RecordedIsCharged
  <2> QED
    BY <2>1, <2>2, <2>3, <2>4, <2>5, <2>6, <2>7 DEF Inv
<1>14. CASE UNCHANGED vars
  BY <1>14, <1>t
     DEF vars, Inv, ListInv, FinishedInv, BytesInv, FaultInv, CleanInv, ChargedIsOver,
         OncePerFault, RecordedIsCharged
<1> QED
  BY <1>1, <1>2, <1>3, <1>4, <1>5, <1>6, <1>7, <1>8, <1>9, <1>10, <1>11, <1>12, <1>13,
     <1>14 DEF Next, Refresh

LEMMA IInvHolds == Spec => []IInv
<1>1. Init => IInv
  BY TypeInitial, InvInitial DEF IInv
<1>2. IInv /\ [Next]_vars => IInv'
  BY TypeInductive, InvInductive DEF IInv
<1> QED
  BY <1>1, <1>2, PTL DEF Spec

\* Type correctness; in particular the job never charges a row that is gone.
THEOREM TypeCorrect == Spec => []TypeOK
<1>1. IInv => TypeOK
  BY DEF IInv
<1> QED
  BY <1>1, IInvHolds, PTL

\* openvpn-refresh.pl never charges or records a session that is still connected.
THEOREM ChargedAfterwards == Spec => []ChargedIsOver
<1>1. IInv => ChargedIsOver
  BY DEF IInv, Inv
<1> QED
  BY <1>1, IInvHolds, PTL

\* A session is charged and recorded at most once more than there were faults.
THEOREM ChargedOncePerFault == Spec => []OncePerFault
<1>1. IInv => OncePerFault
  BY DEF IInv, Inv
<1> QED
  BY <1>1, IInvHolds, PTL

\* Without faults a session costs at most what it carried, recorded as charged.
THEOREM NoOvercharge == Spec => []NeverOvercharged
<1>1. IInv => NeverOvercharged
  BY DEF IInv, Inv, CleanInv, NeverOvercharged, Charging
<1> QED
  BY <1>1, IInvHolds, PTL

\* A recorded session was charged, or keeps the row that gets it charged.
THEOREM RecordedCharged == Spec => []RecordedIsCharged
<1>1. IInv => RecordedIsCharged
  BY DEF IInv, Inv
<1> QED
  BY <1>1, IInvHolds, PTL
=============================================================================
