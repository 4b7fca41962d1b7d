---------------------------- MODULE PppAuthProofs ----------------------------
(***************************************************************************)
(* Proofs about PppAuth, for any number of pppds and users and any setting *)
(* of the options.                                                         *)
(***************************************************************************)
EXTENDS PppAuth, TLAPS

\* A lock belongs to a pppd that is between its SELECT and its UPDATE.
LockInv ==
  \A u \in Users, p \in Pppds :
    lock[u] = p => User(p) = u /\ proc[p].pc \in {"verify", "update"}

\* With FOR UPDATE and the condition, such a pppd has the lock and the row
\* still says 0.
MutexInv ==
  (Locking /\ Condition) => \A p \in Pppds : proc[p].pc \in {"verify", "update"} =>
    lock[User(p)] = p /\ status[User(p)] = 0

Inv == LockInv /\ MutexInv /\ ExclusiveIfConditioned /\ StatusFollowsLogins

\* The inductive invariant.
IInv == TypeOK /\ Inv

ProcType == [pc : PcStates, user : Users]

\* Goto moves one pppd and keeps its user.
LEMMA GotoEffect ==
  ASSUME proc \in [Pppds -> ProcType], NEW p \in Pppds, NEW k \in PcStates, Goto(p, k)
  PROVE  /\ proc' \in [Pppds -> ProcType]
         /\ proc'[p].pc = k /\ proc'[p].user = proc[p].user
         /\ \A q \in Pppds \ {p} : proc'[q] = proc[q]
BY DEF Goto, ProcType

\* The options stay as they are.
LEMMA OptionsKept ==
  ASSUME [Next]_vars
  PROVE  /\ opts' = opts /\ (Condition' <=> Condition) /\ (Locking' <=> Locking)
         /\ (ColumnUpdate' <=> ColumnUpdate)
<1>1. opts' = opts
  BY DEF Next, Step, Hook, Goto, vars, Ask, Connect, ConnectFails, Select, SelectTimesOut, Verify, SetStatus,
       SetStatusFails, Refuse, IpUp, IpUpFails, Vanish, IpDown, IpDownFails, Revert,
       RevertFails, Dies
<1> QED
  BY <1>1 DEF Condition, Locking, Exclusive, Authoritative, ColumnUpdate

LEMMA ReleasedType ==
  ASSUME TypeOK, NEW p \in Pppds PROVE Released(p) \in [Users -> Pppds \cup {NULL}]
BY DEF Released, TypeOK

LEMMA TypeInitial == Init => TypeOK
<1>1. AnyUser \in Users
  BY AuthConstants DEF AnyUser
<1> QED
  BY <1>1, AuthConstants DEF Init, TypeOK, PcStates

\* Every step keeps the types.
LEMMA TypeInductive == TypeOK /\ [Next]_vars => TypeOK'
<1> SUFFICES ASSUME TypeOK, [Next]_vars PROVE TypeOK'
  OBVIOUS
<1>t. /\ proc \in [Pppds -> ProcType] /\ \A p \in Pppds : User(p) \in Users
      /\ status \in [Users -> {0, 1}] /\ lock \in [Users -> Pppds \cup {NULL}]
      /\ lost \in SUBSET Users /\ faults \in 0..MaxFaults /\ MaxFaults \in Nat
  BY AuthConstants DEF TypeOK, ProcType, User
<1>1. ASSUME NEW p \in Pppds, NEW u \in Users, Ask(p, u) PROVE TypeOK'
  BY <1>1, OptionsKept DEF Ask, TypeOK, PcStates
<1>2. ASSUME NEW p \in Pppds,
             \/ Connect(p) \/ ConnectFails(p) \/ Select(p) \/ SelectTimesOut(p) \/ Verify(p)
             \/ SetStatus(p) \/ SetStatusFails(p) \/ Refuse(p) \/ IpUp(p) \/ IpUpFails(p)
             \/ Vanish(p) \/ IpDown(p) \/ IpDownFails(p) \/ Revert(p) \/ RevertFails(p)
             \/ Dies(p)
      PROVE  TypeOK'
  <2>1. PICK k \in PcStates : Goto(p, k)
    BY <1>2 DEF Connect, ConnectFails, Select, SelectTimesOut, Verify, SetStatus,
       SetStatusFails, Refuse, IpUp, IpUpFails, Vanish, IpDown, IpDownFails, Revert,
       RevertFails, Dies, PcStates
  <2>2. proc' \in [Pppds -> ProcType]
    BY <1>t, <2>1, GotoEffect
  <2>3. status' \in [Users -> {0, 1}]
    <3>1. status' = status \/ \E b \in {0, 1} : status' = [status EXCEPT ![User(p)] = b]
      BY <1>2 DEF Connect, ConnectFails, Select, SelectTimesOut, Verify, SetStatus,
         SetStatusFails, Refuse, IpUp, IpUpFails, Vanish, IpDown, IpDownFails, Revert,
         RevertFails, Dies
    <3> QED
      BY <1>t, <3>1
  <2>4. lock' \in [Users -> Pppds \cup {NULL}]
    <3>1. lock' = lock \/ lock' = Released(p) \/ lock' = [lock EXCEPT ![User(p)] = p]
      BY <1>2 DEF Connect, ConnectFails, Select, SelectTimesOut, Verify, SetStatus,
         SetStatusFails, Refuse, IpUp, IpUpFails, Vanish, IpDown, IpDownFails, Revert,
         RevertFails, Dies
    <3> QED
      BY <1>t, <3>1, ReleasedType
  <2>5. lost' \in SUBSET Users
    <3>1. lost' = lost \/ lost' = lost \cup {User(p)}
      BY <1>2 DEF Connect, ConnectFails, Select, SelectTimesOut, Verify, SetStatus,
         SetStatusFails, Refuse, IpUp, IpUpFails, Vanish, IpDown, IpDownFails, Revert,
         RevertFails, Dies, Abandon
    <3> QED
      BY <1>t, <3>1
  <2>6. faults' \in 0..MaxFaults
    <3>1. faults' = faults \/ (faults < MaxFaults /\ faults' = faults + 1)
      BY <1>2 DEF Connect, ConnectFails, Select, SelectTimesOut, Verify, SetStatus,
         SetStatusFails, Refuse, IpUp, IpUpFails, Vanish, IpDown, IpDownFails, Revert,
         RevertFails, Dies, Fault
    <3> QED
      BY <1>t, <3>1
  <2> QED
    BY <2>2, <2>3, <2>4, <2>5, <2>6, OptionsKept DEF TypeOK, ProcType
<1>3. CASE UNCHANGED vars
  BY <1>3 DEF vars, TypeOK
<1> QED
  BY <1>1, <1>2, <1>3 DEF Next, Step, Hook

LEMMA InvInitial == Init => Inv
BY AuthConstants
   DEF Init, Inv, LockInv, MutexInv, ExclusiveIfConditioned, NoConcurrentConnections,
       StatusFollowsLogins, Holds, User

\* Every step keeps the invariant.
LEMMA InvInductive == IInv /\ [Next]_vars => Inv'
<1> SUFFICES ASSUME IInv, [Next]_vars PROVE Inv'
  OBVIOUS
<1> USE DEF At, User, Holds
<1>t. /\ LockInv /\ MutexInv /\ ExclusiveIfConditioned /\ StatusFollowsLogins
      /\ proc \in [Pppds -> ProcType] /\ \A p \in Pppds : proc[p].user \in Users
      /\ status \in [Users -> {0, 1}] /\ lock \in [Users -> Pppds \cup {NULL}]
      /\ lost \in SUBSET Users /\ NULL \notin Pppds /\ (Locking => ColumnUpdate)
      /\ (Condition' <=> Condition) /\ (Locking' <=> Locking)
  BY AuthConstants, OptionsKept DEF IInv, Inv, TypeOK, ProcType, Locking
<1>1. ASSUME NEW p \in Pppds, NEW u \in Users, Ask(p, u) PROVE Inv'
  <2>g. /\ proc'[p] = [pc |-> "connect", user |-> u]
        /\ \A q \in Pppds \ {p} : proc'[q] = proc[q]
    BY <1>1, <1>t DEF Ask
  <2>1. LockInv'
    BY <1>1, <1>t, <2>g DEF Ask, LockInv
  <2>2. MutexInv'
    BY <1>1, <1>t, <2>g DEF Ask, MutexInv, LockInv
  <2>3. ExclusiveIfConditioned'
    BY <1>1, <1>t, <2>g DEF Ask, ExclusiveIfConditioned, NoConcurrentConnections, StatusFollowsLogins, MutexInv
  <2>4. StatusFollowsLogins'
    BY <1>1, <1>t, <2>g DEF Ask, StatusFollowsLogins, ExclusiveIfConditioned, NoConcurrentConnections, MutexInv
  <2> QED
    BY <2>1, <2>2, <2>3, <2>4 DEF Inv
<1>2. ASSUME NEW p \in Pppds, Connect(p) PROVE Inv'
  <2>g. /\ proc'[p].user = proc[p].user /\ \A q \in Pppds \ {p} : proc'[q] = proc[q]
        /\ proc'[p].pc \in {"select", "fail"}
    BY <1>2, <1>t, GotoEffect DEF Connect, PcStates
  <2>1. LockInv'
    BY <1>2, <1>t, <2>g DEF Connect, LockInv
  <2>2. MutexInv'
    BY <1>2, <1>t, <2>g DEF Connect, MutexInv, LockInv
  <2>3. ExclusiveIfConditioned'
    BY <1>2, <1>t, <2>g DEF Connect, ExclusiveIfConditioned, NoConcurrentConnections, StatusFollowsLogins, MutexInv
  <2>4. StatusFollowsLogins'
    BY <1>2, <1>t, <2>g DEF Connect, StatusFollowsLogins, ExclusiveIfConditioned, NoConcurrentConnections, MutexInv
  <2> QED
    BY <2>1, <2>2, <2>3, <2>4 DEF Inv
<1>3. ASSUME NEW p \in Pppds, ConnectFails(p) PROVE Inv'
  <2>g. /\ proc'[p].user = proc[p].user /\ \A q \in Pppds \ {p} : proc'[q] = proc[q]
        /\ proc'[p].pc \in {"fail"}
    BY <1>3, <1>t, GotoEffect DEF ConnectFails, PcStates
  <2>1. LockInv'
    BY <1>3, <1>t, <2>g DEF ConnectFails, LockInv, Fault
  <2>2. MutexInv'
    BY <1>3, <1>t, <2>g DEF ConnectFails, MutexInv, LockInv, Fault
  <2>3. ExclusiveIfConditioned'
    BY <1>3, <1>t, <2>g DEF ConnectFails, ExclusiveIfConditioned, NoConcurrentConnections, StatusFollowsLogins, MutexInv, Fault
  <2>4. StatusFollowsLogins'
    BY <1>3, <1>t, <2>g DEF ConnectFails, StatusFollowsLogins, ExclusiveIfConditioned, NoConcurrentConnections, MutexInv, Fault
  <2> QED
    BY <2>1, <2>2, <2>3, <2>4 DEF Inv
\* Only one transaction gets the row, and only while it says 0.
<1>4. ASSUME NEW p \in Pppds, Select(p) PROVE Inv'
  <2>g. /\ proc'[p].user = proc[p].user /\ \A q \in Pppds \ {p} : proc'[q] = proc[q]
        /\ \/ /\ proc'[p].pc = "verify" /\ (Condition => status[User(p)] = 0)
              /\ lock' = IF Locking THEN [lock EXCEPT ![User(p)] = p] ELSE lock
           \/ proc'[p].pc = "fail" /\ lock' = lock
    <3>1. CASE Condition => status[User(p)] = 0
      BY <1>4, <1>t, <3>1, GotoEffect DEF Select, PcStates
    <3>2. CASE ~(Condition => status[User(p)] = 0)
      BY <1>4, <1>t, <3>2, GotoEffect DEF Select, PcStates
    <3> QED
      BY <3>1, <3>2
  <2>1. LockInv'
    BY <1>4, <1>t, <2>g DEF Select, LockInv
  <2>2. MutexInv'
    BY <1>4, <1>t, <2>g DEF Select, MutexInv, LockInv
  <2>3. ExclusiveIfConditioned'
    BY <1>4, <1>t, <2>g DEF Select, ExclusiveIfConditioned, NoConcurrentConnections, StatusFollowsLogins, MutexInv
  <2>4. StatusFollowsLogins'
    BY <1>4, <1>t, <2>g DEF Select, StatusFollowsLogins, ExclusiveIfConditioned, NoConcurrentConnections, MutexInv
  <2> QED
    BY <2>1, <2>2, <2>3, <2>4 DEF Inv
<1>5. ASSUME NEW p \in Pppds, SelectTimesOut(p) PROVE Inv'
  <2>g. /\ proc'[p].user = proc[p].user /\ \A q \in Pppds \ {p} : proc'[q] = proc[q]
        /\ proc'[p].pc \in {"fail"}
    BY <1>5, <1>t, GotoEffect DEF SelectTimesOut, PcStates
  <2>1. LockInv'
    BY <1>5, <1>t, <2>g DEF SelectTimesOut, LockInv
  <2>2. MutexInv'
    BY <1>5, <1>t, <2>g DEF SelectTimesOut, MutexInv, LockInv
  <2>3. ExclusiveIfConditioned'
    BY <1>5, <1>t, <2>g DEF SelectTimesOut, ExclusiveIfConditioned, NoConcurrentConnections, StatusFollowsLogins, MutexInv
  <2>4. StatusFollowsLogins'
    BY <1>5, <1>t, <2>g DEF SelectTimesOut, StatusFollowsLogins, ExclusiveIfConditioned, NoConcurrentConnections, MutexInv
  <2> QED
    BY <2>1, <2>2, <2>3, <2>4 DEF Inv
<1>6. ASSUME NEW p \in Pppds, Verify(p) PROVE Inv'
  <2>g. /\ proc'[p].user = proc[p].user /\ \A q \in Pppds \ {p} : proc'[q] = proc[q]
        /\ \/ proc'[p].pc = "update" /\ lock' = lock
           \/ proc'[p].pc = "fail" /\ lock' = Released(p)
    BY <1>6, <1>t, GotoEffect DEF Verify, PcStates
  <2>1. LockInv'
    BY <1>6, <1>t, <2>g DEF Verify, LockInv, Released
  <2>2. MutexInv'
    BY <1>6, <1>t, <2>g DEF Verify, MutexInv, LockInv, Released
  <2>3. ExclusiveIfConditioned'
    BY <1>6, <1>t, <2>g DEF Verify, ExclusiveIfConditioned, NoConcurrentConnections, StatusFollowsLogins, MutexInv, Released
  <2>4. StatusFollowsLogins'
    BY <1>6, <1>t, <2>g DEF Verify, StatusFollowsLogins, ExclusiveIfConditioned, NoConcurrentConnections, MutexInv, Released
  <2> QED
    BY <2>1, <2>2, <2>3, <2>4 DEF Inv
\* The status was 0 under the lock, so nobody holds the login yet.
<1>7. ASSUME NEW p \in Pppds, SetStatus(p) PROVE Inv'
  <2>g. /\ proc'[p].user = proc[p].user /\ \A q \in Pppds \ {p} : proc'[q] = proc[q]
        /\ proc'[p].pc \in {"authed", "fail"} /\ (ColumnUpdate => proc'[p].pc = "authed")
    BY <1>7, <1>t, GotoEffect DEF SetStatus, PcStates
  <2>1. LockInv'
    BY <1>7, <1>t, <2>g DEF SetStatus, LockInv, Released
  <2>2. MutexInv'
    BY <1>7, <1>t, <2>g DEF SetStatus, MutexInv, LockInv, Released
  <2>3. ExclusiveIfConditioned'
    BY <1>7, <1>t, <2>g DEF SetStatus, ExclusiveIfConditioned, NoConcurrentConnections, StatusFollowsLogins, MutexInv, Released
  <2>4. StatusFollowsLogins'
    BY <1>7, <1>t, <2>g DEF SetStatus, StatusFollowsLogins, ExclusiveIfConditioned, NoConcurrentConnections, MutexInv, Released
  <2> QED
    BY <2>1, <2>2, <2>3, <2>4 DEF Inv
<1>8. ASSUME NEW p \in Pppds, SetStatusFails(p) PROVE Inv'
  <2>g. /\ proc'[p].user = proc[p].user /\ \A q \in Pppds \ {p} : proc'[q] = proc[q]
        /\ proc'[p].pc \in {"fail"}
    BY <1>8, <1>t, GotoEffect DEF SetStatusFails, PcStates
  <2>1. LockInv'
    BY <1>8, <1>t, <2>g DEF SetStatusFails, LockInv, Released, Fault
  <2>2. MutexInv'
    BY <1>8, <1>t, <2>g DEF SetStatusFails, MutexInv, LockInv, Released, Fault
  <2>3. ExclusiveIfConditioned'
    BY <1>8, <1>t, <2>g DEF SetStatusFails, ExclusiveIfConditioned, NoConcurrentConnections, StatusFollowsLogins, MutexInv, Released, Fault
  <2>4. StatusFollowsLogins'
    BY <1>8, <1>t, <2>g DEF SetStatusFails, StatusFollowsLogins, ExclusiveIfConditioned, NoConcurrentConnections, MutexInv, Released, Fault
  <2> QED
    BY <2>1, <2>2, <2>3, <2>4 DEF Inv
\* With Locking the plugin is authoritative.
<1>9. ASSUME NEW p \in Pppds, Refuse(p) PROVE Inv'
  <2>g. /\ proc'[p].user = proc[p].user /\ \A q \in Pppds \ {p} : proc'[q] = proc[q]
        /\ proc'[p].pc \in {"off", "authed"} /\ (Locking => proc'[p].pc = "off")
    BY <1>9, <1>t, GotoEffect DEF Refuse, PcStates, Locking
  <2>1. LockInv'
    BY <1>9, <1>t, <2>g DEF Refuse, LockInv
  <2>2. MutexInv'
    BY <1>9, <1>t, <2>g DEF Refuse, MutexInv, LockInv
  <2>3. ExclusiveIfConditioned'
    BY <1>9, <1>t, <2>g DEF Refuse, ExclusiveIfConditioned, NoConcurrentConnections, StatusFollowsLogins, MutexInv
  <2>4. StatusFollowsLogins'
    BY <1>9, <1>t, <2>g DEF Refuse, StatusFollowsLogins, ExclusiveIfConditioned, NoConcurrentConnections, MutexInv
  <2> QED
    BY <2>1, <2>2, <2>3, <2>4 DEF Inv
<1>10. ASSUME NEW p \in Pppds, IpUp(p) PROVE Inv'
  <2>g. /\ proc'[p].user = proc[p].user /\ \A q \in Pppds \ {p} : proc'[q] = proc[q]
        /\ proc'[p].pc \in {"up"}
    BY <1>10, <1>t, GotoEffect DEF IpUp, PcStates
  <2>1. LockInv'
    BY <1>10, <1>t, <2>g DEF IpUp, LockInv
  <2>2. MutexInv'
    BY <1>10, <1>t, <2>g DEF IpUp, MutexInv, LockInv
  <2>3. ExclusiveIfConditioned'
    BY <1>10, <1>t, <2>g DEF IpUp, ExclusiveIfConditioned, NoConcurrentConnections, StatusFollowsLogins, MutexInv
  <2>4. StatusFollowsLogins'
    BY <1>10, <1>t, <2>g DEF IpUp, StatusFollowsLogins, ExclusiveIfConditioned, NoConcurrentConnections, MutexInv
  <2> QED
    BY <2>1, <2>2, <2>3, <2>4 DEF Inv
<1>11. ASSUME NEW p \in Pppds, IpUpFails(p) PROVE Inv'
  <2>g. /\ proc'[p].user = proc[p].user /\ \A q \in Pppds \ {p} : proc'[q] = proc[q]
        /\ proc'[p].pc \in {"off", "revert"} /\ (Locking => proc'[p].pc = "revert")
    BY <1>11, <1>t, GotoEffect DEF IpUpFails, PcStates, Locking
  <2>1. LockInv'
    BY <1>11, <1>t, <2>g DEF IpUpFails, LockInv
  <2>2. MutexInv'
    BY <1>11, <1>t, <2>g DEF IpUpFails, MutexInv, LockInv
  <2>3. ExclusiveIfConditioned'
    BY <1>11, <1>t, <2>g DEF IpUpFails, ExclusiveIfConditioned, NoConcurrentConnections, StatusFollowsLogins, MutexInv
  <2>4. StatusFollowsLogins'
    BY <1>11, <1>t, <2>g DEF IpUpFails, StatusFollowsLogins, ExclusiveIfConditioned, NoConcurrentConnections, MutexInv
  <2> QED
    BY <2>1, <2>2, <2>3, <2>4 DEF Inv
<1>12. ASSUME NEW p \in Pppds, Vanish(p) PROVE Inv'
  <2>g. /\ proc'[p].user = proc[p].user /\ \A q \in Pppds \ {p} : proc'[q] = proc[q]
        /\ proc'[p].pc \in {"off"}
    BY <1>12, <1>t, GotoEffect DEF Vanish, PcStates
  <2>1. LockInv'
    BY <1>12, <1>t, <2>g DEF Vanish, LockInv, Fault, Abandon
  <2>2. MutexInv'
    BY <1>12, <1>t, <2>g DEF Vanish, MutexInv, LockInv, Fault, Abandon
  <2>3. ExclusiveIfConditioned'
    BY <1>12, <1>t, <2>g DEF Vanish, ExclusiveIfConditioned, NoConcurrentConnections, StatusFollowsLogins, MutexInv, Fault, Abandon
  <2>4. StatusFollowsLogins'
    BY <1>12, <1>t, <2>g DEF Vanish, StatusFollowsLogins, ExclusiveIfConditioned, NoConcurrentConnections, MutexInv, Fault, Abandon
  <2> QED
    BY <2>1, <2>2, <2>3, <2>4 DEF Inv
<1>13. ASSUME NEW p \in Pppds, IpDown(p) PROVE Inv'
  <2>g. /\ proc'[p].user = proc[p].user /\ \A q \in Pppds \ {p} : proc'[q] = proc[q]
        /\ proc'[p].pc \in {"off", "revert"} /\ (Locking => proc'[p].pc = "revert")
    BY <1>13, <1>t, GotoEffect DEF IpDown, PcStates, Locking
  <2>1. LockInv'
    BY <1>13, <1>t, <2>g DEF IpDown, LockInv
  <2>2. MutexInv'
    BY <1>13, <1>t, <2>g DEF IpDown, MutexInv, LockInv
  <2>3. ExclusiveIfConditioned'
    BY <1>13, <1>t, <2>g DEF IpDown, ExclusiveIfConditioned, NoConcurrentConnections, StatusFollowsLogins, MutexInv
  <2>4. StatusFollowsLogins'
    BY <1>13, <1>t, <2>g DEF IpDown, StatusFollowsLogins, ExclusiveIfConditioned, NoConcurrentConnections, MutexInv
  <2> QED
    BY <2>1, <2>2, <2>3, <2>4 DEF Inv
<1>14. ASSUME NEW p \in Pppds, IpDownFails(p) PROVE Inv'
  <2>g. /\ proc'[p].user = proc[p].user /\ \A q \in Pppds \ {p} : proc'[q] = proc[q]
        /\ proc'[p].pc \in {"off"}
    BY <1>14, <1>t, GotoEffect DEF IpDownFails, PcStates
  <2>1. LockInv'
    BY <1>14, <1>t, <2>g DEF IpDownFails, LockInv, Fault, Abandon
  <2>2. MutexInv'
    BY <1>14, <1>t, <2>g DEF IpDownFails, MutexInv, LockInv, Fault, Abandon
  <2>3. ExclusiveIfConditioned'
    BY <1>14, <1>t, <2>g DEF IpDownFails, ExclusiveIfConditioned, NoConcurrentConnections, StatusFollowsLogins, MutexInv, Fault, Abandon
  <2>4. StatusFollowsLogins'
    BY <1>14, <1>t, <2>g DEF IpDownFails, StatusFollowsLogins, ExclusiveIfConditioned, NoConcurrentConnections, MutexInv, Fault, Abandon
  <2> QED
    BY <2>1, <2>2, <2>3, <2>4 DEF Inv
\* Nobody else holds the login whose status is reset.
<1>15. ASSUME NEW p \in Pppds, Revert(p) PROVE Inv'
  <2>g. /\ proc'[p].user = proc[p].user /\ \A q \in Pppds \ {p} : proc'[q] = proc[q]
        /\ proc'[p].pc \in {"off"}
    BY <1>15, <1>t, GotoEffect DEF Revert, PcStates
  <2>1. LockInv'
    BY <1>15, <1>t, <2>g DEF Revert, LockInv
  <2>2. MutexInv'
    BY <1>15, <1>t, <2>g DEF Revert, MutexInv, LockInv
  <2>3. ExclusiveIfConditioned'
    BY <1>15, <1>t, <2>g DEF Revert, ExclusiveIfConditioned, NoConcurrentConnections, StatusFollowsLogins, MutexInv
  <2>4. StatusFollowsLogins'
    BY <1>15, <1>t, <2>g DEF Revert, StatusFollowsLogins, ExclusiveIfConditioned, NoConcurrentConnections, MutexInv
  <2> QED
    BY <2>1, <2>2, <2>3, <2>4 DEF Inv
<1>16. ASSUME NEW p \in Pppds, RevertFails(p) PROVE Inv'
  <2>g. /\ proc'[p].user = proc[p].user /\ \A q \in Pppds \ {p} : proc'[q] = proc[q]
        /\ proc'[p].pc \in {"off"}
    BY <1>16, <1>t, GotoEffect DEF RevertFails, PcStates
  <2>1. LockInv'
    BY <1>16, <1>t, <2>g DEF RevertFails, LockInv, Fault, Abandon
  <2>2. MutexInv'
    BY <1>16, <1>t, <2>g DEF RevertFails, MutexInv, LockInv, Fault, Abandon
  <2>3. ExclusiveIfConditioned'
    BY <1>16, <1>t, <2>g DEF RevertFails, ExclusiveIfConditioned, NoConcurrentConnections, StatusFollowsLogins, MutexInv, Fault, Abandon
  <2>4. StatusFollowsLogins'
    BY <1>16, <1>t, <2>g DEF RevertFails, StatusFollowsLogins, ExclusiveIfConditioned, NoConcurrentConnections, MutexInv, Fault, Abandon
  <2> QED
    BY <2>1, <2>2, <2>3, <2>4 DEF Inv
<1>17. ASSUME NEW p \in Pppds, Dies(p) PROVE Inv'
  <2>g. /\ proc'[p].user = proc[p].user /\ \A q \in Pppds \ {p} : proc'[q] = proc[q]
        /\ proc'[p].pc \in {"off"}
    BY <1>17, <1>t, GotoEffect DEF Dies, PcStates
  <2>1. LockInv'
    BY <1>17, <1>t, <2>g DEF Dies, LockInv, Fault, Abandon, Released
  <2>2. MutexInv'
    BY <1>17, <1>t, <2>g DEF Dies, MutexInv, LockInv, Fault, Abandon, Released
  <2>3. ExclusiveIfConditioned'
    BY <1>17, <1>t, <2>g DEF Dies, ExclusiveIfConditioned, NoConcurrentConnections, StatusFollowsLogins, MutexInv, Fault, Abandon, Released
  <2>4. StatusFollowsLogins'
    BY <1>17, <1>t, <2>g DEF Dies, StatusFollowsLogins, ExclusiveIfConditioned, NoConcurrentConnections, MutexInv, Fault, Abandon, Released
  <2> QED
    BY <2>1, <2>2, <2>3, <2>4 DEF Inv
<1>18. CASE UNCHANGED vars
  BY <1>18, <1>t
     DEF vars, Inv, LockInv, MutexInv, ExclusiveIfConditioned, NoConcurrentConnections,
         StatusFollowsLogins
<1> QED
  BY <1>1, <1>2, <1>3, <1>4, <1>5, <1>6, <1>7, <1>8, <1>9, <1>10, <1>11, <1>12, <1>13, <1>14, <1>15, <1>16, <1>17, <1>18
     DEF Next, Step, Hook

LEMMA IInvHolds == Spec => []IInv
<1>1. Init => IInv
  BY TypeInitial, InvInitial DEF IInv
<1>2. IInv /\ [Next]_vars => IInv'
  BY TypeInductive, InvInductive DEF IInv
<1> QED
  BY <1>1, <1>2, PTL DEF Spec

\* Type correctness, for every setting of the options.
THEOREM TypeCorrect == Spec => []TypeOK
BY TypeInitial, TypeInductive, PTL DEF Spec

\* Mutual exclusion: with mysql-exclusive and a condition on the status no two
\* pppds hold a login of the same user, whatever crashes and timeouts happen.
THEOREM Exclusion == Spec => []ExclusiveIfConditioned
<1>1. IInv => ExclusiveIfConditioned
  BY DEF IInv, Inv
<1> QED
  BY <1>1, IInvHolds, PTL

\* login.status says who is logged in, except for users whose pppd was lost.
THEOREM StatusFollows == Spec => []StatusFollowsLogins
<1>1. IInv => StatusFollowsLogins
  BY DEF IInv, Inv
<1> QED
  BY <1>1, IInvHolds, PTL

\* Only the end of a user's own login clears the mark.
THEOREM OwnLogout == Spec => LogoutIsOwn
<1> DEFINE A == (Locking /\ Condition) => \A u \in Users :
                  (status[u] = 1 /\ status'[u] = 0) =>
                    \E p \in Pppds : Holds(p) /\ User(p) = u /\ ~Holds(p)'
<1>1. TypeOK /\ [Next]_vars => [A]_vars
  <2> SUFFICES ASSUME TypeOK, Next, NEW u \in Users, status[u] = 1, status'[u] = 0
               PROVE  \E p \in Pppds : Holds(p) /\ User(p) = u /\ ~Holds(p)'
    OBVIOUS
  <2>1. PICK p \in Pppds : Step(p)
    BY DEF Next
  <2>2. Revert(p) /\ User(p) = u
    BY <2>1 DEF Step, Hook, Ask, Connect, ConnectFails, Select, SelectTimesOut, Verify,
       SetStatus, SetStatusFails, Refuse, IpUp, IpUpFails, Vanish, IpDown, IpDownFails,
       Revert, RevertFails, Dies, TypeOK
  <2>3. proc'[p].pc = "off"
    BY <2>2, GotoEffect DEF Revert, TypeOK, ProcType, PcStates
  <2> QED
    BY <2>2, <2>3 DEF Revert, Holds, At
<1> QED
  BY <1>1, TypeCorrect, PTL DEF Spec, LogoutIsOwn
=============================================================================
