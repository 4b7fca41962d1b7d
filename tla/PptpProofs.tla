----------------------------- MODULE PptpProofs -----------------------------
(***************************************************************************)
(* Proofs about PptpAccounting, for any sets of sessions, interfaces and   *)
(* users, any counter width and any number of faults.                      *)
(***************************************************************************)
EXTENDS PptpAccounting, TLAPS

\* A session on an interface runs there, has been started and is not charged.
LinkInv ==
  \A i \in Ifaces : Live(i) =>
    /\ iface[link[i].s] = i
    /\ row[link[i].s] # "unborn"
    /\ charge[link[i].s] = NULL

\* What the rows on an interface look like, by how far its scripts got.
RowInv ==
  \A i \in Ifaces :
    LET s == link[i].s IN
    /\ link[i].pc \in {"close", "insert"} => row[s] = "none"
    /\ link[i].pc = "insert" => \A x \in Sessions : iface[x] = i => ~Open(x)
    /\ (link[i].pc \in {"up", "down"} /\ s \notin faulty) =>
         Open(s) \/ (row[s] = "closed" /\ s \in cronEnded)
    /\ (link[i].pc = "charge" /\ s \notin faulty) =>
         row[s] = "closed" /\ (traffic[s] = ReportedTraffic(s) \/ s \in cronEnded)

\* The cron job only selects rows that were inserted; closed rows keep their
\* traffic, and only started sessions have been charged.
CronInv == \A x \in cron.ended : row[x] \in {"open", "closed"}

ChargeInv ==
  \A x \in Sessions :
    /\ row[x] = "unborn" => charge[x] = NULL
    /\ (charge[x] # NULL /\ x \notin faulty) => row[x] = "closed"

Inv == /\ LinkInv /\ RowInv /\ CronInv /\ ChargeInv
       /\ OneOpenRowPerInterface /\ OpenRowIsLinks /\ EndedIsCharged /\ RecordedIsCharged

\* The inductive invariant.
IInv == TypeOK /\ Inv

LinkType == [pc : LinkStates, s : Sessions]
CronType == [pc : CronStates, todo : SUBSET Ifaces, if : Ifaces, val : Nat,
             ended : SUBSET Sessions, victims : SUBSET Sessions]

LEMMA AnyType == AnySession \in Sessions /\ AnyIface \in Ifaces /\ AnyUser \in Users
BY PptpConstants DEF AnySession, AnyIface, AnyUser

LEMMA IdleType == IdleCron \in CronType
BY AnyType DEF IdleCron, CronType, CronStates

\* Goto moves one interface and keeps its session.
LEMMA GotoEffect ==
  ASSUME link \in [Ifaces -> LinkType], NEW i \in Ifaces, NEW k \in LinkStates, Goto(i, k)
  PROVE  /\ link' \in [Ifaces -> LinkType]
         /\ link'[i].pc = k /\ link'[i].s = link[i].s
         /\ \A j \in Ifaces \ {i} : link'[j] = link[j]
BY DEF Goto, LinkType

\* What the ip-down script is told is an integer.
LEMMA ReportedType ==
  ASSUME TypeOK, NEW s \in Sessions PROVE ReportedTraffic(s) \in Int
<1>1. ASSUME NEW n \in Nat PROVE PrintedBytes(n) \in Int
  BY PptpConstants DEF PrintedBytes
<1> QED
  BY <1>1 DEF ReportedTraffic, TypeOK

LEMMA TypeInitial == Init => TypeOK
BY AnyType, IdleType, PptpConstants
   DEF Init, TypeOK, LinkStates, CronType

\* Every step keeps tables, links and the cron job within their types.
LEMMA TypeInductive == TypeOK /\ [Next]_vars => TypeOK'
<1> SUFFICES ASSUME TypeOK, [Next]_vars PROVE TypeOK'
  OBVIOUS
<1>l. link \in [Ifaces -> LinkType]
  BY DEF TypeOK, LinkType
<1>s. \A i \in Ifaces : link[i].s \in Sessions
  BY <1>l DEF LinkType
<1>c. cron \in CronType
  BY DEF TypeOK, CronType
<1>1. ASSUME NEW i \in Ifaces, NEW s \in Sessions, NEW u \in Users, LinkUp(i, s, u)
      PROVE  TypeOK'
  BY <1>1 DEF LinkUp, TypeOK, LinkStates, history
<1>2. ASSUME NEW i \in Ifaces, IpUpClose(i) \/ IpUpInsert(i) \/ Hangup(i) PROVE TypeOK'
  <2>1. link' \in [Ifaces -> LinkType]
    BY <1>2, <1>l, GotoEffect DEF IpUpClose, IpUpInsert, Hangup, LinkStates
  <2>2. row' \in [Sessions -> {"unborn", "none", "open", "closed"}]
    BY <1>2, <1>s DEF IpUpClose, IpUpInsert, Hangup, TypeOK, tables
  <2> QED
    BY <1>2, <2>1, <2>2
       DEF IpUpClose, IpUpInsert, Hangup, TypeOK, LinkType, sessions, tables, history
<1>3. ASSUME NEW i \in Ifaces, NEW n \in RxCounts \cup TxCounts, Traffic(i, n) PROVE TypeOK'
  <2>1. n \in Nat
    BY PptpConstants
  <2>2. rx' \in [Sessions -> Nat] /\ tx' \in [Sessions -> Nat]
    <3>1. rx \in [Sessions -> Nat] /\ tx \in [Sessions -> Nat] /\ link[i].s \in Sessions
      BY <1>s DEF TypeOK
    <3>2. \/ rx' = [rx EXCEPT ![link[i].s] = n] /\ tx' = tx
          \/ tx' = [tx EXCEPT ![link[i].s] = n] /\ rx' = rx
      BY <1>3 DEF Traffic
    <3> QED
      BY <2>1, <3>1, <3>2
  <2> QED
    BY <1>3, <2>2 DEF Traffic, TypeOK, tables, history
<1>4. ASSUME NEW i \in Ifaces, IpDownClose(i) PROVE TypeOK'
  <2>1. link' \in [Ifaces -> LinkType]
    BY <1>4, <1>l, GotoEffect DEF IpDownClose, LinkStates
  <2>2. ReportedTraffic(link[i].s) \in Int
    BY <1>s, ReportedType
  <2>3. row' \in [Sessions -> {"unborn", "none", "open", "closed"}]
    BY <1>4 DEF IpDownClose, TypeOK
  <2>4. traffic' \in [Sessions -> Int \cup {NULL}]
    BY <1>4, <2>2 DEF IpDownClose, TypeOK
  <2> QED
    BY <1>4, <2>1, <2>3, <2>4 DEF IpDownClose, TypeOK, LinkType, sessions, history
<1>5. ASSUME NEW i \in Ifaces, IpDownCharge(i) PROVE TypeOK'
  <2>1. link' \in [Ifaces -> LinkType]
    BY <1>5, <1>l, GotoEffect DEF IpDownCharge, LinkStates
  <2>2. ReportedTraffic(link[i].s) \in Int
    BY <1>s, ReportedType
  <2>3. credit' \in [Users -> Int] /\ charge' \in [Sessions -> Int \cup {NULL}]
    BY <1>5, <1>s, <2>2 DEF IpDownCharge, TypeOK
  <2> QED
    BY <1>5, <2>1, <2>3 DEF IpDownCharge, TypeOK, LinkType, sessions
<1>6. ASSUME NEW i \in Ifaces, ScriptFails(i) \/ PppdDies(i) PROVE TypeOK'
  <2>1. link' \in [Ifaces -> LinkType]
    BY <1>6, <1>l, GotoEffect DEF ScriptFails, PppdDies, LinkStates
  <2>2. faults' \in 0..MaxFaults /\ faulty' \in SUBSET Sessions
    BY <1>6, <1>s, PptpConstants DEF ScriptFails, PppdDies, TypeOK
  <2> QED
    BY <1>6, <2>1, <2>2 DEF ScriptFails, PppdDies, TypeOK, LinkType, sessions, tables
<1>7. ASSUME CronStart \/ CronEnd \/ CronDies \/ CronSelectLimit \/ CronSelectCredit
             \/ (\E i \in Ifaces : CronRead(i)) \/ \E x \in Sessions : CronKill(x)
      PROVE  TypeOK'
  <2>1. cron' \in CronType
    <3>1. CASE CronStart
      BY <3>1, IdleType DEF CronStart, CronType, CronStates
    <3>2. CASE CronEnd \/ CronDies
      BY <3>2, IdleType DEF CronEnd, CronDies
    <3>3. CASE CronSelectLimit
      BY <3>3, <1>c DEF CronSelectLimit, CronType, CronStates
    <3>6. CASE CronSelectCredit
      <4>1. {x \in Sessions : Overdrawn(x)} \in SUBSET Sessions
        OBVIOUS
      <4> QED
        BY <3>6, <1>c, <4>1 DEF CronSelectCredit, CronType, CronStates
    <3>4. ASSUME NEW i \in Ifaces, CronRead(i) PROVE cron' \in CronType
      <4>1. rx[link[i].s] + tx[link[i].s] \in Nat
        BY <1>s DEF TypeOK
      <4> QED
        BY <3>4, <1>c, <4>1 DEF CronRead, CronType, CronStates
    <3>5. ASSUME NEW x \in Sessions, CronKill(x) PROVE cron' \in CronType
      BY <3>5, <1>c DEF CronKill, CronType, CronStates
    <3> QED
      BY <1>7, <3>1, <3>2, <3>3, <3>4, <3>5, <3>6
  <2>2. killed' \in SUBSET Sessions
    <3>1. killed \in SUBSET Sessions
      BY DEF TypeOK
    <3>2. killed' = killed \/ \E x \in Sessions : killed' = killed \cup {x}
      BY <1>7 DEF CronStart, CronEnd, CronDies, CronSelectLimit, CronSelectCredit, CronRead, CronKill
    <3> QED
      BY <3>1, <3>2
  <2>3. faults' \in 0..MaxFaults
    <3>1. faults \in 0..MaxFaults
      BY DEF TypeOK
    <3>2. faults' = faults \/ (faults < MaxFaults /\ faults' = faults + 1)
      BY <1>7 DEF CronStart, CronEnd, CronDies, CronSelectLimit, CronSelectCredit, CronRead, CronKill
    <3> QED
      BY <3>1, <3>2, PptpConstants
  <2>4. UNCHANGED <<link, sessions, tables, history>>
    BY <1>7 DEF CronStart, CronEnd, CronDies, CronSelectLimit, CronSelectCredit, CronRead, CronKill
  <2> QED
    BY <2>1, <2>2, <2>3, <2>4 DEF TypeOK, CronType, sessions, tables, history
<1>8. ASSUME CronWrite PROVE TypeOK'
  <2>1. cron' \in CronType
    BY <1>8, <1>c, AnyType DEF CronWrite, CronType, CronStates
  <2>2. traffic' \in [Sessions -> Int \cup {NULL}]
    BY <1>8 DEF CronWrite, TypeOK
  <2> QED
    BY <1>8, <2>1, <2>2 DEF CronWrite, TypeOK, CronType, sessions, history
<1>9. ASSUME NEW s \in Sessions, CronClose(s) PROVE TypeOK'
  <2>1. cron' \in CronType
    BY <1>9, <1>c DEF CronClose, CronType, CronStates
  <2> QED
    BY <1>9, <2>1 DEF CronClose, TypeOK, CronType, sessions
<1>10. CASE UNCHANGED vars
  BY <1>10 DEF vars, TypeOK, sessions, tables, history
<1> QED
  BY <1>1, <1>2, <1>3, <1>4, <1>5, <1>6, <1>7, <1>8, <1>9, <1>10 DEF Next, Script, Cron

LEMMA InvInitial == Init => Inv
BY PptpConstants
   DEF Init, Inv, LinkInv, RowInv, CronInv, ChargeInv, OneOpenRowPerInterface,
       OpenRowIsLinks, EndedIsCharged, RecordedIsCharged, IdleCron, Live, Open

\* Every step keeps the invariant.
LEMMA InvInductive == IInv /\ [Next]_vars => Inv'
<1> SUFFICES ASSUME IInv, [Next]_vars PROVE Inv'
  OBVIOUS
<1> USE DEF Live, Open, sessions, tables, history
<1>t. /\ TypeOK /\ Inv
      /\ LinkInv /\ RowInv /\ CronInv /\ ChargeInv
      /\ OneOpenRowPerInterface /\ OpenRowIsLinks /\ EndedIsCharged /\ RecordedIsCharged
      /\ link \in [Ifaces -> LinkType] /\ \A i \in Ifaces : link[i].s \in Sessions
      /\ iface \in [Sessions -> Ifaces]
      /\ row \in [Sessions -> {"unborn", "none", "open", "closed"}]
      /\ traffic \in [Sessions -> Int \cup {NULL}] /\ charge \in [Sessions -> Int \cup {NULL}]
      /\ rx \in [Sessions -> Nat] /\ tx \in [Sessions -> Nat]
      /\ cron \in CronType /\ cron.ended \subseteq Sessions
  BY DEF IInv, Inv, TypeOK, LinkType, CronType
\* The session is new: it has no row, no charge and is on no other
\* interface.
<1>1. ASSUME NEW i \in Ifaces, NEW s \in Sessions, NEW u \in Users, LinkUp(i, s, u) PROVE Inv'
  <2>1. LinkInv'
    BY <1>1, <1>t DEF LinkUp, LinkInv, ChargeInv
  <2>2. RowInv'
    BY <1>1, <1>t DEF LinkUp, RowInv, LinkInv, CronInv, ReportedTraffic
  <2>3. CronInv'
    BY <1>1, <1>t DEF LinkUp, CronInv
  <2>4. ChargeInv'
    BY <1>1, <1>t DEF LinkUp, ChargeInv, LinkInv, RowInv
  <2>5. OneOpenRowPerInterface'
    BY <1>1, <1>t DEF LinkUp, OneOpenRowPerInterface, LinkInv, RowInv
  <2>6. OpenRowIsLinks'
    BY <1>1, <1>t DEF LinkUp, OpenRowIsLinks, LinkInv, RowInv
  <2>7. EndedIsCharged'
    BY <1>1, <1>t DEF LinkUp, EndedIsCharged, LinkInv
  <2>8. RecordedIsCharged'
    BY <1>1, <1>t DEF LinkUp, RecordedIsCharged
  <2> QED
    BY <2>1, <2>2, <2>3, <2>4, <2>5, <2>6, <2>7, <2>8 DEF Inv
\* No row on interface i is open afterwards.
<1>2. ASSUME NEW i \in Ifaces, IpUpClose(i) PROVE Inv'
  <2>g. /\ link'[i].s = link[i].s /\ \A j \in Ifaces \ {i} : link'[j] = link[j]
        /\ link'[i].pc = "insert"
    BY <1>2, <1>t, GotoEffect DEF IpUpClose, LinkStates
  <2>1. LinkInv'
    BY <1>2, <1>t, <2>g DEF IpUpClose, LinkInv, ChargeInv
  <2>2. RowInv'
    BY <1>2, <1>t, <2>g DEF IpUpClose, RowInv, LinkInv, CronInv, ReportedTraffic
  <2>3. CronInv'
    BY <1>2, <1>t, <2>g DEF IpUpClose, CronInv
  <2>4. ChargeInv'
    BY <1>2, <1>t, <2>g DEF IpUpClose, ChargeInv, LinkInv, RowInv
  <2>5. OneOpenRowPerInterface'
    BY <1>2, <1>t, <2>g DEF IpUpClose, OneOpenRowPerInterface, LinkInv, RowInv
  <2>6. OpenRowIsLinks'
    BY <1>2, <1>t, <2>g DEF IpUpClose, OpenRowIsLinks, LinkInv, RowInv
  <2>7. EndedIsCharged'
    BY <1>2, <1>t, <2>g DEF IpUpClose, EndedIsCharged, LinkInv
  <2>8. RecordedIsCharged'
    BY <1>2, <1>t DEF IpUpClose, RecordedIsCharged
  <2> QED
    BY <2>1, <2>2, <2>3, <2>4, <2>5, <2>6, <2>7, <2>8 DEF Inv
\* The only row that is open on i is the new one.
<1>3. ASSUME NEW i \in Ifaces, IpUpInsert(i) PROVE Inv'
  <2>g. /\ link'[i].s = link[i].s /\ \A j \in Ifaces \ {i} : link'[j] = link[j]
        /\ link'[i].pc = "up"
    BY <1>3, <1>t, GotoEffect DEF IpUpInsert, LinkStates
  <2>1. LinkInv'
    BY <1>3, <1>t, <2>g DEF IpUpInsert, LinkInv, ChargeInv
  <2>2. RowInv'
    BY <1>3, <1>t, <2>g DEF IpUpInsert, RowInv, LinkInv, CronInv, ReportedTraffic
  <2>3. CronInv'
    BY <1>3, <1>t, <2>g DEF IpUpInsert, CronInv
  <2>4. ChargeInv'
    BY <1>3, <1>t, <2>g DEF IpUpInsert, ChargeInv, LinkInv, RowInv
  <2>5. OneOpenRowPerInterface'
    BY <1>3, <1>t, <2>g DEF IpUpInsert, OneOpenRowPerInterface, LinkInv, RowInv
  <2>6. OpenRowIsLinks'
    BY <1>3, <1>t, <2>g DEF IpUpInsert, OpenRowIsLinks, LinkInv, RowInv
  <2>7. EndedIsCharged'
    BY <1>3, <1>t, <2>g DEF IpUpInsert, EndedIsCharged, LinkInv
  <2>8. RecordedIsCharged'
    BY <1>3, <1>t DEF IpUpInsert, RecordedIsCharged
  <2> QED
    BY <2>1, <2>2, <2>3, <2>4, <2>5, <2>6, <2>7, <2>8 DEF Inv
\* The counters that are reported no longer change once the link is down.
<1>4. ASSUME NEW i \in Ifaces, NEW n \in RxCounts \cup TxCounts, Traffic(i, n) PROVE Inv'
  <2>1. RowInv'
    BY <1>4, <1>t DEF Traffic, RowInv, LinkInv, CronInv, ReportedTraffic
  <2>2. LinkInv' /\ CronInv' /\ ChargeInv' /\ OneOpenRowPerInterface' /\ OpenRowIsLinks' /\ EndedIsCharged' /\ RecordedIsCharged'
    BY <1>4, <1>t DEF Traffic, LinkInv, CronInv, ChargeInv, OneOpenRowPerInterface, OpenRowIsLinks, EndedIsCharged, RecordedIsCharged
  <2> QED
    BY <2>1, <2>2 DEF Inv
<1>5. ASSUME NEW i \in Ifaces, Hangup(i) PROVE Inv'
  <2>g. /\ link'[i].s = link[i].s /\ \A j \in Ifaces \ {i} : link'[j] = link[j]
        /\ link'[i].pc = "down"
    BY <1>5, <1>t, GotoEffect DEF Hangup, LinkStates
  <2>1. LinkInv'
    BY <1>5, <1>t, <2>g DEF Hangup, LinkInv, ChargeInv
  <2>2. RowInv'
    BY <1>5, <1>t, <2>g DEF Hangup, RowInv, LinkInv, CronInv, ReportedTraffic
  <2>3. OpenRowIsLinks'
    BY <1>5, <1>t, <2>g DEF Hangup, OpenRowIsLinks, LinkInv, RowInv
  <2>4. EndedIsCharged'
    BY <1>5, <1>t, <2>g DEF Hangup, EndedIsCharged, LinkInv
  <2>5. CronInv' /\ ChargeInv' /\ OneOpenRowPerInterface' /\ RecordedIsCharged'
    BY <1>5, <1>t DEF Hangup, CronInv, ChargeInv, OneOpenRowPerInterface, RecordedIsCharged
  <2> QED
    BY <2>1, <2>2, <2>3, <2>4, <2>5 DEF Inv
\* The session's own row is closed with what will be charged, unless the
\* cron job was first.
<1>6. ASSUME NEW i \in Ifaces, IpDownClose(i) PROVE Inv'
  <2>g. /\ link'[i].s = link[i].s /\ \A j \in Ifaces \ {i} : link'[j] = link[j]
        /\ link'[i].pc = "charge"
    BY <1>6, <1>t, GotoEffect DEF IpDownClose, LinkStates
  <2>1. LinkInv'
    BY <1>6, <1>t, <2>g DEF IpDownClose, LinkInv, ChargeInv
  <2>2. RowInv'
    BY <1>6, <1>t, <2>g DEF IpDownClose, RowInv, LinkInv, CronInv, ReportedTraffic
  <2>3. CronInv'
    BY <1>6, <1>t, <2>g DEF IpDownClose, CronInv
  <2>4. ChargeInv'
    BY <1>6, <1>t, <2>g DEF IpDownClose, ChargeInv, LinkInv, RowInv
  <2>5. OneOpenRowPerInterface'
    BY <1>6, <1>t, <2>g DEF IpDownClose, OneOpenRowPerInterface, LinkInv, RowInv
  <2>6. OpenRowIsLinks'
    BY <1>6, <1>t, <2>g DEF IpDownClose, OpenRowIsLinks, LinkInv, RowInv
  <2>7. EndedIsCharged'
    BY <1>6, <1>t, <2>g DEF IpDownClose, EndedIsCharged, LinkInv
  <2>8. RecordedIsCharged'
    BY <1>6, <1>t, <2>g DEF IpDownClose, RecordedIsCharged, ChargeInv, LinkInv, RowInv
  <2> QED
    BY <2>1, <2>2, <2>3, <2>4, <2>5, <2>6, <2>7, <2>8 DEF Inv
\* The session leaves the interface charged.
<1>7. ASSUME NEW i \in Ifaces, IpDownCharge(i) PROVE Inv'
  <2>g. /\ link'[i].s = link[i].s /\ \A j \in Ifaces \ {i} : link'[j] = link[j]
        /\ link'[i].pc = "free"
    BY <1>7, <1>t, GotoEffect DEF IpDownCharge, LinkStates
  <2>1. LinkInv'
    BY <1>7, <1>t, <2>g DEF IpDownCharge, LinkInv, ChargeInv
  <2>2. RowInv'
    BY <1>7, <1>t, <2>g DEF IpDownCharge, RowInv, LinkInv, CronInv, ReportedTraffic
  <2>3. ChargeInv'
    BY <1>7, <1>t, <2>g DEF IpDownCharge, ChargeInv, LinkInv, RowInv
  <2>4. OpenRowIsLinks'
    BY <1>7, <1>t, <2>g DEF IpDownCharge, OpenRowIsLinks, LinkInv, RowInv
  <2>5. EndedIsCharged'
    <3> SUFFICES ASSUME NEW x \in Sessions, row[x] # "unborn",
                        \A m \in Ifaces : Live(m)' => link'[m].s # x
                 PROVE  charge'[x] # NULL \/ x \in faulty
      BY <1>7 DEF EndedIsCharged, IpDownCharge
    <3>1. CASE x = link[i].s
      <4>1. ReportedTraffic(x) \in Int
        BY <1>t, ReportedType
      <4> QED
        BY <1>7, <1>t, <3>1, <4>1, PptpConstants DEF IpDownCharge
    <3>2. CASE x # link[i].s
      BY <1>7, <1>t, <2>g, <3>2 DEF IpDownCharge, EndedIsCharged
    <3> QED
      BY <3>1, <3>2
  <2>6. RecordedIsCharged'
    BY <1>7, <1>t, <2>g DEF IpDownCharge, RecordedIsCharged, ChargeInv, LinkInv, RowInv
  <2>7. CronInv' /\ OneOpenRowPerInterface'
    BY <1>7, <1>t DEF IpDownCharge, CronInv, OneOpenRowPerInterface
  <2> QED
    BY <2>1, <2>2, <2>3, <2>4, <2>5, <2>6, <2>7 DEF Inv
<1>8. ASSUME NEW i \in Ifaces, ScriptFails(i) PROVE Inv'
  <2>g. /\ link'[i].s = link[i].s /\ \A j \in Ifaces \ {i} : link'[j] = link[j]
        /\ \/ link[i].pc \in {"close", "insert"} /\ link'[i].pc \in {"up", "free"}
           \/ link[i].pc \in {"down", "charge"} /\ link'[i].pc = "free"
    BY <1>8, <1>t, GotoEffect DEF ScriptFails, LinkStates
  <2>1. LinkInv'
    BY <1>8, <1>t, <2>g DEF ScriptFails, LinkInv, ChargeInv
  <2>2. RowInv'
    BY <1>8, <1>t, <2>g DEF ScriptFails, RowInv, LinkInv, CronInv, ReportedTraffic
  <2>3. ChargeInv'
    BY <1>8, <1>t, <2>g DEF ScriptFails, ChargeInv, LinkInv, RowInv
  <2>4. OpenRowIsLinks'
    BY <1>8, <1>t, <2>g DEF ScriptFails, OpenRowIsLinks, LinkInv, RowInv
  <2>5. EndedIsCharged'
    BY <1>8, <1>t, <2>g DEF ScriptFails, EndedIsCharged, LinkInv
  <2>6. RecordedIsCharged'
    BY <1>8, <1>t, <2>g DEF ScriptFails, RecordedIsCharged, ChargeInv, LinkInv, RowInv
  <2>7. CronInv' /\ OneOpenRowPerInterface'
    BY <1>8, <1>t DEF ScriptFails, CronInv, OneOpenRowPerInterface
  <2> QED
    BY <2>1, <2>2, <2>3, <2>4, <2>5, <2>6, <2>7 DEF Inv
<1>9. ASSUME NEW i \in Ifaces, PppdDies(i) PROVE Inv'
  <2>g. /\ link'[i].s = link[i].s /\ \A j \in Ifaces \ {i} : link'[j] = link[j]
        /\ link'[i].pc = "free"
    BY <1>9, <1>t, GotoEffect DEF PppdDies, LinkStates
  <2>1. LinkInv'
    BY <1>9, <1>t, <2>g DEF PppdDies, LinkInv, ChargeInv
  <2>2. RowInv'
    BY <1>9, <1>t, <2>g DEF PppdDies, RowInv, LinkInv, CronInv, ReportedTraffic
  <2>3. ChargeInv'
    BY <1>9, <1>t, <2>g DEF PppdDies, ChargeInv, LinkInv, RowInv
  <2>4. OpenRowIsLinks'
    BY <1>9, <1>t, <2>g DEF PppdDies, OpenRowIsLinks, LinkInv, RowInv
  <2>5. EndedIsCharged'
    BY <1>9, <1>t, <2>g DEF PppdDies, EndedIsCharged, LinkInv
  <2>6. RecordedIsCharged'
    BY <1>9, <1>t, <2>g DEF PppdDies, RecordedIsCharged, ChargeInv, LinkInv, RowInv
  <2>7. CronInv' /\ OneOpenRowPerInterface'
    BY <1>9, <1>t DEF PppdDies, CronInv, OneOpenRowPerInterface
  <2> QED
    BY <2>1, <2>2, <2>3, <2>4, <2>5, <2>6, <2>7 DEF Inv
\* Only open rows are written, never a charged one.
<1>10. ASSUME CronWrite PROVE Inv'
  <2>1. RowInv'
    BY <1>10, <1>t DEF CronWrite, RowInv, LinkInv, CronInv, ReportedTraffic
  <2>2. CronInv'
    BY <1>10, <1>t DEF CronWrite, CronInv
  <2>3. RecordedIsCharged'
    BY <1>10, <1>t DEF CronWrite, RecordedIsCharged, ChargeInv, LinkInv, RowInv
  <2>4. LinkInv' /\ ChargeInv' /\ OneOpenRowPerInterface' /\ OpenRowIsLinks' /\ EndedIsCharged'
    BY <1>10, <1>t DEF CronWrite, LinkInv, ChargeInv, OneOpenRowPerInterface, OpenRowIsLinks, EndedIsCharged
  <2> QED
    BY <2>1, <2>2, <2>3, <2>4 DEF Inv
\* The row was inserted: it is not the one of a link whose mysql-ip-up still
\* runs.
<1>11. ASSUME NEW s \in Sessions, CronClose(s) PROVE Inv'
  <2>1. LinkInv'
    BY <1>11, <1>t DEF CronClose, LinkInv, ChargeInv
  <2>2. RowInv'
    BY <1>11, <1>t DEF CronClose, RowInv, LinkInv, CronInv, ReportedTraffic
  <2>3. CronInv'
    BY <1>11, <1>t DEF CronClose, CronInv
  <2>4. ChargeInv'
    BY <1>11, <1>t DEF CronClose, ChargeInv, LinkInv, RowInv
  <2>5. OneOpenRowPerInterface'
    BY <1>11, <1>t DEF CronClose, OneOpenRowPerInterface, LinkInv, RowInv
  <2>6. OpenRowIsLinks'
    BY <1>11, <1>t DEF CronClose, OpenRowIsLinks, LinkInv, RowInv
  <2>7. EndedIsCharged'
    BY <1>11, <1>t DEF CronClose, EndedIsCharged, CronInv
  <2>8. RecordedIsCharged'
    BY <1>11, <1>t DEF CronClose, RecordedIsCharged, ChargeInv, LinkInv, RowInv
  <2> QED
    BY <2>1, <2>2, <2>3, <2>4, <2>5, <2>6, <2>7, <2>8 DEF Inv
\* The cron job selects open rows.
<1>12. ASSUME CronStart \/ CronEnd \/ CronDies \/ CronSelectLimit \/ CronSelectCredit
              \/ (\E i \in Ifaces : CronRead(i)) \/ \E x \in Sessions : CronKill(x)
       PROVE  Inv'
  <2>1. UNCHANGED <<link, sessions, tables, history>>
    BY <1>12 DEF CronStart, CronEnd, CronDies, CronSelectLimit, CronSelectCredit, CronRead, CronKill
  <2>2. CronInv'
    <3>1. \A x \in cron'.ended : x \in cron.ended \/ row[x] = "open"
      <4>1. CASE CronStart \/ CronEnd \/ CronDies
        <5>1. IdleCron.ended = {}
          BY DEF IdleCron
        <5>2. CASE CronStart
          BY <5>1, <5>2, IdleType DEF CronStart, CronType
        <5>3. CASE CronEnd \/ CronDies
          BY <5>1, <5>3 DEF CronEnd, CronDies
        <5> QED
          BY <4>1, <5>2, <5>3
      <4>2. CASE CronSelectLimit \/ CronSelectCredit
        <5>1. CASE CronSelectLimit
          <6>1. cron'.ended = {x \in Sessions : Open(x) /\ traffic[x] # NULL /\ traffic[x] > Limit}
            BY <1>t, <5>1 DEF CronSelectLimit, CronType
          <6> QED
            BY <6>1
        <5>2. CASE CronSelectCredit
          <6>1. cron'.ended = cron.ended \cup {x \in Sessions : Overdrawn(x)}
            BY <1>t, <5>2 DEF CronSelectCredit, CronType
          <6> QED
            BY <6>1 DEF Overdrawn
        <5> QED
          BY <4>2, <5>1, <5>2
      <4>3. ASSUME NEW i \in Ifaces, CronRead(i) PROVE cron'.ended = cron.ended
        BY <4>3, <1>t DEF CronRead, CronType
      <4>4. ASSUME NEW x \in Sessions, CronKill(x) PROVE cron'.ended = cron.ended
        BY <4>4, <1>t DEF CronKill, CronType
      <4> QED
        BY <1>12, <4>1, <4>2, <4>3, <4>4
    <3> QED
      BY <1>t, <2>1, <3>1 DEF CronInv
  <2> QED
    BY <1>t, <2>1, <2>2
       DEF Inv, LinkInv, RowInv, ChargeInv, OneOpenRowPerInterface, OpenRowIsLinks,
           EndedIsCharged, RecordedIsCharged, ReportedTraffic
<1>13. CASE UNCHANGED vars
  BY <1>13, <1>t
     DEF vars, Inv, LinkInv, RowInv, CronInv, ChargeInv, OneOpenRowPerInterface,
         OpenRowIsLinks, EndedIsCharged, RecordedIsCharged, ReportedTraffic
<1> QED
  BY <1>1, <1>2, <1>3, <1>4, <1>5, <1>6, <1>7, <1>8, <1>9, <1>10, <1>11, <1>12, <1>13
     DEF Next, Script, Cron

LEMMA IInvHolds == Spec => []IInv
<1>1. Init => IInv
  BY TypeInitial, InvInitial DEF IInv
<1>2. IInv /\ [Next]_vars => IInv'
  BY TypeInductive, InvInductive DEF IInv
<1> QED
  BY <1>1, <1>2, PTL DEF Spec

\* Type correctness of the PPTP accounting tables.
THEOREM TypeCorrect == Spec => []TypeOK
BY TypeInitial, TypeInductive, PTL DEF Spec

\* No interface ever has two open rows, however sessions, reused interfaces,
\* dying pppds, failing scripts and the cron job interleave.
THEOREM OneOpenRow == Spec => []OneOpenRowPerInterface
<1>1. IInv => OneOpenRowPerInterface
  BY DEF IInv, Inv
<1> QED
  BY <1>1, IInvHolds, PTL

\* After mysql-ip-up an open row on the interface is its session's.
THEOREM OpenRowOfLink == Spec => []OpenRowIsLinks
<1>1. IInv => OpenRowIsLinks
  BY DEF IInv, Inv
<1> QED
  BY <1>1, IInvHolds, PTL

\* A session that ended was charged unless its pppd died or a script failed.
THEOREM Charged == Spec => []EndedIsCharged
<1>1. IInv => EndedIsCharged
  BY DEF IInv, Inv
<1> QED
  BY <1>1, IInvHolds, PTL

\* connections records what login was charged, unless the cron job closed the row.
THEOREM Recorded == Spec => []RecordedIsCharged
<1>1. IInv => RecordedIsCharged
  BY DEF IInv, Inv
<1> QED
  BY <1>1, IInvHolds, PTL
-----------------------------------------------------------------------------
(* Whom the cron job kills. *)

\* Some session on interface i carried n units or more.
Carried(i, n) ==
  \E y \in Sessions : row[y] # "unborn" /\ iface[y] = i /\ rx[y] + tx[y] >= n

\* A row is written only while it is open, with what its interface carried; the
\* same holds for the number the cron job has read and not yet written.
SeenInv ==
  /\ \A x \in Sessions : row[x] \in {"unborn", "none"} => traffic[x] = NULL
  /\ \A x \in Sessions : (Open(x) /\ traffic[x] # NULL) => Carried(iface[x], traffic[x])
  /\ cron.pc = "write" => Carried(cron.if, cron.val)

\* A session that has begun stays on its interface, and its counters only grow.
LEMMA SessionsGrow ==
  ASSUME IInv, [Next]_vars, NEW y \in Sessions, row[y] # "unborn"
  PROVE  /\ row'[y] # "unborn" /\ iface'[y] = iface[y] /\ username'[y] = username[y]
         /\ rx'[y] + tx'[y] >= rx[y] + tx[y]
<1> USE DEF Open, sessions, tables, history
<1>t. /\ link \in [Ifaces -> LinkType] /\ \A i \in Ifaces : link[i].s \in Sessions
      /\ iface \in [Sessions -> Ifaces] /\ username \in [Sessions -> Users]
      /\ row \in [Sessions -> {"unborn", "none", "open", "closed"}]
      /\ rx \in [Sessions -> Nat] /\ tx \in [Sessions -> Nat]
  BY DEF IInv, TypeOK, LinkType
<1>1. ASSUME NEW i \in Ifaces, NEW s \in Sessions, NEW u \in Users, LinkUp(i, s, u)
      PROVE  row'[y] # "unborn" /\ UNCHANGED <<iface[y], username[y], rx, tx>>
  BY <1>1, <1>t DEF LinkUp
<1>2. ASSUME NEW i \in Ifaces, Script(i)
      PROVE  row'[y] # "unborn" /\ UNCHANGED sessions
  BY <1>2, <1>t DEF Script, IpUpClose, IpUpInsert, IpDownClose, IpDownCharge
<1>3. ASSUME NEW i \in Ifaces, NEW n \in RxCounts \cup TxCounts, Traffic(i, n)
      PROVE  rx'[y] + tx'[y] >= rx[y] + tx[y] /\ UNCHANGED <<row, iface, username>>
  <2>1. n \in Nat
    BY PptpConstants
  <2> QED
    BY <1>3, <1>t, <2>1 DEF Traffic
<1>4. CASE Cron \/ CronDies
  <2>1. UNCHANGED sessions
    BY <1>4 DEF Cron, CronDies, CronStart, CronRead, CronWrite, CronSelectLimit, CronSelectCredit,
                CronKill, CronClose, CronEnd
  <2>2. row'[y] # "unborn"
    BY <1>4, <1>t DEF Cron, CronDies, CronStart, CronRead, CronWrite, CronSelectLimit,
                CronSelectCredit, CronKill, CronClose, CronEnd
  <2> QED
    BY <1>t, <2>1, <2>2
<1>5. ASSUME NEW i \in Ifaces, Hangup(i) \/ ScriptFails(i) \/ PppdDies(i)
      PROVE  UNCHANGED <<sessions, row>>
  BY <1>5 DEF Hangup, ScriptFails, PppdDies
<1>6. CASE UNCHANGED vars
  BY <1>6, <1>t DEF vars
<1> QED
  BY <1>1, <1>2, <1>3, <1>4, <1>5, <1>6, <1>t DEF Next

\* What an interface carried stays carried.
LEMMA CarriedStays ==
  ASSUME IInv, [Next]_vars, NEW i \in Ifaces, NEW n \in Int, Carried(i, n)
  PROVE  Carried(i, n)'
<1>1. PICK y \in Sessions : row[y] # "unborn" /\ iface[y] = i /\ rx[y] + tx[y] >= n
  BY DEF Carried
<1>2. rx \in [Sessions -> Nat] /\ tx \in [Sessions -> Nat] /\ TypeOK'
  BY TypeInductive DEF IInv, TypeOK
<1>3. rx' \in [Sessions -> Nat] /\ tx' \in [Sessions -> Nat]
  BY <1>2 DEF TypeOK
<1>4. row'[y] # "unborn" /\ iface'[y] = i /\ rx'[y] + tx'[y] >= rx[y] + tx[y]
  BY <1>1, SessionsGrow
<1> QED
  BY <1>1, <1>2, <1>3, <1>4 DEF Carried

LEMMA SeenInitial == Init => SeenInv
BY DEF Init, SeenInv, Open, IdleCron

\* Every step keeps SeenInv: only CronWrite writes an open row, and only
\* IpUpInsert opens one.
LEMMA SeenInductive == IInv /\ SeenInv /\ [Next]_vars => SeenInv'
<1> SUFFICES ASSUME IInv, SeenInv, [Next]_vars PROVE SeenInv'
  OBVIOUS
<1> USE DEF Open, sessions, tables, history
<1>t. /\ LinkInv /\ RowInv /\ CronInv
      /\ link \in [Ifaces -> LinkType] /\ \A i \in Ifaces : link[i].s \in Sessions
      /\ iface \in [Sessions -> Ifaces]
      /\ row \in [Sessions -> {"unborn", "none", "open", "closed"}]
      /\ traffic \in [Sessions -> Int \cup {NULL}]
      /\ rx \in [Sessions -> Nat] /\ tx \in [Sessions -> Nat]
      /\ cron \in CronType /\ cron.if \in Ifaces /\ cron.val \in Int
      /\ cron.ended \subseteq Sessions
  BY DEF IInv, Inv, TypeOK, LinkType, CronType
\* The session a row belongs to stays where it is.
<1>i. \A x \in Sessions : row[x] # "unborn" => iface'[x] = iface[x]
  BY SessionsGrow
\* The three parts follow if rows, traffic and the pending number change only
\* as follows.
<1>s. ASSUME \A x \in Sessions : row'[x] \in {"unborn", "none"} =>
               row[x] \in {"unborn", "none"} /\ traffic'[x] = traffic[x],
             \A x \in Sessions : (row'[x] = "open" /\ traffic'[x] # NULL) =>
               /\ row[x] # "unborn"
               /\ traffic'[x] \in Int /\ Carried(iface[x], traffic'[x]),
             cron'.pc = "write" => /\ cron'.if \in Ifaces /\ cron'.val \in Int
                                   /\ Carried(cron'.if, cron'.val)
      PROVE  SeenInv'
  <2>1. \A x \in Sessions : row'[x] \in {"unborn", "none"} => traffic'[x] = NULL
    BY <1>s DEF SeenInv
  <2>2. ASSUME NEW x \in Sessions, row'[x] = "open", traffic'[x] # NULL
        PROVE  Carried(iface[x], traffic[x])'
    <3>1. /\ row[x] # "unborn" /\ iface[x] \in Ifaces
          /\ traffic'[x] \in Int /\ Carried(iface[x], traffic'[x])
      BY <1>s, <1>t, <2>2
    <3>2. \A i \in Ifaces, n \in Int : Carried(i, n) => Carried(i, n)'
      BY CarriedStays
    <3>3. iface'[x] = iface[x]
      BY <1>i, <3>1
    <3> QED
      BY <3>1, <3>2, <3>3 DEF Carried
  <2>3. ASSUME cron'.pc = "write" PROVE Carried(cron.if, cron.val)'
    <3>1. cron'.if \in Ifaces /\ cron'.val \in Int /\ Carried(cron'.if, cron'.val)
      BY <1>s, <2>3
    <3>2. \A i \in Ifaces, n \in Int : Carried(i, n) => Carried(i, n)'
      BY CarriedStays
    <3> QED
      BY <3>1, <3>2 DEF Carried
  <2> QED
    BY <2>1, <2>2, <2>3 DEF SeenInv
\* What the second assumption of <1>s says of rows that were open before.
<1>o. \A x \in Sessions : (row[x] = "open" /\ traffic[x] # NULL) =>
        traffic[x] \in Int /\ Carried(iface[x], traffic[x])
  BY <1>t DEF SeenInv
<1>w. cron.pc = "write" => cron.if \in Ifaces /\ cron.val \in Int /\ Carried(cron.if, cron.val)
  BY <1>t DEF SeenInv
<1>1. ASSUME NEW i \in Ifaces, NEW s \in Sessions, NEW u \in Users, LinkUp(i, s, u)
      PROVE  SeenInv'
  BY <1>1, <1>t, <1>s, <1>o, <1>w DEF LinkUp
<1>2. ASSUME NEW i \in Ifaces, Script(i) PROVE SeenInv'
  <2>1. CASE IpUpClose(i)
    BY <2>1, <1>t, <1>s, <1>o, <1>w DEF IpUpClose
  <2>2. CASE IpUpInsert(i)
    <3>1. link[i].s \in Sessions /\ row[link[i].s] = "none" /\ traffic[link[i].s] = NULL
      BY <2>2, <1>t DEF IpUpInsert, RowInv, SeenInv
    <3> QED
      BY <2>2, <3>1, <1>t, <1>s, <1>o, <1>w DEF IpUpInsert
  <2>3. CASE IpDownClose(i)
    <3>1. \A x \in Sessions : row'[x] # "closed" => row'[x] = row[x] /\ traffic'[x] = traffic[x]
      BY <2>3, <1>t DEF IpDownClose
    <3>2. cron' = cron
      BY <2>3 DEF IpDownClose
    <3> QED
      BY <3>1, <3>2, <1>t, <1>s, <1>o, <1>w
  <2>4. CASE IpDownCharge(i)
    BY <2>4, <1>t, <1>s, <1>o, <1>w DEF IpDownCharge
  <2> QED
    BY <1>2, <2>1, <2>2, <2>3, <2>4 DEF Script
<1>3. ASSUME NEW i \in Ifaces, NEW n \in RxCounts \cup TxCounts, Traffic(i, n) PROVE SeenInv'
  BY <1>3, <1>t, <1>s, <1>o, <1>w DEF Traffic
<1>4. ASSUME NEW i \in Ifaces, Hangup(i) \/ ScriptFails(i) \/ PppdDies(i) PROVE SeenInv'
  BY <1>4, <1>t, <1>s, <1>o, <1>w DEF Hangup, ScriptFails, PppdDies
\* The counters are those of the session on the interface.
<1>5. ASSUME NEW i \in Ifaces, CronRead(i) PROVE SeenInv'
  <2>1. ASSUME Live(i)
        PROVE  cron'.if = i /\ cron'.val \in Int /\ Carried(i, cron'.val)
    <3>1. cron'.if = i /\ cron'.val = rx[link[i].s] + tx[link[i].s]
      BY <1>5, <2>1, <1>t DEF CronRead, CronType
    <3>2. link[i].s \in Sessions /\ row[link[i].s] # "unborn" /\ iface[link[i].s] = i
      BY <2>1, <1>t DEF LinkInv
    <3>3. rx[link[i].s] \in Nat /\ tx[link[i].s] \in Nat
      BY <3>2, <1>t
    <3> QED
      BY <3>1, <3>2, <3>3 DEF Carried
  <2>2. ASSUME ~Live(i) PROVE cron'.pc = "poll"
    BY <1>5, <2>2, <1>t DEF CronRead, CronType
  <2>3. row' = row /\ traffic' = traffic
    BY <1>5 DEF CronRead
  <2> QED
    BY <2>1, <2>2, <2>3, <1>t, <1>s, <1>o
<1>6. CASE CronWrite
  <2>1. cron.pc = "write" /\ cron'.pc = "poll" /\ row' = row
    BY <1>6, <1>t DEF CronWrite, CronType
  <2>2. \A x \in Sessions : traffic'[x] = IF iface[x] = cron.if /\ row[x] = "open"
                                          THEN cron.val ELSE traffic[x]
    BY <1>6 DEF CronWrite
  <2> QED
    BY <2>1, <2>2, <1>t, <1>s, <1>o, <1>w DEF SeenInv
<1>7. ASSUME NEW s \in Sessions, CronClose(s) PROVE SeenInv'
  <2>1. row[s] \in {"open", "closed"} /\ cron'.pc = "credit"
    BY <1>7, <1>t DEF CronClose, CronInv, CronType
  <2> QED
    BY <1>7, <2>1, <1>t, <1>s, <1>o DEF CronClose
<1>8. CASE CronStart \/ CronSelectLimit \/ CronSelectCredit \/ CronEnd \/ CronDies
  <2>i. IdleCron \in CronType /\ IdleCron.pc = "idle"
    BY IdleType DEF IdleCron
  <2>1. cron'.pc # "write"
    BY <1>8, <1>t, <2>i DEF CronStart, CronSelectLimit, CronSelectCredit, CronEnd, CronDies, CronType
  <2>2. row' = row /\ traffic' = traffic
    BY <1>8 DEF CronStart, CronSelectLimit, CronSelectCredit, CronEnd, CronDies
  <2> QED
    BY <2>1, <2>2, <1>t, <1>s, <1>o
<1>9. ASSUME NEW s \in Sessions, CronKill(s) PROVE SeenInv'
  <2>1. cron'.pc = cron.pc /\ cron'.if = cron.if /\ cron'.val = cron.val
    BY <1>9, <1>t DEF CronKill, CronType
  <2>2. row' = row /\ traffic' = traffic
    BY <1>9 DEF CronKill
  <2> QED
    BY <2>1, <2>2, <1>t, <1>s, <1>o, <1>w
<1>10. CASE UNCHANGED vars
  BY <1>10, <1>t, <1>s, <1>o, <1>w DEF vars
<1> QED
  BY <1>1, <1>2, <1>3, <1>4, <1>5, <1>6, <1>7, <1>8, <1>9, <1>10 DEF Next, Cron

\* The cron job selects a session only for what its interface carried.
LEMMA SelectedForTraffic ==
  ASSUME IInv, SeenInv, [Next]_vars, NEW s \in cron'.ended, s \notin cron.ended
  PROVE  \E x \in Sessions :
           /\ row[x] # "unborn" /\ iface[x] = iface[s]
           /\ rx[x] + tx[x] > Limit \/ rx[x] + tx[x] > credit[username[s]]
<1> USE DEF sessions, tables, history
<1>t. /\ cron \in CronType /\ rx \in [Sessions -> Nat] /\ tx \in [Sessions -> Nat]
      /\ traffic \in [Sessions -> Int \cup {NULL}] /\ credit \in [Users -> Int]
      /\ username \in [Sessions -> Users] /\ Limit \in Int
  BY PptpConstants DEF IInv, TypeOK, CronType
<1>1. \/ CronSelectLimit /\ s \in Sessions /\ Open(s) /\ traffic[s] # NULL /\ traffic[s] > Limit
      \/ CronSelectCredit /\ s \in Sessions /\ Overdrawn(s)
  <2>1. cron' # cron
    OBVIOUS
  <2>2. Cron \/ CronDies
    BY <2>1 DEF Next, Script, vars, LinkUp, IpUpClose, IpUpInsert, IpDownClose, IpDownCharge,
           Hangup, ScriptFails, PppdDies, Traffic
  <2>i. IdleCron \in CronType /\ IdleCron.ended = {}
    BY IdleType DEF IdleCron
  <2>3. ~CronStart /\ ~CronEnd /\ ~CronDies
    BY <2>i DEF CronStart, CronEnd, CronDies, CronType
  <2>4. ~CronWrite /\ \A i \in Ifaces : ~CronRead(i)
    BY <1>t DEF CronWrite, CronRead, CronType
  <2>5. \A x \in Sessions : ~CronKill(x) /\ ~CronClose(x)
    BY <1>t DEF CronKill, CronClose, CronType
  <2>6. CronSelectLimit \/ CronSelectCredit
    BY <2>2, <2>3, <2>4, <2>5 DEF Cron
  <2>7. ASSUME CronSelectLimit
        PROVE  s \in Sessions /\ Open(s) /\ traffic[s] # NULL /\ traffic[s] > Limit
    <3>1. cron'.ended = {x \in Sessions : Open(x) /\ traffic[x] # NULL /\ traffic[x] > Limit}
      BY <1>t, <2>7 DEF CronSelectLimit, CronType
    <3> QED
      BY <3>1
  <2>8. ASSUME CronSelectCredit PROVE s \in Sessions /\ Overdrawn(s)
    <3>1. cron'.ended = cron.ended \cup {x \in Sessions : Overdrawn(x)}
      BY <1>t, <2>8 DEF CronSelectCredit, CronType
    <3> QED
      BY <3>1
  <2> QED
    BY <2>6, <2>7, <2>8
<1>2. /\ s \in Sessions /\ Open(s) /\ traffic[s] \in Int
      /\ traffic[s] > Limit \/ traffic[s] > credit[username[s]]
  BY <1>1, <1>t DEF Overdrawn
<1>3. PICK x \in Sessions : row[x] # "unborn" /\ iface[x] = iface[s] /\ rx[x] + tx[x] >= traffic[s]
  BY <1>2, PptpConstants DEF SeenInv, Carried
<1>4. rx[x] + tx[x] \in Int /\ credit[username[s]] \in Int
  BY <1>2, <1>t
<1> QED
  BY <1>2, <1>3, <1>4, <1>t

\* The cron job selects a session, to kill its pppd and close its row, for what
\* this session or an earlier one on its interface carried, never for another
\* interface's traffic, for any number of sessions and whatever happens between
\* the job's ifconfig and its UPDATE.
THEOREM CutForInterface == Spec => CutForItsInterface
<1>1. Spec => [](IInv /\ SeenInv)
  <2>1. Init => IInv /\ SeenInv
    BY TypeInitial, InvInitial, SeenInitial DEF IInv
  <2>2. IInv /\ SeenInv /\ [Next]_vars => (IInv /\ SeenInv)'
    BY TypeInductive, InvInductive, SeenInductive DEF IInv
  <2> QED
    BY <2>1, <2>2, PTL DEF Spec
<1>2. IInv /\ SeenInv /\ [Next]_vars =>
        [\A s \in cron'.ended \ cron.ended :
           \E x \in Sessions :
             /\ row[x] # "unborn" /\ iface[x] = iface[s]
             /\ rx[x] + tx[x] > Limit \/ rx[x] + tx[x] > credit[username[s]]]_vars
  BY SelectedForTraffic
<1> QED
  BY <1>1, <1>2, PTL DEF Spec, CutForItsInterface
=============================================================================
