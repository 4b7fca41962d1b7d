------------------------- MODULE ExpiryTicketProofs -------------------------
(***************************************************************************)
(* Proofs about two parts of the site that share no state: Expiry, for any *)
(* set of users, any dates and any grace period, and Tickets, for any      *)
(* number of requests, threads, messages and deaths.                       *)
(***************************************************************************)
EXTENDS Expiry, Tickets, TLAPS

\* What the job still has to suspend was overdue when it was selected: it still
\* is, for time only moves forward, or it has been redated since.
TodoInv == job.pc = "suspend" => \A u \in job.todo : Overdue(u) \/ u \in touched

\* The redated accounts of the second SELECT are among those of the first.
MovedInv == touched \subseteq moved /\ (job.pc = "idle" => moved = {})

\* A run takes less than the grace period, so what is overdue during the run had
\* expired when the run selected whom to mail.
MailInv ==
  /\ \A u \in Users : notice[u] # NULL => notice[u] <= today
  /\ job.pc # "idle" =>
       /\ job.day <= today /\ today <= job.day + Grace
       /\ \A u \in Users : (expire_at[u] # NULL /\ expire_at[u] < job.day /\ u \notin moved)
                              => notice[u] # NULL \/ (job.pc = "mail" /\ u \in job.todo)

\* A run that came in time has mailed in time.
PunctualInv ==
  \A u \in punctual : expire_at[u] # NULL /\ notice[u] # NULL /\ notice[u] <= expire_at[u] + 1

Inv == TypeOK /\ TodoInv /\ MovedInv /\ MailInv /\ PunctualInv /\ EternalOnlyByAdmin

LEMMA InitInv == Init => Inv
  BY ExpiryConstants, SMT
  DEF Init, Inv, TypeOK, TodoInv, MovedInv, MailInv, PunctualInv, EternalOnlyByAdmin, NoJob, JobType

\* Redate writes a day, never NULL; the account becomes a redated one and what
\* was said about the old date is forgotten.
LEMMA RedateStep ==
  ASSUME Inv, NEW u \in Users, NEW d \in Int, Redate(u, d),
         account_state' \in [Users -> {"ACTIVE", "DISABLED"}],
         \A v \in Users : v # u => account_state'[v] = account_state[v],
         UNCHANGED <<today, job, crashes>>
  PROVE  Inv' /\ \A v \in Users : expire_at'[v] = NULL => expire_at[v] = NULL /\ v # u
<1> DEFINE from == IF expire_at[u] = NULL THEN today ELSE expire_at[u]
<1>1. /\ from \in Int /\ from + d \in 0..LastDate
      /\ expire_at' = [expire_at EXCEPT ![u] = from + d]
  BY ExpiryConstants DEF Inv, TypeOK, Redate
<1> HIDE DEF from
<1>2. \A v \in Users : expire_at'[v] = IF v = u THEN from + d ELSE expire_at[v]
  BY <1>1 DEF Inv, TypeOK
<1>n. /\ \A v \in Users : notice'[v] = IF v = u THEN NULL ELSE notice[v]
      /\ punctual' = punctual \ {u}
  BY DEF Inv, TypeOK, Redate
<1>3. TypeOK'
  <2>1. expire_at' \in [Users -> (0..LastDate) \cup {NULL}]
    BY <1>1 DEF Inv, TypeOK
  <2>2. notice' \in [Users -> (0..LastDay) \cup {NULL}] /\ punctual' \in SUBSET Users
    BY ExpiryConstants DEF Inv, TypeOK, Redate
  <2>4. /\ touched' \in SUBSET Users /\ moved' \in SUBSET Users
        /\ dated' \in SUBSET Users /\ reactivated' \in SUBSET Users
    BY DEF Inv, TypeOK, Redate
  <2> QED BY <2>1, <2>2, <2>4 DEF Inv, TypeOK
<1>4. TodoInv'
  BY <1>2, ExpiryConstants DEF Inv, TypeOK, JobType, TodoInv, Redate, Overdue
<1>m. MovedInv'
  BY DEF Inv, MovedInv, Redate
<1>5. MailInv'
  BY <1>2, <1>n, ExpiryConstants DEF Inv, TypeOK, JobType, MailInv, Redate
<1>7. from + d # NULL
  BY <1>1, ExpiryConstants
<1>6. PunctualInv'
  BY <1>2, <1>n DEF Inv, TypeOK, PunctualInv
<1>8. EternalOnlyByAdmin'
  <2> SUFFICES ASSUME NEW v \in Users, v \in dated', expire_at'[v] = NULL,
                      account_state'[v] = "ACTIVE"
               PROVE  v \in reactivated'
    BY DEF EternalOnlyByAdmin
  <2>1. v # u
    BY <1>2, <1>7
  <2> QED BY <2>1, <1>2 DEF Inv, EternalOnlyByAdmin, Redate
<1> QED BY <1>2, <1>3, <1>4, <1>m, <1>5, <1>6, <1>7, <1>8 DEF Inv

\* Every step of the job, the pages and the clock preserves the invariant.
LEMMA NextInv == Inv /\ [Next]_vars => Inv'
<1> SUFFICES ASSUME Inv, [Next]_vars PROVE Inv'
  OBVIOUS
<1> USE ExpiryConstants
<1>1. CASE SelectExpired
  <2>1. TypeOK'
    <3>1. {u \in Users : Expired(u)} \in SUBSET Users /\ today \in Nat
      BY DEF Inv, TypeOK
    <3>2. job' \in JobType
      BY <1>1, <3>1 DEF SelectExpired, JobType
    <3> QED BY <1>1, <3>2 DEF Inv, TypeOK, SelectExpired, login
  <2>2. TodoInv' /\ MovedInv'
    BY <1>1 DEF Inv, TodoInv, MovedInv, SelectExpired
  <2>3. MailInv'
    BY <1>1 DEF Inv, TypeOK, MailInv, SelectExpired, Expired, login
  <2>4. PunctualInv' /\ EternalOnlyByAdmin'
    BY <1>1 DEF Inv, PunctualInv, EternalOnlyByAdmin, SelectExpired, login
  <2> QED BY <2>1, <2>2, <2>3, <2>4 DEF Inv
<1>2. ASSUME NEW u \in Users, Mail(u) PROVE Inv'
  <2>j. /\ job' \in JobType /\ job'.pc = "mail" /\ job'.day = job.day
        /\ job'.todo = job.todo \ {u} /\ job.pc = "mail"
    BY <1>2 DEF Inv, TypeOK, JobType, Mail
  <2>n. /\ notice' \in [Users -> (0..LastDay) \cup {NULL}] /\ notice'[u] # NULL
        /\ notice'[u] = (IF notice[u] = NULL THEN today ELSE notice[u])
        /\ \A v \in Users : v # u => notice'[v] = notice[v]
    BY <1>2 DEF Inv, TypeOK, Mail
  <2>1. TypeOK' BY <1>2, <2>j, <2>n DEF Inv, TypeOK, Mail, login
  <2>2. TodoInv' /\ MovedInv'
    BY <1>2, <2>j DEF Inv, TodoInv, MovedInv, Mail
  <2>3. MailInv'
    BY <1>2, <2>j, <2>n DEF Inv, TypeOK, MailInv, Mail, login
  <2>4. PunctualInv'
    BY <1>2, <2>n DEF Inv, TypeOK, PunctualInv, Mail, login
  <2>5. EternalOnlyByAdmin'
    BY <1>2 DEF Inv, EternalOnlyByAdmin, Mail, login
  <2> QED BY <2>1, <2>2, <2>3, <2>4, <2>5 DEF Inv
<1>3. CASE SelectOverdue
  <2>1. TypeOK' BY <1>3 DEF Inv, TypeOK, SelectOverdue, JobType, login
  <2>2. TodoInv' /\ MovedInv'
    BY <1>3 DEF Inv, TypeOK, JobType, TodoInv, MovedInv, SelectOverdue, Overdue, login
  <2>3. MailInv'
    BY <1>3 DEF Inv, TypeOK, JobType, MailInv, SelectOverdue, login
  <2>4. PunctualInv'
    <3>1. ASSUME NEW u \in Users, Punctual(u)
          PROVE  expire_at[u] # NULL /\ notice[u] # NULL /\ notice[u] <= expire_at[u] + 1
      BY <1>3, <3>1 DEF Inv, TypeOK, MailInv, Punctual, SelectOverdue
    <3> QED BY <1>3, <3>1 DEF Inv, PunctualInv, SelectOverdue, login
  <2>5. EternalOnlyByAdmin'
    BY <1>3 DEF Inv, EternalOnlyByAdmin, SelectOverdue, login
  <2> QED BY <2>1, <2>2, <2>3, <2>4, <2>5 DEF Inv
<1>4. ASSUME NEW u \in Users, Suspend(u) PROVE Inv'
  <2>1. TypeOK' BY <1>4 DEF Inv, TypeOK, Suspend, JobType
  <2>2. TodoInv' /\ MovedInv'
    BY <1>4 DEF Inv, TypeOK, JobType, TodoInv, MovedInv, Suspend, Overdue
  <2>3. MailInv'
    BY <1>4 DEF Inv, TypeOK, JobType, MailInv, Suspend
  <2>4. PunctualInv'
    BY <1>4 DEF Inv, TypeOK, PunctualInv, Suspend
  <2>5. EternalOnlyByAdmin'
    BY <1>4 DEF Inv, TypeOK, EternalOnlyByAdmin, Suspend
  <2> QED BY <2>1, <2>2, <2>3, <2>4, <2>5 DEF Inv
<1>5. CASE JobEnds \/ JobDies
  <2>1. JobOver /\ crashes' \in 0..MaxCrashes
    BY <1>5 DEF Inv, TypeOK, JobEnds, JobDies
  <2> QED BY <2>1 DEF Inv, TypeOK, JobOver, NoJob, JobType, login, TodoInv, MovedInv, MailInv,
                      PunctualInv, EternalOnlyByAdmin
<1>6. CASE Tick
  <2>1. TypeOK' BY <1>6 DEF Inv, TypeOK, Tick, login, history
  <2>2. TodoInv' /\ MovedInv'
    BY <1>6 DEF Inv, TypeOK, JobType, TodoInv, MovedInv, Tick, Overdue, login, history
  <2>3. MailInv'
    BY <1>6 DEF Inv, TypeOK, JobType, MailInv, Tick, login, history
  <2>4. PunctualInv' /\ EternalOnlyByAdmin'
    BY <1>6 DEF Inv, PunctualInv, EternalOnlyByAdmin, Tick, login, history
  <2> QED BY <2>1, <2>2, <2>3, <2>4 DEF Inv
<1>7. ASSUME NEW u \in Users, CouponCredit(u) PROVE Inv'
  <2>1. /\ account_state' \in [Users -> {"ACTIVE", "DISABLED"}]
        /\ \A v \in Users : v # u => account_state'[v] = account_state[v]
    BY <1>7 DEF CouponCredit, Inv, TypeOK
  <2> QED BY <1>7, <2>1, RedateStep DEF CouponCredit
<1>8. ASSUME NEW u \in Users, NEW d \in Extensions, ChangeUserInfo(u, d) PROVE Inv'
  <2>1. /\ account_state' \in [Users -> {"ACTIVE", "DISABLED"}]
        /\ \A v \in Users : v # u => account_state'[v] = account_state[v]
    BY <1>8 DEF ChangeUserInfo, Inv, TypeOK
  <2> QED BY <1>8, <2>1, RedateStep DEF ChangeUserInfo
<1>9. ASSUME NEW u \in Users, Activate(u) PROVE Inv'
  <2>1. TypeOK' BY <1>9 DEF Inv, TypeOK, Activate
  <2>2. TodoInv' /\ MovedInv' /\ MailInv' /\ PunctualInv'
    BY <1>9 DEF Inv, TodoInv, MovedInv, MailInv, PunctualInv, Activate, Overdue
  <2>3. EternalOnlyByAdmin'
    BY <1>9 DEF Inv, TypeOK, EternalOnlyByAdmin, Activate
  <2> QED BY <2>1, <2>2, <2>3 DEF Inv
<1>10. ASSUME NEW u \in Users, NEW active \in BOOLEAN, ChangeUserState(u, active) PROVE Inv'
  <2>1. CASE Activate(u) BY <2>1, <1>9
  <2>2. CASE /\ account_state' = [account_state EXCEPT ![u] = "DISABLED"]
             /\ UNCHANGED <<expire_at, today, job, history, crashes>>
    <3>1. TypeOK' BY <2>2 DEF Inv, TypeOK, history
    <3>2. TodoInv' /\ MovedInv' /\ MailInv' /\ PunctualInv'
      BY <2>2 DEF Inv, TodoInv, MovedInv, MailInv, PunctualInv, Overdue, history
    <3>3. EternalOnlyByAdmin'
      BY <2>2 DEF Inv, TypeOK, EternalOnlyByAdmin, history
    <3> QED BY <3>1, <3>2, <3>3 DEF Inv
  <2> QED BY <1>10, <2>1, <2>2 DEF ChangeUserState
<1>11. CASE UNCHANGED vars
  BY <1>11 DEF vars, login, history, Inv, TypeOK, TodoInv, MovedInv, MailInv, PunctualInv,
               EternalOnlyByAdmin, Overdue
<1> QED
  BY <1>1, <1>2, <1>3, <1>4, <1>5, <1>6, <1>7, <1>8, <1>9, <1>10, <1>11
  DEF Next, JobStep, Web, OnChangeCredit

\* The variables keep their types: dates stay within the calendar.
THEOREM TypeCorrect == Spec => []TypeOK
<1>1. Inv => TypeOK BY DEF Inv
<1> QED BY <1>1, InitInv, NextInv, PTL DEF Spec

\* Only the administrator's pages make an account that had a date eternal.
THEOREM Eternal == Spec => []EternalOnlyByAdmin
<1>1. Inv => EternalOnlyByAdmin BY DEF Inv
<1> QED BY <1>1, InitInv, NextInv, PTL DEF Spec

\* Only Suspend takes a date, and it takes it from an account of the job's list.
LEMMA DateTaken ==
  ASSUME Inv, [Next]_vars, NEW u \in Users, expire_at[u] # NULL, expire_at'[u] = NULL
  PROVE  job.pc = "suspend" /\ u \in job.todo
<1>1. ASSUME NEW v \in Users, Suspend(v) PROVE job.pc = "suspend" /\ u \in job.todo
  BY <1>1 DEF Suspend, Inv, TypeOK
<1>2. ASSUME NEW v \in Users, CouponCredit(v) PROVE FALSE
  <2>1. /\ account_state' \in [Users -> {"ACTIVE", "DISABLED"}]
        /\ \A w \in Users : w # v => account_state'[w] = account_state[w]
    BY <1>2 DEF CouponCredit, Inv, TypeOK
  <2> QED BY <1>2, <2>1, RedateStep, ExpiryConstants DEF CouponCredit
<1>3. ASSUME NEW v \in Users, NEW d \in Extensions, ChangeUserInfo(v, d) PROVE FALSE
  <2>1. /\ account_state' \in [Users -> {"ACTIVE", "DISABLED"}]
        /\ \A w \in Users : w # v => account_state'[w] = account_state[w]
    BY <1>3 DEF ChangeUserInfo, Inv, TypeOK
  <2> QED BY <1>3, <2>1, RedateStep, ExpiryConstants DEF ChangeUserInfo
<1>4. ASSUME expire_at' = expire_at PROVE FALSE
  BY <1>4
<1> QED
  BY <1>1, <1>2, <1>3, <1>4
  DEF Next, JobStep, Web, SelectExpired, Mail, SelectOverdue, JobEnds, JobDies, JobOver, Tick,
      OnChangeCredit, Activate, ChangeUserState, vars, login

\* The job suspends only accounts that are overdue at that moment or were redated
\* behind its back, for any number of accounts and any interleaving.
THEOREM OnlyOverdue == Spec => SuspendedIfOverdue
<1>1. Inv /\ [Next]_vars =>
        [\A u \in Users : (expire_at[u] # NULL /\ expire_at'[u] = NULL)
             => Overdue(u) \/ u \in touched]_vars
  BY DateTaken DEF Inv, TodoInv
<1> QED BY <1>1, InitInv, NextInv, PTL DEF Spec, SuspendedIfOverdue

\* Nobody is suspended without a mail, and a run that comes the day after the
\* date and gets through its mails gives the owner the whole grace period,
\* whatever its length and however the job, the clock and the pages interleave.
THEOREM Noticed == Spec => NoticeBeforeSuspension
<1>1. ASSUME Inv, [Next]_vars, NEW u \in Users, expire_at[u] # NULL, expire_at'[u] = NULL,
             u \notin moved
      PROVE  notice[u] # NULL /\ (u \in punctual => notice[u] + Grace <= today)
  <2>1. job.pc = "suspend" /\ Overdue(u)
    BY <1>1, DateTaken DEF Inv, TodoInv, MovedInv
  <2>2. /\ expire_at[u] \in Int /\ today \in Int /\ Grace \in Nat /\ job.day \in Int
        /\ expire_at[u] + Grace < today /\ today <= job.day + Grace
        /\ notice[u] # NULL => notice[u] \in Int
    BY <1>1, <2>1, ExpiryConstants DEF Inv, TypeOK, JobType, MailInv, Overdue
  <2>3. notice[u] # NULL
    BY <1>1, <2>1, <2>2 DEF Inv, MailInv
  <2>4. u \in punctual => notice[u] <= expire_at[u] + 1
    BY <1>1 DEF Inv, PunctualInv
  <2> QED BY <2>2, <2>3, <2>4
<1>2. Inv /\ [Next]_vars =>
        [\A u \in Users : (expire_at[u] # NULL /\ expire_at'[u] = NULL /\ u \notin moved)
             => /\ notice[u] # NULL
                /\ u \in punctual => notice[u] + Grace <= today]_vars
  BY <1>1
<1> QED BY <1>2, InitInv, NextInv, PTL DEF Spec, NoticeBeforeSuspension

-----------------------------------------------------------------------------
(* Tickets.                                                                *)

ThreadType == [by : Requests, status : Status]
MessageType == [thread_id : Nat, role : {"client", "pardiff"}, by : Requests]
PageType == [pc : {"idle", "inserted", "message", "mail", "status", "answered", "done"},
             op : {"new", "reply", "answer"}, thread : Nat, status : Status]

TicketTypes ==
  /\ ticket_threads \in Seq(ThreadType)
  /\ tickets \in Seq(MessageType)
  /\ req \in [Requests -> PageType]
  /\ mailed \subseteq [by : Requests, thread : Nat]

\* What the messages say of the threads: which have any, who wrote where, and
\* which end with an answer.
Rows == 1..Len(tickets)
Written == {<<tickets[i].by, tickets[i].thread_id>> : i \in Rows}
Listed == {tickets[i].thread_id : i \in Rows}
IsLast(i) == \A j \in Rows : tickets[j].thread_id = tickets[i].thread_id => j <= i
LastRows == {i \in Rows : IsLast(i)}
Answered == {tickets[i].thread_id : i \in {k \in LastRows : tickets[k].role = "pardiff"}}

KnownInv ==
  /\ \A t \in Threads : /\ req[ticket_threads[t].by].pc # "idle"
                        /\ t \notin Known => ticket_threads[t].status = "open"
  /\ Listed \subseteq Known
  /\ \A l \in mailed : l.thread \in Known /\ req[l.by].pc = "done"
  /\ \A r \in Requests : req[r].pc \notin {"idle", "inserted", "done"} => req[r].thread \in Known

\* Which pages are where: a client's or the support's.
PageInv ==
  \A r \in Requests :
    /\ req[r].pc \in {"message", "mail"} => req[r].op \in {"new", "reply"}
    /\ req[r].pc \in {"idle", "inserted"} => req[r].op = "new"
    /\ req[r].pc \in {"status", "answered"} => req[r].op = "answer"

\* The race: a page of the client about to write a message and one of the
\* support about to set the status.  Without it, the thread is still open when
\* the client writes, and the answer is still the last word when it is closed.
OverlapInv ==
  /\ \A r, q \in Requests :
       (/\ req[r].pc = "message" /\ req[q].pc = "status"
        /\ req[r].thread = req[q].thread) => req[r].thread \in overlapped
  /\ \A r \in Requests : req[r].thread \notin overlapped =>
       /\ req[r].pc = "message" => ticket_threads[req[r].thread].status = "open"
       /\ req[r].pc = "status" => req[r].thread \in Answered
  /\ \A t \in Threads \ overlapped : ticket_threads[t].status = "closed" => t \in Answered

\* A page that opens a thread works on its own, and has its message there when
\* it comes to the mail.
OwnInv ==
  /\ \A r \in Requests : (req[r].op = "new" /\ req[r].pc \in {"message", "mail"})
       => ticket_threads[req[r].thread].by = r
  /\ \A r \in Requests : req[r].pc = "mail" => <<r, req[r].thread>> \in Written
  /\ \A l \in mailed : req[l.by].op = "new" =>
       ticket_threads[l.thread].by = l.by /\ <<l.by, l.thread>> \in Written

TicketInv == TicketTypes /\ KnownInv /\ PageInv /\ OverlapInv /\ OwnInv

\* A page moves on without learning anything.
LEMMA PageGoto ==
  ASSUME TicketTypes, NEW r \in Requests, NEW pc \in {"inserted", "mail", "answered", "done"},
         Goto(r, pc)
  PROVE  /\ req' \in [Requests -> PageType]
         /\ req'[r].pc = pc /\ req'[r].op = req[r].op /\ req'[r].thread = req[r].thread
         /\ \A q \in Requests \ {r} : req'[q] = req[q]
BY DEF TicketTypes, Goto, PageType

\* A page takes up a thread.
LEMMA PageTakes ==
  ASSUME TicketTypes, NEW r \in Requests, NEW t \in Nat,
         NEW op \in {"new", "reply", "answer"},
         req' = [req EXCEPT ![r].pc = "message", ![r].op = op, ![r].thread = t]
  PROVE  /\ req' \in [Requests -> PageType]
         /\ req'[r].pc = "message" /\ req'[r].op = op /\ req'[r].thread = t
         /\ \A q \in Requests \ {r} : req'[q] = req[q]
<1> DEFINE k == [req[r] EXCEPT !.pc = "message", !.op = op, !.thread = t]
<1>1. req[r] \in PageType /\ req \in [Requests -> PageType]
  BY DEF TicketTypes
<1>2. k \in PageType /\ k.pc = "message" /\ k.op = op /\ k.thread = t
  BY <1>1 DEF PageType
<1>3. req' = [req EXCEPT ![r] = k]
  OBVIOUS
<1> QED
  BY <1>1, <1>2, <1>3

\* Without a new message, all that the messages say stays.
LEMMA NoMessage ==
  ASSUME UNCHANGED tickets
  PROVE  UNCHANGED <<Written, Listed, Answered>>
BY DEF Written, Listed, Answered, LastRows, IsLast, Rows

\* A new message is the last one of its thread and changes no other thread.
LEMMA NewMessage ==
  ASSUME TicketTypes, NEW e \in MessageType, tickets' = Append(tickets, e)
  PROVE  /\ tickets' \in Seq(MessageType)
         /\ Written \cup {<<e.by, e.thread_id>>} \subseteq Written'
         /\ Listed' \subseteq Listed \cup {e.thread_id}
         /\ Answered \ {e.thread_id} \subseteq Answered'
         /\ e.role = "pardiff" => e.thread_id \in Answered'
<1> DEFINE n == Len(tickets)
<1>1. /\ tickets' \in Seq(MessageType) /\ Len(tickets') = n + 1 /\ n \in Nat
      /\ \A i \in 1..n : tickets'[i] = tickets[i]
      /\ tickets'[n + 1] = e
  BY DEF TicketTypes
<1> HIDE DEF n
<1>2. Rows' = Rows \cup {n + 1} /\ Rows = 1..n /\ n + 1 \notin Rows
  BY <1>1 DEF Rows, n
<1>3. Written \cup {<<e.by, e.thread_id>>} \subseteq Written'
  BY <1>1, <1>2 DEF Written
<1>4. Listed' \subseteq Listed \cup {e.thread_id}
  BY <1>1, <1>2 DEF Listed
<1>5. n + 1 \in LastRows'
  BY <1>1, <1>2 DEF LastRows, IsLast
<1>6. ASSUME NEW i \in LastRows, tickets[i].thread_id # e.thread_id PROVE i \in LastRows'
  BY <1>1, <1>2, <1>6 DEF LastRows, IsLast
<1>7. ASSUME NEW t \in Answered, t # e.thread_id PROVE t \in Answered'
  <2>1. PICK i \in LastRows : tickets[i].role = "pardiff" /\ tickets[i].thread_id = t
    BY DEF Answered
  <2>2. tickets'[i] = tickets[i]
    BY <1>1, <1>2 DEF LastRows
  <2> QED
    BY <1>6, <1>7, <2>1, <2>2 DEF Answered
<1>8. e.role = "pardiff" => e.thread_id \in Answered'
  BY <1>1, <1>5 DEF Answered
<1> QED
  BY <1>1, <1>3, <1>4, <1>7, <1>8

\* Setting a status leaves the threads and their makers as they are.
LEMMA StatusSet ==
  ASSUME TicketTypes, NEW t \in Threads, NEW s \in Status,
         ticket_threads' = [ticket_threads EXCEPT ![t].status = s]
  PROVE  /\ ticket_threads' \in Seq(ThreadType) /\ Threads' = Threads
         /\ ticket_threads'[t].status = s
         /\ \A u \in Threads : ticket_threads'[u].by = ticket_threads[u].by
         /\ \A u \in Threads \ {t} : ticket_threads'[u] = ticket_threads[u]
<1>1. Len(ticket_threads) \in Nat /\ ticket_threads \in [1..Len(ticket_threads) -> ThreadType]
  BY DEF TicketTypes
<1>2. [ticket_threads[t] EXCEPT !.status = s] \in ThreadType
  BY <1>1 DEF Threads, ThreadType
<1>3. ticket_threads' \in Seq(ThreadType) /\ Len(ticket_threads') = Len(ticket_threads)
  BY <1>1, <1>2 DEF Threads, TicketTypes
<1> QED
  BY <1>1, <1>2, <1>3 DEF Threads, ThreadType

\* Every thread was made by a page, which has begun.
LEMMA Makers ==
  ASSUME TicketTypes, NEW t \in Threads
  PROVE  ticket_threads[t].by \in Requests
<1>1. ticket_threads \in [1..Len(ticket_threads) -> ThreadType]
  BY DEF TicketTypes
<1>2. ticket_threads[t] \in ThreadType
  BY <1>1 DEF Threads
<1> QED
  BY <1>2 DEF ThreadType

\* While no page returns to its beginning, the known threads stay known.
LEMMA KnownStays ==
  ASSUME TicketTypes, NEW r \in Requests,
         Threads \subseteq Threads',
         \A t \in Threads : ticket_threads'[t].by = ticket_threads[t].by,
         \A q \in Requests \ {r} : req'[q] = req[q],
         req'[r].pc = "inserted" => \A t \in Threads : ticket_threads[t].by # r
  PROVE  Known \subseteq Known'
<1> SUFFICES ASSUME NEW t \in Known PROVE t \in Known'
  OBVIOUS
<1>1. t \in Threads /\ req[ticket_threads[t].by].pc # "inserted"
  BY DEF Known
<1>0. ticket_threads[t].by \in Requests
  BY <1>1, Makers
<1>2. CASE ticket_threads[t].by = r
  BY <1>1, <1>2 DEF Known
<1>3. CASE ticket_threads[t].by # r
  BY <1>0, <1>1, <1>3 DEF Known
<1> QED
  BY <1>2, <1>3

\* A step of page r, which had not ended, that adds no thread.
LEMMA KnownKept ==
  ASSUME TicketTypes, KnownInv, NEW r \in Requests,
         req[r].pc # "done", req'[r].pc # "inserted", req'[r].pc # "idle",
         \A q \in Requests \ {r} : req'[q] = req[q],
         Threads' = Threads,
         \A t \in Threads : ticket_threads'[t].by = ticket_threads[t].by,
         \A t \in Threads \ Known : ticket_threads'[t].status \in {ticket_threads[t].status, "open"},
         Listed' \subseteq Listed \cup Known,
         req'[r].pc # "done" => req'[r].thread \in Known',
         \A l \in mailed' : l \in mailed \/ (l.by = r /\ req'[r].pc = "done" /\ l.thread \in Known)
  PROVE  Known \subseteq Known' /\ KnownInv'
<1>1. Known \subseteq Known'
  BY KnownStays
<1>2. ASSUME NEW t \in Threads'
      PROVE  /\ req'[ticket_threads'[t].by].pc # "idle"
             /\ t \notin Known' => ticket_threads'[t].status = "open"
  <2>1. ticket_threads[t].by \in Requests /\ req[ticket_threads[t].by].pc # "idle"
    BY Makers DEF KnownInv
  <2>2. t \notin Known => ticket_threads[t].status = "open"
    BY DEF KnownInv
  <2> QED
    BY <1>1, <2>1, <2>2
<1>3. Listed' \subseteq Known'
  BY <1>1 DEF KnownInv
<1>4. ASSUME NEW l \in mailed' PROVE l.thread \in Known' /\ req'[l.by].pc = "done"
  <2>1. CASE l \in mailed
    <3>1. l.by \in Requests /\ req[l.by].pc = "done" /\ l.thread \in Known
      BY <2>1 DEF TicketTypes, KnownInv
    <3> QED
      BY <1>1, <3>1
  <2>2. CASE l \notin mailed
    BY <1>1, <2>2
  <2> QED
    BY <2>1, <2>2
<1>5. ASSUME NEW q \in Requests, req'[q].pc \notin {"idle", "inserted", "done"}
      PROVE  req'[q].thread \in Known'
  BY <1>1, <1>5 DEF KnownInv
<1> QED
  BY <1>1, <1>2, <1>3, <1>4, <1>5 DEF KnownInv

\* A customer's link stays right: its page has ended, and what it wrote stays.
LEMMA LinksKept ==
  ASSUME TicketTypes, KnownInv, OwnInv, NEW r \in Requests, req[r].pc # "done",
         \A q \in Requests \ {r} : req'[q] = req[q],
         \A t \in Threads : ticket_threads'[t].by = ticket_threads[t].by,
         Written \subseteq Written',
         NEW l \in mailed, req'[l.by].op = "new"
  PROVE  ticket_threads'[l.thread].by = l.by /\ <<l.by, l.thread>> \in Written'
<1>1. l.by \in Requests /\ req[l.by].pc = "done" /\ l.thread \in Threads
  BY DEF TicketTypes, KnownInv, Known
<1>2. req'[l.by] = req[l.by]
  BY <1>1
<1> QED
  BY <1>1, <1>2 DEF OwnInv

LEMMA CreateNewKeeps ==
  ASSUME TicketInv, NEW r \in Requests, CreateNew(r) PROVE TicketInv'
<1> DEFINE e == [by |-> r, status |-> "open"]
           n == Len(ticket_threads)
<1>t. TicketTypes /\ KnownInv /\ PageInv /\ OverlapInv /\ OwnInv
  BY DEF TicketInv
<1>1. /\ req[r].pc = "idle" /\ ticket_threads' = Append(ticket_threads, e) /\ e \in ThreadType
      /\ tickets' = tickets /\ mailed' = mailed /\ overlapped' = overlapped
  BY DEF CreateNew, ThreadType, Status
<1>2. /\ req'[r].pc = "inserted" /\ req'[r].op = req[r].op /\ req'[r].thread = req[r].thread
      /\ \A q \in Requests \ {r} : req'[q] = req[q]
      /\ req' \in [Requests -> PageType]
  BY <1>t, PageGoto DEF CreateNew
<1>3. /\ n \in Nat /\ Len(ticket_threads') = n + 1 /\ ticket_threads'[n + 1] = e
      /\ \A t \in 1..n : ticket_threads'[t] = ticket_threads[t]
      /\ ticket_threads' \in Seq(ThreadType)
  BY <1>t, <1>1 DEF TicketTypes
<1>4. TicketTypes'
  BY <1>t, <1>1, <1>2, <1>3 DEF TicketTypes
<1>5. /\ \A t \in Threads' : t \in Threads \/ t = n + 1
      /\ Threads \subseteq Threads'
      /\ \A t \in Threads : ticket_threads'[t] = ticket_threads[t]
  BY <1>3 DEF Threads
<1>6. Known \subseteq Known'
  <2>1. \A t \in Threads : ticket_threads[t].by # r
    BY <1>t, <1>1 DEF KnownInv
  <2> QED
    BY <1>t, <1>2, <1>5, <2>1, KnownStays
<1>w. Written' = Written /\ Listed' = Listed /\ Answered' = Answered
  BY <1>1, NoMessage
<1>7. KnownInv'
  <2>1. ASSUME NEW t \in Threads'
        PROVE  /\ req'[ticket_threads'[t].by].pc # "idle"
               /\ t \notin Known' => ticket_threads'[t].status = "open"
    <3>1. CASE t \in Threads
      <4>1. ticket_threads[t].by \in Requests /\ req[ticket_threads[t].by].pc # "idle"
        BY <1>t, <3>1, Makers DEF KnownInv
      <4>2. t \notin Known => ticket_threads[t].status = "open"
        BY <1>t, <3>1 DEF KnownInv
      <4> QED
        BY <1>2, <1>5, <1>6, <3>1, <4>1, <4>2
    <3>2. CASE t = n + 1
      BY <1>2, <1>3, <3>2
    <3> QED
      BY <1>5, <3>1, <3>2
  <2>2. Listed' \subseteq Known'
    BY <1>t, <1>6, <1>w DEF KnownInv
  <2>3. \A l \in mailed' : l.thread \in Known' /\ req'[l.by].pc = "done"
    <3>1. \A l \in mailed : l.by \in Requests /\ l.by # r
      BY <1>t, <1>1 DEF KnownInv, TicketTypes
    <3> QED
      BY <1>t, <1>1, <1>2, <1>6, <3>1 DEF KnownInv
  <2>4. \A q \in Requests : req'[q].pc \notin {"idle", "inserted", "done"} => req'[q].thread \in Known'
    BY <1>t, <1>2, <1>6 DEF KnownInv
  <2> QED
    BY <2>1, <2>2, <2>3, <2>4 DEF KnownInv
<1>8. PageInv'
  BY <1>t, <1>1, <1>2 DEF PageInv
<1>k. \A q \in Requests : req'[q].pc \in {"message", "mail", "status"} =>
        /\ q # r /\ req'[q] = req[q] /\ req[q].thread \in Threads
        /\ ticket_threads'[req[q].thread] = ticket_threads[req[q].thread]
  BY <1>t, <1>2, <1>5 DEF KnownInv, Known
<1>9. OverlapInv'
  <2>1. \A t \in Threads' \ overlapped' : ticket_threads'[t].status = "closed" => t \in Answered'
    <3>1. ticket_threads'[n + 1].status = "open"
      BY <1>3
    <3> QED
      BY <1>t, <1>1, <1>5, <1>w, <3>1 DEF OverlapInv
  <2>2. \A q \in Requests : req'[q].thread \notin overlapped' =>
          /\ req'[q].pc = "message" => ticket_threads'[req'[q].thread].status = "open"
          /\ req'[q].pc = "status" => req'[q].thread \in Answered'
    <3> SUFFICES ASSUME NEW q \in Requests, req'[q].thread \notin overlapped'
                 PROVE  /\ req'[q].pc = "message" => ticket_threads'[req'[q].thread].status = "open"
                        /\ req'[q].pc = "status" => req'[q].thread \in Answered'
      OBVIOUS
    <3>1. ASSUME req'[q].pc = "message" PROVE ticket_threads'[req'[q].thread].status = "open"
      <4>1. req'[q] = req[q] /\ ticket_threads'[req[q].thread] = ticket_threads[req[q].thread]
        BY <1>k, <3>1
      <4> QED
        BY <1>t, <1>1, <3>1, <4>1 DEF OverlapInv
    <3>2. ASSUME req'[q].pc = "status" PROVE req'[q].thread \in Answered'
      <4>1. req'[q] = req[q]
        BY <1>k, <3>2
      <4> QED
        BY <1>t, <1>1, <1>w, <3>2, <4>1 DEF OverlapInv
    <3> QED
      BY <3>1, <3>2
  <2>3. \A p, q \in Requests :
          (/\ req'[p].pc = "message" /\ req'[q].pc = "status"
           /\ req'[p].thread = req'[q].thread) => req'[p].thread \in overlapped'
    BY <1>t, <1>1, <1>k DEF OverlapInv
  <2> QED
    BY <2>1, <2>2, <2>3 DEF OverlapInv
<1>10. OwnInv'
  <2>1. \A l \in mailed' : req'[l.by].op = "new" =>
          ticket_threads'[l.thread].by = l.by /\ <<l.by, l.thread>> \in Written'
    BY <1>t, <1>1, <1>2, <1>5, <1>w, LinksKept
  <2> QED
    BY <1>t, <1>w, <1>k, <2>1 DEF OwnInv
<1> QED
  BY <1>4, <1>7, <1>8, <1>9, <1>10 DEF TicketInv

\* What a step of page r must show, when it adds no thread, for the invariant.
LEMMA StepKeeps ==
  ASSUME TicketInv, NEW r \in Requests, TicketTypes',
         req[r].pc # "done", req'[r].pc # "inserted", req'[r].pc # "idle",
         \A q \in Requests \ {r} : req'[q] = req[q],
         Threads' = Threads,
         \A t \in Threads : ticket_threads'[t].by = ticket_threads[t].by,
         \A t \in Threads \ Known : ticket_threads'[t].status \in {ticket_threads[t].status, "open"},
         Listed' \subseteq Listed \cup Known, Written \subseteq Written',
         req'[r].pc # "done" => req'[r].thread \in Known',
         \A l \in mailed' : l \in mailed \/
           /\ l.by = r /\ req'[r].pc = "done" /\ l.thread \in Known
           /\ req'[r].op = "new" =>
                ticket_threads[l.thread].by = r /\ <<r, l.thread>> \in Written,
         /\ req'[r].pc \in {"message", "mail"} => req'[r].op \in {"new", "reply"}
         /\ req'[r].pc \in {"status", "answered"} => req'[r].op = "answer",
         (req'[r].op = "new" /\ req'[r].pc \in {"message", "mail"})
           => ticket_threads'[req'[r].thread].by = r,
         req'[r].pc = "mail" => <<r, req'[r].thread>> \in Written',
         OverlapInv'
  PROVE  TicketInv'
<1>1. TicketTypes /\ KnownInv /\ PageInv /\ OwnInv
  BY DEF TicketInv
<1>2. KnownInv'
  BY <1>1, KnownKept
<1>3. PageInv'
  BY <1>1 DEF PageInv
<1>4. OwnInv'
  <2>1. ASSUME NEW q \in Requests, req'[q].op = "new", req'[q].pc \in {"message", "mail"}
        PROVE  ticket_threads'[req'[q].thread].by = q
    <3>1. CASE q = r
      BY <2>1, <3>1
    <3>2. CASE q # r
      <4>1. req'[q] = req[q] /\ req[q].thread \in Threads
        BY <1>1, <2>1, <3>2 DEF KnownInv, Known
      <4> QED
        BY <1>1, <2>1, <4>1 DEF OwnInv
    <3> QED
      BY <3>1, <3>2
  <2>2. ASSUME NEW q \in Requests, req'[q].pc = "mail" PROVE <<q, req'[q].thread>> \in Written'
    <3>1. CASE q = r
      BY <2>2, <3>1
    <3>2. CASE q # r
      BY <1>1, <2>2, <3>2 DEF OwnInv
    <3> QED
      BY <3>1, <3>2
  <2>3. ASSUME NEW l \in mailed', req'[l.by].op = "new"
        PROVE  ticket_threads'[l.thread].by = l.by /\ <<l.by, l.thread>> \in Written'
    <3>1. CASE l \in mailed
      BY <1>1, <2>3, <3>1, LinksKept
    <3>2. CASE l \notin mailed
      <4>1. l.thread \in Threads
        BY <3>2 DEF Known
      <4> QED
        BY <2>3, <3>2, <4>1
    <3> QED
      BY <3>1, <3>2
  <2> QED
    BY <2>1, <2>2, <2>3 DEF OwnInv
<1> QED
  BY <1>2, <1>3, <1>4 DEF TicketInv

\* The race is untouched by a step after which page r neither writes a message
\* nor sets a status, and which leaves the threads and the messages alone.
LEMMA OverlapKept ==
  ASSUME OverlapInv, NEW r \in Requests, req'[r].pc \notin {"message", "status"},
         \A q \in Requests \ {r} : req'[q] = req[q],
         UNCHANGED <<ticket_threads, Answered, overlapped>>
  PROVE  OverlapInv'
<1>1. \A q \in Requests : req'[q].pc \in {"message", "status"} => req'[q] = req[q]
  OBVIOUS
<1>2. Threads' = Threads
  BY DEF Threads
<1> QED
  BY <1>1, <1>2 DEF OverlapInv

\* The id a page asks for is that of a thread nobody else knows: no page of the
\* support can be at work on it.
LEMMA InsertIdKeeps ==
  ASSUME TicketInv, NEW r \in Requests, InsertId(r) PROVE TicketInv'
<1>t. TicketTypes /\ KnownInv /\ PageInv /\ OverlapInv /\ OwnInv
  BY DEF TicketInv
<1>1. PICK t \in Threads :
        /\ ticket_threads[t].by = r
        /\ req' = [req EXCEPT ![r].pc = "message", ![r].thread = t]
  BY DEF InsertId, Threads
<1>2. /\ req[r].pc = "inserted" /\ ticket_threads' = ticket_threads /\ tickets' = tickets
      /\ mailed' = mailed /\ overlapped' = overlapped /\ t \in Nat
  BY DEF InsertId, Threads
<1>3. /\ req' \in [Requests -> PageType]
      /\ req'[r].pc = "message" /\ req'[r].op = req[r].op /\ req'[r].thread = t
      /\ \A q \in Requests \ {r} : req'[q] = req[q]
  <2> DEFINE k == [req[r] EXCEPT !.pc = "message", !.thread = t]
  <2>1. req[r] \in PageType /\ req \in [Requests -> PageType]
    BY <1>t DEF TicketTypes
  <2>2. k \in PageType /\ k.pc = "message" /\ k.op = req[r].op /\ k.thread = t
    BY <1>2, <2>1 DEF PageType
  <2>3. req' = [req EXCEPT ![r] = k]
    BY <1>1
  <2> QED
    BY <2>1, <2>2, <2>3
<1>4. TicketTypes' /\ Threads' = Threads
  BY <1>t, <1>2, <1>3 DEF TicketTypes, Threads
<1>w. Written' = Written /\ Listed' = Listed /\ Answered' = Answered
  BY <1>2, NoMessage
<1>5. t \notin Known /\ t \in Known' /\ ticket_threads[t].status = "open"
  BY <1>t, <1>1, <1>2, <1>3, <1>4 DEF Known, KnownInv
<1>6. OverlapInv'
  <2>1. \A q \in Requests : req'[q].pc = "status" => q # r /\ req'[q] = req[q] /\ req[q].thread # t
    BY <1>t, <1>3, <1>5 DEF KnownInv
  <2>2. \A q \in Requests : req'[q].pc = "message" => q = r \/ req'[q] = req[q]
    BY <1>3
  <2> QED
    BY <1>t, <1>2, <1>3, <1>4, <1>5, <1>w, <2>1, <2>2 DEF OverlapInv
<1>7. req[r].op = "new"
  BY <1>t, <1>2 DEF PageInv
<1>8. /\ \A u \in Threads : ticket_threads'[u].by = ticket_threads[u].by
      /\ \A u \in Threads \ Known : ticket_threads'[u].status = ticket_threads[u].status
      /\ \A l \in mailed' : l \in mailed
      /\ Listed' \subseteq Listed \cup Known /\ Written \subseteq Written'
      /\ ticket_threads'[req'[r].thread].by = r
  BY <1>1, <1>2, <1>3, <1>w
<1> QED
  BY <1>2, <1>3, <1>4, <1>5, <1>6, <1>7, <1>8, StepKeeps

\* A reply opens the thread before its message is there; a page of the support
\* that is about to set the status has met it.
LEMMA ReplyKeeps ==
  ASSUME TicketInv, NEW r \in Requests, NEW t \in Threads, Reply(r, t) PROVE TicketInv'
<1>t. TicketTypes /\ KnownInv /\ PageInv /\ OverlapInv /\ OwnInv
  BY DEF TicketInv
<1>1. /\ req[r].pc = "idle" /\ tickets' = tickets /\ mailed' = mailed /\ t \in Nat
      /\ ticket_threads' = [ticket_threads EXCEPT ![t].status = "open"]
      /\ overlapped' = overlapped \cup Meets(t, "answer") /\ t \in Known
  BY <1>t DEF Reply, Threads, KnownInv
<1>2. /\ req' \in [Requests -> PageType]
      /\ req'[r].pc = "message" /\ req'[r].op = "reply" /\ req'[r].thread = t
      /\ \A q \in Requests \ {r} : req'[q] = req[q]
  BY <1>t, <1>1, PageTakes DEF Reply
<1>3. /\ ticket_threads' \in Seq(ThreadType) /\ Threads' = Threads
      /\ ticket_threads'[t].status = "open"
      /\ \A u \in Threads : ticket_threads'[u].by = ticket_threads[u].by
      /\ \A u \in Threads \ {t} : ticket_threads'[u] = ticket_threads[u]
  BY <1>t, <1>1, StatusSet DEF Status
<1>4. TicketTypes'
  BY <1>t, <1>1, <1>2, <1>3 DEF TicketTypes
<1>w. Written' = Written /\ Listed' = Listed /\ Answered' = Answered
  BY <1>1, NoMessage
<1>5. Known \subseteq Known'
  BY <1>t, <1>2, <1>3, KnownStays
<1>6. OverlapInv'
  <2>1. \A q \in Requests : (req[q].pc = "status" /\ req[q].thread = t) => t \in overlapped'
    BY <1>t, <1>1 DEF PageInv, Meets, Running
  <2>2. \A q \in Requests : req'[q].pc = "status" => req'[q] = req[q]
    BY <1>2
  <2>3. \A q \in Requests : req'[q].pc = "message" => q = r \/ (req'[q] = req[q] /\ req[q].thread \in Threads)
    BY <1>t, <1>2 DEF KnownInv, Known
  <2>4. overlapped \subseteq overlapped'
    BY <1>1
  <2>5. \A p, q \in Requests :
          (/\ req'[p].pc = "message" /\ req'[q].pc = "status"
           /\ req'[p].thread = req'[q].thread) => req'[p].thread \in overlapped'
    BY <1>t, <1>2, <2>1, <2>2, <2>3, <2>4 DEF OverlapInv
  <2>6. \A q \in Requests : (req'[q].thread \notin overlapped' /\ req'[q].pc = "message")
          => ticket_threads'[req'[q].thread].status = "open"
    BY <1>t, <1>2, <1>3, <2>3, <2>4 DEF OverlapInv
  <2>7. \A q \in Requests : (req'[q].thread \notin overlapped' /\ req'[q].pc = "status")
          => req'[q].thread \in Answered'
    BY <1>t, <1>w, <2>2, <2>4 DEF OverlapInv
  <2>8. \A u \in Threads' \ overlapped' : ticket_threads'[u].status = "closed" => u \in Answered'
    BY <1>t, <1>3, <1>w, <2>4 DEF OverlapInv
  <2> QED
    BY <2>5, <2>6, <2>7, <2>8 DEF OverlapInv
<1>7. /\ \A u \in Threads \ Known : ticket_threads'[u].status \in {ticket_threads[u].status, "open"}
      /\ \A l \in mailed' : l \in mailed
      /\ Listed' \subseteq Listed \cup Known /\ Written \subseteq Written'
      /\ req'[r].thread \in Known'
  BY <1>1, <1>2, <1>3, <1>5, <1>w
<1> QED
  BY <1>1, <1>2, <1>3, <1>4, <1>6, <1>7, StepKeeps

\* The customer's message is the last one of an open thread, or of one that an
\* answer overlaps.
LEMMA InsertMessageKeeps ==
  ASSUME TicketInv, NEW r \in Requests, InsertMessage(r) PROVE TicketInv'
<1> DEFINE t == req[r].thread
           e == [thread_id |-> t, role |-> "client", by |-> r]
<1>t. TicketTypes /\ KnownInv /\ PageInv /\ OverlapInv /\ OwnInv
  BY DEF TicketInv
<1>1. /\ req[r].pc = "message" /\ ticket_threads' = ticket_threads /\ mailed' = mailed
      /\ overlapped' = overlapped /\ tickets' = Append(tickets, e) /\ t \in Known
  BY <1>t DEF InsertMessage, KnownInv
<1>2. /\ req' \in [Requests -> PageType]
      /\ req'[r].pc = "mail" /\ req'[r].op = req[r].op /\ req'[r].thread = t
      /\ \A q \in Requests \ {r} : req'[q] = req[q]
  BY <1>t, PageGoto DEF InsertMessage
<1>3. e \in MessageType
  BY <1>t DEF TicketTypes, PageType, MessageType
<1>4. /\ tickets' \in Seq(MessageType)
      /\ Written \cup {<<r, t>>} \subseteq Written'
      /\ Listed' \subseteq Listed \cup {t}
      /\ Answered \ {t} \subseteq Answered'
  <2>1. e.by = r /\ e.thread_id = t
    OBVIOUS
  <2> QED
    BY <1>t, <1>1, <1>3, <2>1, NewMessage
<1>5. TicketTypes' /\ Threads' = Threads
  BY <1>t, <1>1, <1>2, <1>4 DEF TicketTypes, Threads
<1>6. Known \subseteq Known'
  BY <1>t, <1>1, <1>2, <1>5, KnownStays
<1> HIDE DEF t, e
<1>7. OverlapInv'
  <2>1. t \in overlapped \/ (/\ ticket_threads[t].status = "open"
                             /\ \A q \in Requests : req[q].pc = "status" => req[q].thread # t)
    BY <1>t, <1>1 DEF OverlapInv, t
  <2>2. \A q \in Requests : req'[q].pc \in {"message", "status"} => req'[q] = req[q]
    BY <1>2
  <2>3. \A p, q \in Requests :
          (/\ req'[p].pc = "message" /\ req'[q].pc = "status"
           /\ req'[p].thread = req'[q].thread) => req'[p].thread \in overlapped'
    BY <1>t, <1>1, <2>2 DEF OverlapInv
  <2>4. \A q \in Requests : (req'[q].thread \notin overlapped' /\ req'[q].pc = "message")
          => ticket_threads'[req'[q].thread].status = "open"
    BY <1>t, <1>1, <2>2 DEF OverlapInv
  <2>5. \A q \in Requests : (req'[q].thread \notin overlapped' /\ req'[q].pc = "status")
          => req'[q].thread \in Answered'
    BY <1>t, <1>1, <1>4, <2>1, <2>2 DEF OverlapInv
  <2>6. \A u \in Threads' \ overlapped' : ticket_threads'[u].status = "closed" => u \in Answered'
    BY <1>t, <1>1, <1>4, <1>5, <2>1 DEF OverlapInv
  <2> QED
    BY <2>3, <2>4, <2>5, <2>6 DEF OverlapInv
<1>8. req[r].op \in {"new", "reply"} /\ (req[r].op = "new" => ticket_threads[t].by = r)
  BY <1>t, <1>1 DEF PageInv, OwnInv, t
<1>9. /\ \A u \in Threads : ticket_threads'[u].by = ticket_threads[u].by
      /\ \A u \in Threads \ Known : ticket_threads'[u].status \in {ticket_threads[u].status, "open"}
      /\ \A l \in mailed' : l \in mailed
      /\ Listed' \subseteq Listed \cup Known /\ Written \subseteq Written'
      /\ req'[r].thread \in Known' /\ <<r, req'[r].thread>> \in Written'
      /\ req'[r].op = "new" => ticket_threads'[req'[r].thread].by = r
  BY <1>1, <1>2, <1>4, <1>6, <1>8
<1> QED
  BY <1>1, <1>2, <1>5, <1>7, <1>8, <1>9, StepKeeps

\* The answer is the last word, and meets every page of a customer that is about
\* to write to the thread.
LEMMA AnswerKeeps ==
  ASSUME TicketInv, NEW r \in Requests, NEW t \in Threads, NEW status \in Status,
         Answer(r, t, status)
  PROVE  TicketInv'
<1> DEFINE e == [thread_id |-> t, role |-> "pardiff", by |-> r]
           k == [pc |-> "status", op |-> "answer", thread |-> t, status |-> status]
<1>t. TicketTypes /\ KnownInv /\ PageInv /\ OverlapInv /\ OwnInv
  BY DEF TicketInv
<1>1. /\ req[r].pc = "idle" /\ ticket_threads' = ticket_threads /\ mailed' = mailed /\ t \in Nat
      /\ tickets' = Append(tickets, e) /\ t \in Known
      /\ overlapped' = overlapped \cup Meets(t, "reply") \cup Meets(t, "new")
      /\ req' = [req EXCEPT ![r] = k]
  BY DEF Answer, Threads
<1>2. /\ req' \in [Requests -> PageType]
      /\ req'[r].pc = "status" /\ req'[r].op = "answer" /\ req'[r].thread = t
      /\ \A q \in Requests \ {r} : req'[q] = req[q]
  <2>1. k \in PageType
    BY <1>1 DEF PageType
  <2> QED
    BY <1>t, <1>1, <2>1 DEF TicketTypes
<1>3. e \in MessageType /\ e.by = r /\ e.thread_id = t /\ e.role = "pardiff"
  BY <1>1 DEF MessageType
<1>4. /\ tickets' \in Seq(MessageType)
      /\ Written \subseteq Written'
      /\ Listed' \subseteq Listed \cup {t}
      /\ Answered \cup {t} \subseteq Answered'
  BY <1>t, <1>1, <1>3, NewMessage
<1>5. TicketTypes' /\ Threads' = Threads
  BY <1>t, <1>1, <1>2, <1>4 DEF TicketTypes, Threads
<1>6. Known \subseteq Known'
  BY <1>t, <1>1, <1>2, <1>5, KnownStays
<1> HIDE DEF k, e
<1>7. OverlapInv'
  <2>1. \A q \in Requests : (req[q].pc = "message" /\ req[q].thread = t) => t \in overlapped'
    BY <1>t, <1>1 DEF PageInv, Meets, Running
  <2>2. \A q \in Requests : req'[q].pc = "message" => req'[q] = req[q]
    BY <1>2
  <2>3. \A q \in Requests : req'[q].pc = "status" => q = r \/ req'[q] = req[q]
    BY <1>2
  <2>4. overlapped \subseteq overlapped'
    BY <1>1
  <2>5. \A p, q \in Requests :
          (/\ req'[p].pc = "message" /\ req'[q].pc = "status"
           /\ req'[p].thread = req'[q].thread) => req'[p].thread \in overlapped'
    BY <1>t, <1>2, <2>1, <2>2, <2>3, <2>4 DEF OverlapInv
  <2>6. \A q \in Requests : (req'[q].thread \notin overlapped' /\ req'[q].pc = "message")
          => ticket_threads'[req'[q].thread].status = "open"
    BY <1>t, <1>1, <2>2, <2>4 DEF OverlapInv
  <2>7. \A q \in Requests : (req'[q].thread \notin overlapped' /\ req'[q].pc = "status")
          => req'[q].thread \in Answered'
    BY <1>t, <1>2, <1>4, <2>3, <2>4 DEF OverlapInv
  <2>8. \A u \in Threads' \ overlapped' : ticket_threads'[u].status = "closed" => u \in Answered'
    BY <1>t, <1>1, <1>4, <1>5, <2>4 DEF OverlapInv
  <2> QED
    BY <2>5, <2>6, <2>7, <2>8 DEF OverlapInv
<1>8. /\ \A u \in Threads : ticket_threads'[u].by = ticket_threads[u].by
      /\ \A u \in Threads \ Known : ticket_threads'[u].status \in {ticket_threads[u].status, "open"}
      /\ \A l \in mailed' : l \in mailed
      /\ Listed' \subseteq Listed \cup Known
      /\ req'[r].thread \in Known'
  BY <1>1, <1>2, <1>4, <1>6
<1> QED
  BY <1>1, <1>2, <1>4, <1>5, <1>7, <1>8, StepKeeps

\* The support closes a thread only over its own answer, or over a reply that it
\* overlapped.
LEMMA SetStatusKeeps ==
  ASSUME TicketInv, NEW r \in Requests, SetStatus(r) PROVE TicketInv'
<1> DEFINE t == req[r].thread
<1>t. TicketTypes /\ KnownInv /\ PageInv /\ OverlapInv /\ OwnInv
  BY DEF TicketInv
<1>1. /\ req[r].pc = "status" /\ tickets' = tickets /\ mailed' = mailed
      /\ overlapped' = overlapped /\ t \in Known /\ t \in Threads /\ req[r].op = "answer"
      /\ ticket_threads' = [ticket_threads EXCEPT ![t].status = req[r].status]
      /\ req[r].status \in Status
  BY <1>t DEF SetStatus, KnownInv, Known, PageInv, TicketTypes, PageType
<1>2. /\ req' \in [Requests -> PageType]
      /\ req'[r].pc = "answered" /\ req'[r].op = req[r].op /\ req'[r].thread = t
      /\ \A q \in Requests \ {r} : req'[q] = req[q]
  BY <1>t, PageGoto DEF SetStatus
<1>3. /\ ticket_threads' \in Seq(ThreadType) /\ Threads' = Threads
      /\ \A u \in Threads : ticket_threads'[u].by = ticket_threads[u].by
      /\ \A u \in Threads \ {t} : ticket_threads'[u] = ticket_threads[u]
  BY <1>t, <1>1, StatusSet
<1>4. TicketTypes'
  BY <1>t, <1>1, <1>2, <1>3 DEF TicketTypes
<1>w. Written' = Written /\ Listed' = Listed /\ Answered' = Answered
  BY <1>1, NoMessage
<1>5. Known \subseteq Known'
  BY <1>t, <1>2, <1>3, KnownStays
<1> HIDE DEF t
<1>6. OverlapInv'
  <2>1. t \in overlapped \/ (/\ t \in Answered
                             /\ \A q \in Requests : req[q].pc = "message" => req[q].thread # t)
    BY <1>t, <1>1 DEF OverlapInv, t
  <2>2. \A q \in Requests : req'[q].pc \in {"message", "status"} =>
          req'[q] = req[q] /\ req[q].thread \in Threads
    BY <1>t, <1>2 DEF KnownInv, Known
  <2>3. \A p, q \in Requests :
          (/\ req'[p].pc = "message" /\ req'[q].pc = "status"
           /\ req'[p].thread = req'[q].thread) => req'[p].thread \in overlapped'
    BY <1>t, <1>1, <2>2 DEF OverlapInv
  <2>4. \A q \in Requests : (req'[q].thread \notin overlapped' /\ req'[q].pc = "message")
          => ticket_threads'[req'[q].thread].status = "open"
    BY <1>t, <1>1, <1>3, <2>1, <2>2 DEF OverlapInv
  <2>5. \A q \in Requests : (req'[q].thread \notin overlapped' /\ req'[q].pc = "status")
          => req'[q].thread \in Answered'
    BY <1>t, <1>1, <1>w, <2>2 DEF OverlapInv
  <2>6. \A u \in Threads' \ overlapped' : ticket_threads'[u].status = "closed" => u \in Answered'
    BY <1>t, <1>1, <1>3, <1>w, <2>1 DEF OverlapInv
  <2> QED
    BY <2>3, <2>4, <2>5, <2>6 DEF OverlapInv
<1>7. /\ \A u \in Threads \ Known : ticket_threads'[u].status \in {ticket_threads[u].status, "open"}
      /\ \A l \in mailed' : l \in mailed
      /\ Listed' \subseteq Listed \cup Known /\ Written \subseteq Written'
      /\ req'[r].thread \in Known'
  BY <1>1, <1>2, <1>3, <1>5, <1>w
<1> QED
  BY <1>1, <1>2, <1>3, <1>4, <1>6, <1>7, StepKeeps

\* A page ends, with a mail or without.
LEMMA EndKeeps ==
  ASSUME TicketInv, NEW r \in Requests, Running(r), Goto(r, "done"),
         UNCHANGED <<ticket_threads, tickets, overlapped>>,
         \/ mailed' = mailed
         \/ /\ mailed' = mailed \cup {[by |-> r, thread |-> req[r].thread]}
            /\ req[r].pc \in {"mail", "answered"}
  PROVE  TicketInv'
<1> DEFINE t == req[r].thread
<1>t. TicketTypes /\ KnownInv /\ PageInv /\ OverlapInv /\ OwnInv
  BY DEF TicketInv
<1>1. /\ req' \in [Requests -> PageType]
      /\ req'[r].pc = "done" /\ req'[r].op = req[r].op
      /\ \A q \in Requests \ {r} : req'[q] = req[q]
  BY <1>t, PageGoto
<1>2. /\ req[r].pc \in {"mail", "answered"} => t \in Known
      /\ req[r].pc = "mail" => <<r, t>> \in Written /\ (req[r].op = "new" => ticket_threads[t].by = r)
      /\ req[r].pc = "answered" => req[r].op = "answer"
  BY <1>t DEF KnownInv, OwnInv, PageInv
<1>3. Threads' = Threads /\ UNCHANGED <<Written, Listed, Answered>>
  BY NoMessage DEF Threads
<1>4. mailed' \subseteq [by : Requests, thread : Nat]
  <2>1. [by |-> r, thread |-> t] \in [by : Requests, thread : Nat]
    BY <1>t DEF TicketTypes, PageType
  <2> QED
    BY <1>t, <2>1 DEF TicketTypes
<1>5. TicketTypes'
  BY <1>t, <1>1, <1>4 DEF TicketTypes
<1>6. OverlapInv'
  BY <1>t, <1>1, <1>3, OverlapKept
<1>7. \A l \in mailed' : l \in mailed \/
           /\ l.by = r /\ req'[r].pc = "done" /\ l.thread \in Known
           /\ req'[r].op = "new" =>
                ticket_threads[l.thread].by = r /\ <<r, l.thread>> \in Written
  BY <1>1, <1>2
<1>8. /\ \A u \in Threads : ticket_threads'[u].by = ticket_threads[u].by
      /\ \A u \in Threads \ Known : ticket_threads'[u].status \in {ticket_threads[u].status, "open"}
      /\ Listed' \subseteq Listed \cup Known /\ Written \subseteq Written'
      /\ req[r].pc # "done"
  BY <1>3 DEF Running
<1> QED
  BY <1>1, <1>3, <1>5, <1>6, <1>7, <1>8, StepKeeps

LEMMA TicketsStart == TicketsInit => TicketInv
<1> SUFFICES ASSUME TicketsInit PROVE TicketInv
  OBVIOUS
<1>1. /\ ticket_threads = <<>> /\ tickets = <<>> /\ mailed = {}
      /\ \A r \in Requests : req[r].pc = "idle" /\ req[r].op = "new"
  BY DEF TicketsInit
<1>2. TicketTypes
  BY DEF TicketsInit, TicketTypes, PageType, Status
<1>3. Threads = {} /\ Listed = {}
  BY <1>1 DEF Threads, Listed, Rows
<1> QED
  BY <1>1, <1>2, <1>3 DEF TicketInv, KnownInv, PageInv, OverlapInv, OwnInv

LEMMA TicketsStep == TicketInv /\ [TicketsNext]_ticketVars => TicketInv'
<1> SUFFICES ASSUME TicketInv, [TicketsNext]_ticketVars PROVE TicketInv'
  OBVIOUS
<1>1. CASE UNCHANGED ticketVars
  <2>1. UNCHANGED <<Threads, Known, Written, Listed, Answered>>
    BY <1>1, NoMessage DEF ticketVars, Threads, Known
  <2> QED
    BY <1>1, <2>1 DEF ticketVars, TicketInv, TicketTypes, KnownInv, PageInv, OverlapInv, OwnInv
<1>2. ASSUME NEW r \in Requests, Step(r) PROVE TicketInv'
  <2>1. CASE InsertId(r)
    BY <2>1, InsertIdKeeps
  <2>2. CASE InsertMessage(r)
    BY <2>2, InsertMessageKeeps
  <2>3. CASE Confirm(r)
    BY <2>3, EndKeeps DEF Confirm, Running
  <2>4. CASE SetStatus(r)
    BY <2>4, SetStatusKeeps
  <2>5. CASE MailAnswer(r)
    BY <2>5, EndKeeps DEF MailAnswer, Running
  <2> QED
    BY <1>2, <2>1, <2>2, <2>3, <2>4, <2>5 DEF Step
<1>3. ASSUME NEW r \in Requests, CreateNew(r) PROVE TicketInv'
  BY <1>3, CreateNewKeeps
<1>4. ASSUME NEW r \in Requests, Die(r) PROVE TicketInv'
  BY <1>4, EndKeeps DEF Die
<1>5. ASSUME NEW r \in Requests, NEW t \in Threads, Reply(r, t) PROVE TicketInv'
  BY <1>5, ReplyKeeps DEF Threads
<1>6. ASSUME NEW r \in Requests, NEW t \in Threads, NEW status \in Status,
             Answer(r, t, status)
      PROVE  TicketInv'
  BY <1>6, AnswerKeeps DEF Threads
<1> QED
  BY <1>1, <1>2, <1>3, <1>4, <1>5, <1>6 DEF TicketsNext

\* Unless an answer overlapped a customer's request for it, a thread that
\* mod_ticket closed ends with an answer, however many pages run, whenever they
\* die.
THEOREM Answers == TicketsSpec => []ClosedIsAnswered
<1>1. TicketInv => ClosedIsAnswered
  <2> SUFFICES ASSUME TicketInv, NEW t \in Threads \ overlapped,
                      ticket_threads[t].status = "closed"
               PROVE  Messages(t) # {} /\ tickets[Last(t)].role = "pardiff"
    BY DEF ClosedIsAnswered
  <2>1. t \in Answered
    BY DEF TicketInv, OverlapInv, Threads
  <2>2. PICK i \in LastRows : tickets[i].role = "pardiff" /\ tickets[i].thread_id = t
    BY <2>1 DEF Answered
  <2>3. i \in Messages(t) /\ \A j \in Messages(t) : j <= i
    BY <2>2 DEF LastRows, IsLast, Rows, Messages
  <2>4. \A k \in Messages(t) : (\A j \in Messages(t) : j <= k) => k = i
    BY <2>3 DEF Messages
  <2>5. Last(t) \in Messages(t) /\ \A j \in Messages(t) : j <= Last(t)
    BY <2>3 DEF Last
  <2> QED
    BY <2>2, <2>3, <2>4, <2>5
<1> QED
  BY <1>1, TicketsStart, TicketsStep, PTL DEF TicketsSpec

\* A customer who opened a thread gets the link to a thread of his own, with his
\* message in it, whatever other customers submit meanwhile.
THEOREM Links == TicketsSpec => []ConfirmedIsListed
<1>1. TicketInv => ConfirmedIsListed
  BY DEF TicketInv, KnownInv, Known, OwnInv, Written, Rows, Messages, list_tickets,
         ConfirmedIsListed
<1> QED
  BY <1>1, TicketsStart, TicketsStep, PTL DEF TicketsSpec
=============================================================================
