------------------------------- MODULE Expiry -------------------------------
(***************************************************************************)
(* The expiry date and the state of an account: the cron job expire.pl,    *)
(* which mails the owners of expired accounts and disables the accounts    *)
(* that expired more than a grace period ago, and the pages that redate or *)
(* reactivate an account while the job runs (coupon_credit.cgi and three   *)
(* pages of web/admin/main.cgi).  Dates are day numbers.                   *)
(***************************************************************************)
EXTENDS Integers

CONSTANTS Users,       \* rows of table login
          Trial,       \* days a new account has (3 in create.cgi)
          Grace,       \* days between expiry and suspension (7 in expire.pl)
          CardDays,    \* days on a coupon
          Extensions,  \* days the administrator types in
          LastDay,     \* bound: days the model runs
          LastDate,    \* bound: expiry dates are 0..LastDate
          MaxCrashes,  \* bound: job runs that die
          NULL         \* no date: the account does not expire

ASSUME ExpiryConstants ==
  /\ Trial \in Nat /\ Grace \in Nat /\ CardDays \in Nat
  /\ Extensions \subseteq Int
  /\ LastDay \in Nat /\ LastDate \in Nat /\ Trial <= LastDate /\ MaxCrashes \in Nat
  /\ NULL \notin Int

VARIABLES
  account_state,  \* account_state[u] in table login
  expire_at,      \* expire_at[u] in table login
  today,
  job,            \* the run of expire.pl
  touched,        \* history: redated since the job selected the overdue accounts
  moved,          \* history: redated since the job selected the expired accounts
  dated,          \* history: accounts that had an expiry date
  reactivated,    \* history: accounts the administrator switched on without a date
  notice,         \* history: notice[u], the day of the first mail about u's date
  punctual,       \* history: accounts whose date a run was there for the day after
  crashes

login   == <<account_state, expire_at>>
history == <<touched, moved, dated, reactivated, notice, punctual>>
vars    == <<login, today, job, history, crashes>>

\* day is the day of its first SELECT; todo the accounts of the last SELECT that
\* it has not dealt with yet.
JobType == [pc : {"idle", "mail", "suspend"}, day : Nat, todo : SUBSET Users]
NoJob == [pc |-> "idle", day |-> 0, todo |-> {}]

TypeOK ==
  /\ account_state \in [Users -> {"ACTIVE", "DISABLED"}]
  /\ expire_at \in [Users -> (0..LastDate) \cup {NULL}]
  /\ today \in 0..LastDay
  /\ job \in JobType
  /\ touched \in SUBSET Users /\ moved \in SUBSET Users
  /\ dated \in SUBSET Users /\ reactivated \in SUBSET Users
  /\ notice \in [Users -> (0..LastDay) \cup {NULL}] /\ punctual \in SUBSET Users
  /\ crashes \in 0..MaxCrashes

\* Registered accounts (create.cgi) have a trial period, the ones the
\* administrator made (add_user) do not expire.
Init ==
  /\ account_state = [u \in Users |-> "ACTIVE"]
  /\ expire_at \in [Users -> {NULL, Trial}]
  /\ today = 0
  /\ job = NoJob
  /\ touched = {} /\ moved = {}
  /\ dated = {u \in Users : expire_at[u] # NULL} /\ reactivated = {}
  /\ notice = [u \in Users |-> NULL] /\ punctual = {}
  /\ crashes = 0

\* WHERE expire_at IS NOT NULL AND expire_at < NOW(), and 7 days before it.
Expired(u) == expire_at[u] # NULL /\ expire_at[u] < today
Overdue(u) == expire_at[u] # NULL /\ expire_at[u] + Grace < today
-----------------------------------------------------------------------------
(* expire.pl *)

\* A run of the job starts: SELECT the expired accounts.
SelectExpired ==
  /\ job.pc = "idle"
  /\ job' = [pc |-> "mail", day |-> today, todo |-> {u \in Users : Expired(u)}]
  /\ moved' = {}
  /\ UNCHANGED <<login, today, touched, dated, reactivated, notice, punctual, crashes>>

\* (mutant) Only the overdue accounts are mailed.
MailIfOverdue(u) ==
  /\ job.pc = "mail" /\ u \in job.todo
  /\ job' = [job EXCEPT !.todo = @ \ {u}]
  /\ notice' = [notice EXCEPT ![u] = IF @ = NULL /\ Overdue(u) THEN today ELSE @]
  /\ UNCHANGED <<login, today, touched, moved, dated, reactivated, punctual, crashes>>

\* email_to_address: the account "will be closed after 7 days".  (An owner whose
\* address Email::Valid refuses is passed over like a mail nobody reads.)
Mail(u) ==
  /\ job.pc = "mail" /\ u \in job.todo
  /\ job' = [job EXCEPT !.todo = @ \ {u}]
  /\ notice' = [notice EXCEPT ![u] = IF @ = NULL THEN today ELSE @]
  /\ UNCHANGED <<login, today, touched, moved, dated, reactivated, punctual, crashes>>

\* A run that has got through its mails on the very day after u's date: the first
\* run that could find the account.
Punctual(u) == /\ expire_at[u] # NULL /\ u \notin moved
               /\ job.day = today /\ today = expire_at[u] + 1

\* (mutant) The accounts to suspend are the mailed ones.
SelectAllExpired ==
  /\ job.pc = "mail" /\ job.todo = {}
  /\ job' = [job EXCEPT !.pc = "suspend", !.todo = {u \in Users : Expired(u)}]
  /\ touched' = {}
  /\ punctual' = punctual \cup {u \in Users : Punctual(u)}
  /\ UNCHANGED <<login, today, moved, dated, reactivated, notice, crashes>>

\* The second SELECT; the driver fetches its whole result at once.
SelectOverdue ==
  /\ job.pc = "mail" /\ job.todo = {}
  /\ job' = [job EXCEPT !.pc = "suspend", !.todo = {u \in Users : Overdue(u)}]
  /\ touched' = {}
  /\ punctual' = punctual \cup {u \in Users : Punctual(u)}
  /\ UNCHANGED <<login, today, moved, dated, reactivated, notice, crashes>>

\* (mutant) The suspended account keeps its date.
SuspendKeepsDate(u) ==
  /\ job.pc = "suspend" /\ u \in job.todo
  /\ account_state' = [account_state EXCEPT ![u] = "DISABLED"]
  /\ job' = [job EXCEPT !.todo = @ \ {u}]
  /\ reactivated' = reactivated \ {u}
  /\ UNCHANGED <<expire_at, today, touched, moved, dated, notice, punctual, crashes>>

\* (mutant) Only the date is taken.
SuspendOnlyDate(u) ==
  /\ job.pc = "suspend" /\ u \in job.todo
  /\ expire_at' = [expire_at EXCEPT ![u] = NULL]
  /\ job' = [job EXCEPT !.todo = @ \ {u}]
  /\ reactivated' = reactivated \ {u}
  /\ UNCHANGED <<account_state, today, touched, moved, dated, notice, punctual, crashes>>

\* UPDATE login SET account_state = 'DISABLED', expire_at = NULL WHERE id = ?:
\* by id alone, whatever happened to the row since the SELECT.
Suspend(u) ==
  /\ job.pc = "suspend" /\ u \in job.todo
  /\ account_state' = [account_state EXCEPT ![u] = "DISABLED"]
  /\ expire_at' = [expire_at EXCEPT ![u] = NULL]
  /\ job' = [job EXCEPT !.todo = @ \ {u}]
  /\ reactivated' = reactivated \ {u}
  /\ notice' = [notice EXCEPT ![u] = NULL] /\ punctual' = punctual \ {u}
  /\ UNCHANGED <<today, touched, moved, dated, crashes>>

JobOver ==
  /\ job' = NoJob
  /\ touched' = {} /\ moved' = {}
  /\ UNCHANGED <<login, today, dated, reactivated, notice, punctual>>

JobEnds ==
  /\ job.pc = "suspend" /\ job.todo = {}
  /\ JobOver
  /\ UNCHANGED crashes

\* The job is killed or loses the database.
JobDies ==
  /\ job.pc # "idle"
  /\ crashes < MaxCrashes /\ crashes' = crashes + 1
  /\ JobOver
-----------------------------------------------------------------------------
(* The web pages *)

\* expire_at = IF(expire_at, date_add(expire_at, d), date_add(now(), d)).
Redate(u, d) ==
  LET from == IF expire_at[u] = NULL THEN today ELSE expire_at[u]
  IN
  /\ from + d \in 0..LastDate
  /\ expire_at' = [expire_at EXCEPT ![u] = from + d]
  /\ notice' = [notice EXCEPT ![u] = NULL] /\ punctual' = punctual \ {u}
  /\ touched' = IF job.pc = "suspend" THEN touched \cup {u} ELSE {}
  /\ moved' = IF job.pc = "idle" THEN {} ELSE moved \cup {u}
  /\ dated' = dated \cup {u} /\ reactivated' = reactivated \ {u}

\* The owner redeems a coupon (its UPDATE login; the rest is module Coupon).
CouponCredit(u) ==
  /\ Redate(u, CardDays)
  /\ account_state' = [account_state EXCEPT ![u] = "ACTIVE"]
  /\ UNCHANGED <<today, job, crashes>>

\* change_user_info: the form's extension is 0 days unless it is changed, and
\* 0 days from now when the account did not expire.
ChangeUserInfo(u, d) ==
  /\ Redate(u, d)
  /\ UNCHANGED <<account_state, today, job, crashes>>

Activate(u) ==
  /\ account_state' = [account_state EXCEPT ![u] = "ACTIVE"]
  /\ reactivated' = IF expire_at[u] = NULL THEN reactivated \cup {u}
                    ELSE reactivated
  /\ UNCHANGED <<expire_at, today, job, touched, moved, dated, notice, punctual, crashes>>

\* change_user_state, action active or freeze.
ChangeUserState(u, active) ==
  \/ active /\ Activate(u)
  \/ /\ ~active
     /\ account_state' = [account_state EXCEPT ![u] = "DISABLED"]
     /\ UNCHANGED <<expire_at, today, job, history, crashes>>

\* onchangecredit activates the account and leaves its date.
OnChangeCredit(u) == Activate(u)

\* A day passes.  A run of the job is over within the grace period.
Tick ==
  /\ today < LastDay
  /\ job.pc # "idle" => today < job.day + Grace
  /\ today' = today + 1
  /\ UNCHANGED <<login, job, history, crashes>>
-----------------------------------------------------------------------------
JobStep == \/ SelectExpired \/ SelectOverdue \/ JobEnds
           \/ \E u \in Users : Mail(u) \/ Suspend(u)

Web(u) ==
  \/ CouponCredit(u) \/ OnChangeCredit(u)
  \/ \E d \in Extensions : ChangeUserInfo(u, d)
  \/ \E active \in BOOLEAN : ChangeUserState(u, active)

Next == JobStep \/ JobDies \/ Tick \/ \E u \in Users : Web(u)

Spec == Init /\ [][Next]_vars

\* cron starts the job every day and a started job goes on.
FairSpec == Spec /\ WF_vars(JobStep)
-----------------------------------------------------------------------------
(* Properties. *)

\* expire.pl takes the date of an account only if it is overdue when its row is
\* updated, or was redated after the job had read it.
SuspendedIfOverdue ==
  [][\A u \in Users : (expire_at[u] # NULL /\ expire_at'[u] = NULL)
       => Overdue(u) \/ u \in touched]_vars

\* Nobody is suspended without a mail, and the first mail about the date that ran
\* out came at least the grace period before, provided a run was there the day
\* after that date and got through its mails.  (A mail that comes later, after
\* days without a run or a date the administrator moved back, says "7 days" too,
\* and the account may be suspended at once.)  Excused are accounts redated
\* while the suspending run was under way.
NoticeBeforeSuspension ==
  [][\A u \in Users : (expire_at[u] # NULL /\ expire_at'[u] = NULL /\ u \notin moved)
       => /\ notice[u] # NULL
          /\ u \in punctual => notice[u] + Grace <= today]_vars

\* An account that once had an expiry date and is active without one was switched
\* on by the administrator after its suspension; no card or job run does that.
EternalOnlyByAdmin ==
  \A u \in Users :
    (u \in dated /\ expire_at[u] = NULL /\ account_state[u] = "ACTIVE") => u \in reactivated

\* No account stays overdue: the job suspends it or somebody redates it.
OverdueIsSuspended ==
  \A u \in Users : Overdue(u) ~> ~Overdue(u)
=============================================================================
