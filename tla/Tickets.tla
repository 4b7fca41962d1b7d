------------------------------ MODULE Tickets -------------------------------
(***************************************************************************)
(* The support tickets: customers open threads and reply to them with      *)
(* ticket/create.cgi, the support answers with main.cgi?op=mod_ticket.     *)
(* Every page is a process that issues unchecked statements on the tables  *)
(* ticket_threads and tickets one by one; nothing orders two of them.      *)
(***************************************************************************)
EXTENDS Naturals, Sequences

CONSTANTS Requests,   \* CGI processes over time
          MaxDeaths  \* bound: processes that die between two statements

ASSUME TicketConstants == MaxDeaths \in Nat

VARIABLES
  ticket_threads, \* rows by id: the request that made the thread and status
  tickets,        \* rows by id: thread_id, role and the request that wrote it
  req,            \* req[r]: where request r is
  mailed,         \* threads whose link a customer got, with the request
  overlapped,     \* history: threads a reply and an answer worked on at once
  deaths

ticketVars == <<ticket_threads, tickets, req, mailed, overlapped, deaths>>

Status == {"open", "closed"}
TicketsInit ==
  /\ ticket_threads = <<>> /\ tickets = <<>>
  /\ req = [r \in Requests |-> [pc |-> "idle", op |-> "new", thread |-> 0, status |-> "open"]]
  /\ mailed = {} /\ overlapped = {}
  /\ deaths = 0

Goto(r, pc) == req' = [req EXCEPT ![r].pc = pc]
Running(q) == req[q].pc \notin {"idle", "done"}

\* r starts to work on thread t: does it meet a request of the other kind?
Meets(t, op) == IF \E q \in Requests : Running(q) /\ req[q].thread = t /\ req[q].op = op
                THEN {t} ELSE {}

Threads == 1..Len(ticket_threads)
\* The threads whose page has learnt their id, and may have shown it: their
\* tokens, which are made from the id, can be in use.
Known == {t \in Threads : req[ticket_threads[t].by].pc # "inserted"}

-----------------------------------------------------------------------------
(* ticket/create.cgi                                                       *)

\* type=new: the page is printed, then the thread is inserted.
CreateNew(r) ==
  /\ req[r].pc = "idle"
  /\ ticket_threads' = Append(ticket_threads, [by |-> r, status |-> "open"])
  /\ Goto(r, "inserted")
  /\ UNCHANGED <<tickets, mailed, overlapped, deaths>>

\* (mutant) The thread just inserted is taken to be the last one.
LastThread(r) ==
  /\ req[r].pc = "inserted"
  /\ req' = [req EXCEPT ![r].pc = "message", ![r].thread = Len(ticket_threads)]
  /\ UNCHANGED <<ticket_threads, tickets, mailed, overlapped, deaths>>

\* $dbh->{mysql_insertid}: the id this connection inserted last.
InsertId(r) ==
  /\ req[r].pc = "inserted"
  /\ \E t \in 1..Len(ticket_threads) :
       /\ ticket_threads[t].by = r
       /\ req' = [req EXCEPT ![r].pc = "message", ![r].thread = t]
  /\ UNCHANGED <<ticket_threads, tickets, mailed, overlapped, deaths>>

\* (mutant) The reply does not reopen the thread.
ReplyQuietly(r, t) ==
  /\ req[r].pc = "idle" /\ t \in Known
  /\ req' = [req EXCEPT ![r].pc = "message", ![r].op = "reply", ![r].thread = t]
  /\ overlapped' = overlapped \cup Meets(t, "answer")
  /\ UNCHANGED <<ticket_threads, tickets, mailed, deaths>>

\* type=old with the token of thread t, whether or not it came with a mail: the
\* thread is found and opened again.
Reply(r, t) ==
  /\ req[r].pc = "idle" /\ t \in Known
  /\ ticket_threads' = [ticket_threads EXCEPT ![t].status = "open"]
  /\ req' = [req EXCEPT ![r].pc = "message", ![r].op = "reply", ![r].thread = t]
  /\ overlapped' = overlapped \cup Meets(t, "answer")
  /\ UNCHANGED <<tickets, mailed, deaths>>

\* Both: the message, then the mails to the support and to the customer.
InsertMessage(r) ==
  /\ req[r].pc = "message"
  /\ tickets' = Append(tickets, [thread_id |-> req[r].thread, role |-> "client", by |-> r])
  /\ Goto(r, "mail")
  /\ UNCHANGED <<ticket_threads, mailed, overlapped, deaths>>

Confirm(r) ==
  /\ req[r].pc = "mail"
  /\ mailed' = mailed \cup {[by |-> r, thread |-> req[r].thread]}
  /\ Goto(r, "done")
  /\ UNCHANGED <<ticket_threads, tickets, overlapped, deaths>>

-----------------------------------------------------------------------------
(* main.cgi                                                                *)

\* op=list_tickets: the inner join shows the threads that have messages.
list_tickets == {t \in Threads : \E i \in 1..Len(tickets) : tickets[i].thread_id = t}

\* op=mod_ticket for any thread and status: the page with the form writes nothing
\* and may be old when the form is sent.  The answer is inserted, ...
Answer(r, t, status) ==
  /\ req[r].pc = "idle" /\ t \in Known
  /\ tickets' = Append(tickets, [thread_id |-> t, role |-> "pardiff", by |-> r])
  /\ req' = [req EXCEPT ![r] = [pc |-> "status", op |-> "answer", thread |-> t, status |-> status]]
  /\ overlapped' = overlapped \cup Meets(t, "reply") \cup Meets(t, "new")
  /\ UNCHANGED <<ticket_threads, mailed, deaths>>

\* ... the status chosen in the form is set, ...
SetStatus(r) ==
  /\ req[r].pc = "status"
  /\ ticket_threads' = [ticket_threads EXCEPT ![req[r].thread].status = req[r].status]
  /\ Goto(r, "answered")
  /\ UNCHANGED <<tickets, mailed, overlapped, deaths>>

\* ... and the customer gets the answer, the status and the link.
MailAnswer(r) ==
  /\ req[r].pc = "answered"
  /\ mailed' = mailed \cup {[by |-> r, thread |-> req[r].thread]}
  /\ Goto(r, "done")
  /\ UNCHANGED <<ticket_threads, tickets, overlapped, deaths>>

-----------------------------------------------------------------------------
\* The process dies; what it has written stays.
Die(r) ==
  /\ Running(r) /\ deaths < MaxDeaths
  /\ deaths' = deaths + 1
  /\ Goto(r, "done")
  /\ UNCHANGED <<ticket_threads, tickets, mailed, overlapped>>

Step(r) == \/ InsertId(r) \/ InsertMessage(r) \/ Confirm(r)
           \/ SetStatus(r) \/ MailAnswer(r)

TicketsNext == \E r \in Requests :
  \/ CreateNew(r) \/ Step(r) \/ Die(r)
  \/ \E t \in Threads : Reply(r, t) \/ \E status \in Status : Answer(r, t, status)

TicketsSpec == TicketsInit /\ [][TicketsNext]_ticketVars

-----------------------------------------------------------------------------
(* Properties.                                                             *)

Messages(t) == {i \in 1..Len(tickets) : tickets[i].thread_id = t}
Last(t) == CHOOSE i \in Messages(t) : \A j \in Messages(t) : j <= i

\* A thread that is closed, and so no longer marked in the list, ends with an
\* answer, at every moment and whoever died, unless an answer overlapped a
\* customer's request for the same thread (a reply that opened it just before
\* the support closed it).  Whether whoever answered had seen the last question
\* is not claimed: the form does not say which messages it was made from.
ClosedIsAnswered ==
  \A t \in Threads \ overlapped :
    ticket_threads[t].status = "closed" =>
      Messages(t) # {} /\ tickets[Last(t)].role = "pardiff"

\* A customer who opens a thread gets the link to a thread of his own, in
\* which the support finds his message, whatever other customers submit
\* meanwhile.
ConfirmedIsListed ==
  \A m \in mailed : req[m.by].op = "new" =>
    /\ ticket_threads[m.thread].by = m.by /\ m.thread \in list_tickets
    /\ \E i \in Messages(m.thread) : tickets[i].by = m.by
=============================================================================
