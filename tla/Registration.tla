---------------------------- MODULE Registration ----------------------------
(***************************************************************************)
(* How accounts come into being and how the administrator books credit:    *)
(* web/user/create.cgi and the pages add_user and onchangecredit of        *)
(* web/admin/main.cgi.  Each is a CGI process that runs several statements *)
(* on tables login and transactions_records, looks at few of the results,  *)
(* and may be overtaken or die between any two of them.                    *)
(***************************************************************************)
EXTENDS Integers

CONSTANTS Users,           \* user names
          Requests,        \* CGI processes
          Amounts,         \* credit the administrator types in
          FirstAddresses,  \* clientip of an account made by hand
          MaxBookings,     \* bound: credit bookings by the administrator
          MaxCrashes,      \* bound: dying requests
          NULL             \* no row

Octets == Nat \X Nat \X Nat \X Nat
NoAddress == <<0, 0, 0, 0>>

ASSUME RegistrationConstants ==
  /\ Users # {} /\ NULL \notin Users
  /\ Amounts \subseteq Int
  /\ FirstAddresses \subseteq Octets
  /\ MaxBookings \in Nat /\ MaxCrashes \in Nat

VARIABLES
  row,        \* row[u]: does login have a row for u?
  clientip,   \* clientip[u]: the address that goes with the account
  newest,     \* the user name in the row with the greatest id
  credit,     \* credit[u]: what main.cgi added to login.credit
  ledger,     \* ledger[u]: what it wrote to transactions_records for u
  req,        \* req[r]: the request CGI process r is serving
  raced,      \* history: a row was inserted with an outdated address
  misbooked,  \* history: names whose books a crash, a race or a typo upset
  bookings,   \* credit bookings so far
  crashes

login   == <<row, clientip, newest, credit>>
history == <<raced, misbooked>>
bounded == <<bookings, crashes>>
vars    == <<login, ledger, req, history, bounded>>

PcStates == {"idle", "register", "exist", "add", "record"}
RequestType == [pc : PcStates, user : Users, ip : Octets, amount : Int]
Idle == [pc |-> "idle", user |-> CHOOSE u \in Users : TRUE, ip |-> NoAddress, amount |-> 0]

TypeOK ==
  /\ row \in [Users -> BOOLEAN]
  /\ clientip \in [Users -> Octets]
  /\ newest \in Users \cup {NULL}
  /\ credit \in [Users -> Int] /\ ledger \in [Users -> Int]
  /\ req \in [Requests -> RequestType]
  /\ raced \in BOOLEAN
  /\ misbooked \in SUBSET Users
  /\ bookings \in 0..MaxBookings /\ crashes \in 0..MaxCrashes

\* An empty table, or one account that was made by hand.
Init ==
  /\ \/ newest = NULL /\ clientip = [u \in Users |-> NoAddress]
     \/ \E u \in Users, a \in FirstAddresses :
          newest = u /\ clientip = [[v \in Users |-> NoAddress] EXCEPT ![u] = a]
  /\ row = [u \in Users |-> u = newest]
  /\ credit = [u \in Users |-> 0] /\ ledger = [u \in Users |-> 0]
  /\ req = [r \in Requests |-> Idle]
  /\ raced = FALSE /\ misbooked = {}
  /\ bookings = 0 /\ crashes = 0

Goto(r, pc) == req' = [req EXCEPT ![r].pc = pc]
End(r)      == req' = [req EXCEPT ![r] = Idle]

Begin(r, pc, u, ip, n) ==
  /\ req[r].pc = "idle"
  /\ req' = [req EXCEPT ![r] = [pc |-> pc, user |-> u, ip |-> ip, amount |-> n]]

Book == bookings < MaxBookings /\ bookings' = bookings + 1
-----------------------------------------------------------------------------
(* Addresses *)

num_to_ip(n) ==
  <<n \div 16777216, (n \div 65536) % 256, (n \div 256) % 256, n % 256>>

ip_to_num(ip) == ((ip[1] * 256 + ip[2]) * 256 + ip[3]) * 256 + ip[4]

\* (mutant) The address of the newest row itself.
SameAddress == IF newest = NULL THEN NoAddress ELSE clientip[newest]

\* SELECT clientip FROM login ORDER BY id DESC LIMIT 1, and the address after it.
get_client_ip == IF newest = NULL THEN NoAddress
                 ELSE num_to_ip(ip_to_num(clientip[newest]) + 1)
-----------------------------------------------------------------------------
(* create.cgi and add_user *)

\* INSERT INTO login.  The unique key keeps a second row of the same name out.
Insert(u, ip, n) ==
  IF row[u] THEN UNCHANGED <<login, raced>>
  ELSE /\ row' = [row EXCEPT ![u] = TRUE]
       /\ clientip' = [clientip EXCEPT ![u] = ip]
       /\ credit' = [credit EXCEPT ![u] = n]
       /\ newest' = u
       /\ raced' = (raced \/ ip # get_client_ip)

\* create.cgi with a complete form reads the address
Register(r, u) ==
  /\ Begin(r, "register", u, get_client_ip, 0)
  /\ UNCHANGED <<login, ledger, history, bounded>>

\* and inserts the account, or reports that the name is taken.
RegisterInsert(r) ==
  /\ req[r].pc = "register"
  /\ Insert(req[r].user, req[r].ip, 0)
  /\ End(r)
  /\ UNCHANGED <<ledger, misbooked, bounded>>

\* add_user reads the address,
AddUser(r, u, n) ==
  /\ n >= 0
  /\ Book
  /\ Begin(r, "exist", u, get_client_ip, n)
  /\ UNCHANGED <<login, ledger, history, crashes>>

\* asks whether the name is taken,
exist_username(r) ==
  /\ req[r].pc = "exist"
  /\ IF row[req[r].user] THEN End(r) ELSE Goto(r, "add")
  /\ UNCHANGED <<login, ledger, history, bounded>>

\* and inserts the account without looking at the result: if the name was taken
\* in between, the ledger will show credit that nobody got.
AddUserInsert(r) ==
  LET u == req[r].user IN
  /\ req[r].pc = "add"
  /\ Insert(u, req[r].ip, req[r].amount)
  /\ misbooked' = IF row[u] THEN misbooked \cup {u} ELSE misbooked
  /\ Goto(r, "record")
  /\ UNCHANGED <<ledger, bounded>>
-----------------------------------------------------------------------------
(* onchangecredit *)

\* (mutant) The new credit is computed from the one the page showed.
OnChangeCreditOverwrites(r, u, n) ==
  /\ Book
  /\ Begin(r, "record", u, NoAddress, n)
  /\ credit' = [credit EXCEPT ![u] = IF row[u] THEN n ELSE @]
  /\ misbooked' = IF row[u] THEN misbooked ELSE misbooked \cup {u}
  /\ UNCHANGED <<row, clientip, newest, ledger, raced, crashes>>

\* UPDATE login ... credit = credit + ?: nothing happens for an unknown name.
OnChangeCredit(r, u, n) ==
  /\ Book
  /\ Begin(r, "record", u, NoAddress, n)
  /\ credit' = [credit EXCEPT ![u] = IF row[u] THEN @ + n ELSE @]
  /\ misbooked' = IF row[u] THEN misbooked ELSE misbooked \cup {u}
  /\ UNCHANGED <<row, clientip, newest, ledger, raced, crashes>>

\* INSERT INTO transactions_records, the last statement of both pages.
WriteRecord(r) ==
  LET u == req[r].user IN
  /\ req[r].pc = "record"
  /\ ledger' = [ledger EXCEPT ![u] = @ + req[r].amount]
  /\ End(r)
  /\ UNCHANGED <<login, history, bounded>>

\* The CGI process is killed between two statements.
Crash(r) ==
  /\ req[r].pc # "idle"
  /\ crashes < MaxCrashes /\ crashes' = crashes + 1
  /\ misbooked' = IF req[r].pc = "record" THEN misbooked \cup {req[r].user} ELSE misbooked
  /\ End(r)
  /\ UNCHANGED <<login, ledger, raced, bookings>>
-----------------------------------------------------------------------------
Serve(r) == RegisterInsert(r) \/ exist_username(r) \/ AddUserInsert(r) \/ WriteRecord(r)

Next ==
  \/ \E r \in Requests, u \in Users : Register(r, u)
  \/ \E r \in Requests, u \in Users, n \in Amounts : AddUser(r, u, n) \/ OnChangeCredit(r, u, n)
  \/ \E r \in Requests : Serve(r) \/ Crash(r)

Spec == Init /\ [][Next]_vars
-----------------------------------------------------------------------------
(* Properties. *)

\* As long as no two insertions overlapped, every account has an address of its
\* own (pppd gives it to the client), however many registrations failed.
DistinctUnlessRaced ==
  raced \/ \A u, v \in Users : (row[u] /\ row[v] /\ clientip[u] = clientip[v]) => u = v

\* A registration for a taken name, and one that lost the race for a name, leave
\* the existing account and its credit as they are.
AccountsSurvive ==
  [][\A u \in Users : row[u] =>
       /\ row'[u] /\ clientip'[u] = clientip[u]
       /\ credit'[u] # credit[u] =>
            \E r \in Requests : req'[r] # req[r] /\ req'[r].pc = "record"
                                /\ req'[r].user = u /\ credit'[u] = credit[u] + req'[r].amount]_vars

\* What the ledger shows for a user is what the administrator's pages added to
\* the account, unless a page is about to write, died before it wrote, lost the
\* race for the name or was given an unknown one.
BooksBalance ==
  \A u \in Users :
    \/ ledger[u] = credit[u]
    \/ u \in misbooked
    \/ \E r \in Requests : req[r].pc = "record" /\ req[r].user = u
=============================================================================
