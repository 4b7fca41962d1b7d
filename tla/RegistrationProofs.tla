------------------------- MODULE RegistrationProofs -------------------------
(***************************************************************************)
(* Proofs about Registration, for any set of names, any number of          *)
(* concurrent requests and any first address.                              *)
(***************************************************************************)
EXTENDS Registration, TLAPS

number(u) == ip_to_num(clientip[u])

\* The newest row has the greatest address, as long as nobody inserted an
\* outdated one: so its successor is new.
NewestInv ==
  /\ \A u \in Users : row[u] => newest \in Users /\ row[newest]
  /\ newest # NULL => row[newest]
  /\ ~raced => /\ \A u \in Users : row[u] => number(u) <= number(newest)
               /\ \A u, v \in Users : (row[u] /\ row[v] /\ number(u) = number(v)) => u = v

Inv == TypeOK /\ NewestInv

\* Reading an address back gives the number it was made from, carries included.
LEMMA RoundTrip ==
  ASSUME NEW n \in Nat
  PROVE  num_to_ip(n) \in Octets /\ ip_to_num(num_to_ip(n)) = n
<1> DEFINE a == n \div 16777216
           b == (n \div 65536) % 256
           c == (n \div 256) % 256
           d == n % 256
<1>1. a \in Nat /\ b \in Nat /\ c \in Nat /\ d \in Nat
  OBVIOUS
<1>2. ((a * 256 + b) * 256 + c) * 256 + d = n
  <2>1. n = (n \div 256) * 256 + d
    OBVIOUS
  <2>2. n \div 256 = (n \div 65536) * 256 + c
    OBVIOUS
  <2>3. n \div 65536 = a * 256 + b
    OBVIOUS
  <2> QED BY <2>1, <2>2, <2>3
<1> HIDE DEF a, b, c, d
<1>3. num_to_ip(n) = <<a, b, c, d>>
  BY DEF num_to_ip, a, b, c, d
<1> QED BY <1>1, <1>2, <1>3 DEF ip_to_num, Octets

\* Addresses have numbers.
LEMMA NumberNat == ASSUME NEW ip \in Octets PROVE ip_to_num(ip) \in Nat
<1>1. ip[1] \in Nat /\ ip[2] \in Nat /\ ip[3] \in Nat /\ ip[4] \in Nat
  BY DEF Octets
<1> QED BY <1>1 DEF ip_to_num

LEMMA NextAddress ==
  ASSUME TypeOK
  PROVE  /\ get_client_ip \in Octets
         /\ newest \in Users => ip_to_num(get_client_ip) = number(newest) + 1
<1>1. NoAddress \in Octets
  BY DEF NoAddress, Octets
<1>2. ASSUME newest \in Users PROVE number(newest) + 1 \in Nat
  <2>1. clientip[newest] \in Octets BY <1>2 DEF TypeOK
  <2> QED BY <2>1, NumberNat DEF number
<1>3. ASSUME newest \in Users
      PROVE  get_client_ip = num_to_ip(number(newest) + 1)
  BY <1>3, RegistrationConstants DEF get_client_ip, number
<1> QED BY <1>1, <1>2, <1>3, RoundTrip DEF get_client_ip, TypeOK

LEMMA InitInv == Init => Inv
<1> SUFFICES ASSUME Init PROVE Inv
  OBVIOUS
<1> USE RegistrationConstants
<1>1. NoAddress \in Octets /\ Idle \in RequestType
  BY DEF NoAddress, Octets, Idle, RequestType, PcStates
<1>2. clientip \in [Users -> Octets] /\ newest \in Users \cup {NULL}
  BY <1>1 DEF Init
<1>3. TypeOK
  <2>1. row \in [Users -> BOOLEAN]
    BY Zenon DEF Init
  <2>2. credit \in [Users -> Int] /\ ledger \in [Users -> Int]
    <3>1. credit = [u \in Users |-> 0] /\ ledger = [u \in Users |-> 0]
      BY Zenon DEF Init
    <3> QED BY <3>1
  <2>3. req \in [Requests -> RequestType]
    BY <1>1 DEF Init
  <2>4. raced \in BOOLEAN /\ misbooked \in SUBSET Users
    BY DEF Init
  <2>5. bookings \in 0..MaxBookings /\ crashes \in 0..MaxCrashes
    <3>1. bookings = 0 /\ crashes = 0
      BY Zenon DEF Init
    <3> QED BY <3>1
  <2> QED BY <1>2, <2>1, <2>2, <2>3, <2>4, <2>5 DEF TypeOK
<1>4. \A u \in Users : row[u] <=> u = newest
  BY DEF Init
<1>5. \A u \in Users : number(u) \in Nat
  BY <1>2, NumberNat DEF number
<1> QED BY <1>3, <1>4, <1>5 DEF Inv, NewestInv, TypeOK

\* A new row with the address after the newest one keeps the order; a refused
\* insertion changes nothing; one with an outdated address is recorded as raced.
LEMMA InsertStep ==
  ASSUME Inv, NEW u \in Users, NEW ip \in Octets, NEW n \in Int, Insert(u, ip, n)
  PROVE  /\ row' \in [Users -> BOOLEAN] /\ clientip' \in [Users -> Octets]
         /\ newest' \in Users \cup {NULL} /\ credit' \in [Users -> Int]
         /\ raced' \in BOOLEAN
         /\ NewestInv'
<1> USE RegistrationConstants
<1>1. CASE row[u]
  BY <1>1 DEF Insert, login, Inv, TypeOK, NewestInv, number
<1>2. CASE ~row[u]
  <2>1. /\ row' = [row EXCEPT ![u] = TRUE] /\ clientip' = [clientip EXCEPT ![u] = ip]
        /\ credit' = [credit EXCEPT ![u] = n] /\ newest' = u
        /\ raced' = (raced \/ ip # get_client_ip)
    BY <1>2 DEF Insert
  <2>2. /\ row' \in [Users -> BOOLEAN] /\ clientip' \in [Users -> Octets]
        /\ credit' \in [Users -> Int]
    BY <2>1 DEF Inv, TypeOK
  <2>3. /\ \A v \in Users : row'[v] <=> (v = u \/ row[v])
        /\ \A v \in Users : clientip'[v] = IF v = u THEN ip ELSE clientip[v]
    BY <2>1 DEF Inv, TypeOK
  <2>4. \A v \in Users : number(v)' = IF v = u THEN ip_to_num(ip) ELSE number(v)
    BY <2>3 DEF number, ip_to_num
  <2>5. \A v \in Users : number(v) \in Nat
    BY NumberNat DEF Inv, TypeOK, number
  <2>6. ip_to_num(ip) \in Nat
    BY NumberNat
  <2>7. ASSUME ~raced', NEW v \in Users, row[v] PROVE number(v) < ip_to_num(ip)
    <3>1. ip = get_client_ip /\ ~raced
      BY <2>7, <2>1 DEF Inv, TypeOK
    <3>2. newest \in Users /\ number(v) <= number(newest)
      BY <2>7, <3>1 DEF Inv, NewestInv
    <3>3. ip_to_num(ip) = number(newest) + 1
      BY <3>1, <3>2, NextAddress DEF Inv
    <3> QED BY <3>2, <3>3, <2>5
  <2>8. ~raced' => ~raced
    BY <2>1 DEF Inv, TypeOK
  <2>9. NewestInv'
    <3>1. (\A v \in Users : row'[v] => newest' \in Users /\ row'[newest'])
          /\ (newest' # NULL => row'[newest'])
      BY <2>1, <2>3
    <3>2. ASSUME ~raced', NEW v \in Users, row'[v] PROVE number(v)' <= number(newest)'
      BY <3>2, <2>1, <2>3, <2>4, <2>5, <2>6, <2>7
    <3>3. ASSUME ~raced', NEW v \in Users, NEW w \in Users, row'[v], row'[w],
                 number(v)' = number(w)'
          PROVE  v = w
      <4>1. CASE v = u \/ w = u
        BY <3>3, <4>1, <2>3, <2>4, <2>5, <2>6, <2>7
      <4>2. CASE v # u /\ w # u
        BY <3>3, <4>2, <2>3, <2>4, <2>8 DEF Inv, NewestInv
      <4> QED BY <4>1, <4>2
    <3> QED BY <3>1, <3>2, <3>3 DEF NewestInv
  <2>10. raced' \in BOOLEAN
    BY <2>1 DEF Inv, TypeOK
  <2> QED BY <2>1, <2>2, <2>9, <2>10
<1> QED BY <1>1, <1>2

\* How a request record changes its type correctly.
LEMMA RequestStep ==
  ASSUME TypeOK, NEW r \in Requests
  PROVE  /\ \A u \in Users, ip \in Octets, n \in Int, pc \in PcStates :
               Begin(r, pc, u, ip, n) => req' \in [Requests -> RequestType]
         /\ \A pc \in PcStates : Goto(r, pc) => req' \in [Requests -> RequestType]
         /\ End(r) => req' \in [Requests -> RequestType]
         /\ req[r] \in RequestType
<1>1. Idle \in RequestType
  BY RegistrationConstants DEF NoAddress, Octets, Idle, RequestType, PcStates
<1> QED BY <1>1 DEF TypeOK, RequestType, Begin, Goto, End

\* Every statement of every page, and a crash, preserves the invariant.
LEMMA NextInv == Inv /\ [Next]_vars => Inv'
<1> SUFFICES ASSUME Inv, [Next]_vars PROVE Inv'
  OBVIOUS
<1> USE RegistrationConstants
<1>0. TypeOK /\ NewestInv
  BY DEF Inv
<1>1. ASSUME NEW r \in Requests, NEW u \in Users, Register(r, u) PROVE Inv'
  <2>1. req' \in [Requests -> RequestType]
    <3>1. get_client_ip \in Octets /\ 0 \in Int /\ "register" \in PcStates
      BY <1>0, NextAddress DEF PcStates
    <3>2. Begin(r, "register", u, get_client_ip, 0)
      BY <1>1 DEF Register
    <3> QED BY <1>0, <3>1, <3>2, RequestStep
  <2> QED BY <1>0, <1>1, <2>1
          DEF Register, Inv, TypeOK, NewestInv, number, login, history, bounded
<1>2. ASSUME NEW r \in Requests, NEW u \in Users, NEW n \in Amounts, AddUser(r, u, n)
      PROVE  Inv'
  <2>1. req' \in [Requests -> RequestType]
    BY <1>0, <1>2, RequestStep, NextAddress DEF AddUser, PcStates
  <2> QED BY <1>0, <1>2, <2>1
          DEF AddUser, Book, Inv, TypeOK, NewestInv, number, login, history
<1>3. ASSUME NEW r \in Requests, NEW u \in Users, NEW n \in Amounts, OnChangeCredit(r, u, n)
      PROVE  Inv'
  <2>1. req' \in [Requests -> RequestType]
    <3>1. NoAddress \in Octets BY DEF NoAddress, Octets
    <3> QED BY <1>0, <1>3, <3>1, RequestStep DEF OnChangeCredit, PcStates
  <2>2. credit' \in [Users -> Int] /\ misbooked' \in SUBSET Users
    BY <1>0, <1>3 DEF OnChangeCredit, TypeOK
  <2> QED BY <1>0, <1>3, <2>1, <2>2
          DEF OnChangeCredit, Book, Inv, TypeOK, NewestInv, number
<1>4. ASSUME NEW r \in Requests, RegisterInsert(r) PROVE Inv'
  <2>1. req' \in [Requests -> RequestType] /\ req[r].user \in Users /\ req[r].ip \in Octets
    BY <1>0, <1>4, RequestStep DEF RegisterInsert, RequestType
  <2> QED BY <1>0, <1>4, <2>1, InsertStep DEF RegisterInsert, Inv, TypeOK, bounded
<1>5. ASSUME NEW r \in Requests, exist_username(r) PROVE Inv'
  <2>1. req' \in [Requests -> RequestType]
    BY <1>0, <1>5, RequestStep DEF exist_username, PcStates
  <2> QED BY <1>0, <1>5, <2>1
          DEF exist_username, Inv, TypeOK, NewestInv, number, login, history, bounded
<1>6. ASSUME NEW r \in Requests, AddUserInsert(r) PROVE Inv'
  <2>1. /\ req' \in [Requests -> RequestType]
        /\ req[r].user \in Users /\ req[r].ip \in Octets /\ req[r].amount \in Int
    BY <1>0, <1>6, RequestStep DEF AddUserInsert, RequestType, PcStates
  <2>2. misbooked' \in SUBSET Users
    BY <1>0, <1>6, <2>1 DEF AddUserInsert, TypeOK
  <2> QED BY <1>0, <1>6, <2>1, <2>2, InsertStep DEF AddUserInsert, Inv, TypeOK, bounded
<1>7. ASSUME NEW r \in Requests, WriteRecord(r) PROVE Inv'
  <2>1. /\ req' \in [Requests -> RequestType]
        /\ req[r].user \in Users /\ req[r].amount \in Int
    BY <1>0, <1>7, RequestStep DEF WriteRecord, RequestType
  <2>2. ledger' \in [Users -> Int]
    BY <1>0, <1>7, <2>1 DEF WriteRecord, TypeOK
  <2> QED BY <1>0, <1>7, <2>1, <2>2
          DEF WriteRecord, Inv, TypeOK, NewestInv, number, login, history, bounded
<1>8. ASSUME NEW r \in Requests, Crash(r) PROVE Inv'
  <2>1. req' \in [Requests -> RequestType] /\ req[r].user \in Users
    BY <1>0, <1>8, RequestStep DEF Crash, RequestType
  <2>2. misbooked' \in SUBSET Users
    BY <1>0, <1>8, <2>1 DEF Crash, TypeOK
  <2> QED BY <1>0, <1>8, <2>1, <2>2 DEF Crash, Inv, TypeOK, NewestInv, number, login
<1>9. CASE UNCHANGED vars
  BY <1>0, <1>9 DEF vars, Inv, TypeOK, NewestInv, number, login, history, bounded
<1> QED
  BY <1>1, <1>2, <1>3, <1>4, <1>5, <1>6, <1>7, <1>8, <1>9 DEF Next, Serve

\* The variables keep their types; every address has four octets.
THEOREM TypeCorrect == Spec => []TypeOK
<1>1. Inv => TypeOK BY DEF Inv
<1> QED BY <1>1, InitInv, NextInv, PTL DEF Spec

\* Addresses are distinct, for any number of accounts and requests, unless some
\* insertion used an address that had been handed out after it was read.
THEOREM Distinct == Spec => []DistinctUnlessRaced
<1>1. Inv => DistinctUnlessRaced
  BY DEF Inv, TypeOK, NewestInv, DistinctUnlessRaced, number
<1> QED BY <1>1, InitInv, NextInv, PTL DEF Spec

\* No page overwrites an existing account, for any number of requests.
THEOREM Survive == Spec => AccountsSurvive
<1> DEFINE Kept(u) ==
      /\ row'[u] /\ clientip'[u] = clientip[u]
      /\ credit'[u] # credit[u] =>
           \E r \in Requests : req'[r] # req[r] /\ req'[r].pc = "record"
                               /\ req'[r].user = u /\ credit'[u] = credit[u] + req'[r].amount
<1>1. ASSUME Inv, [Next]_vars, NEW u \in Users, row[u] PROVE Kept(u)
  <2>1. ASSUME NEW v \in Users, NEW ip, NEW n, Insert(v, ip, n) PROVE Kept(u)
    BY <1>1, <2>1 DEF Insert, login, Inv, TypeOK
  <2>2. ASSUME UNCHANGED login PROVE Kept(u)
    BY <1>1, <2>2 DEF login
  <2>3. ASSUME NEW r \in Requests, NEW v \in Users, NEW n \in Amounts, OnChangeCredit(r, v, n)
        PROVE  Kept(u)
    <3>1. /\ req[r].pc = "idle" /\ req'[r].pc = "record"
          /\ req'[r].user = v /\ req'[r].amount = n
      BY <2>3, <1>1 DEF OnChangeCredit, Begin, Inv, TypeOK
    <3>2. credit'[u] = IF u = v THEN credit[u] + n ELSE credit[u]
      BY <2>3, <1>1 DEF OnChangeCredit, Inv, TypeOK
    <3>3. row'[u] /\ clientip'[u] = clientip[u]
      BY <2>3, <1>1 DEF OnChangeCredit
    <3> QED BY <3>1, <3>2, <3>3
  <2>4. \A r \in Requests : req[r].user \in Users
    BY <1>1 DEF Inv, TypeOK, RequestType
  <2> HIDE DEF Kept
  <2> QED
    BY <1>1, <2>1, <2>2, <2>3, <2>4
    DEF Next, Serve, vars, Register, AddUser, RegisterInsert, exist_username, AddUserInsert,
        WriteRecord, Crash
<1>2. Inv /\ [Next]_vars => [\A u \in Users : row[u] => Kept(u)]_vars
  BY <1>1
<1> QED BY <1>2, InitInv, NextInv, PTL DEF Spec, AccountsSurvive
-----------------------------------------------------------------------------
(* The books. *)

\* The numbers a[x], x in the finite set S, add up to d: f lists S without
\* repetition and s are the partial sums.
PartialSums(S, a, d, n, f, s) ==
  /\ \A i, j \in 1..n : f[i] = f[j] => i = j
  /\ \A x \in S : \E i \in 1..n : f[i] = x
  /\ s[0] = 0 /\ \A i \in 1..n : s[i] = s[i - 1] + a[f[i]]
  /\ d = s[n]

SumsTo(S, a, d) ==
  \E n \in Nat : \E f \in [1..n -> S] : \E s \in [0..n -> Int] : PartialSums(S, a, d, n, f, s)

LEMMA SumOfNothing == ASSUME NEW a PROVE /\ SumsTo({}, a, 0)
                                         /\ \A d : SumsTo({}, a, d) => d = 0
<1>1. SumsTo({}, a, 0)
  <2> DEFINE f == [i \in 1..0 |-> 0]
             s == [i \in 0..0 |-> 0]
  <2>1. f \in [1..0 -> {}] /\ s \in [0..0 -> Int] /\ s[0] = 0 /\ 0 \in Nat
    OBVIOUS
  <2>2. \A i \in 1..0 : FALSE
    OBVIOUS
  <2> HIDE DEF f, s
  <2>3. PartialSums({}, a, 0, 0, f, s)
    BY <2>1, <2>2 DEF PartialSums
  <2> QED
    BY <2>1, <2>3 DEF SumsTo
<1>2. ASSUME NEW d, SumsTo({}, a, d) PROVE d = 0
  <2>0. PICK n \in Nat : \E f \in [1..n -> {}] : \E s \in [0..n -> Int] : PartialSums({}, a, d, n, f, s)
    BY <1>2 DEF SumsTo
  <2>1. PICK f \in [1..n -> {}], s \in [0..n -> Int] : PartialSums({}, a, d, n, f, s)
    BY <2>0
  <2>2. n = 0
    <3> SUFFICES ASSUME n # 0 PROVE FALSE
      OBVIOUS
    <3>2. 1 \in 1..n
      OBVIOUS
    <3>3. f[1] \in {}
      BY <3>2
    <3> QED
      BY <3>3
  <2> QED
    BY <2>1, <2>2 DEF PartialSums
<1> QED
  BY <1>1, <1>2

\* The sum depends on the numbers in S only.
LEMMA SameSum ==
  ASSUME NEW S, NEW a, NEW b, NEW d, SumsTo(S, a, d), \A y \in S : b[y] = a[y]
  PROVE  SumsTo(S, b, d)
<1>0. PICK n \in Nat : \E f \in [1..n -> S] : \E s \in [0..n -> Int] : PartialSums(S, a, d, n, f, s)
  BY DEF SumsTo
<1>1. PICK f \in [1..n -> S], s \in [0..n -> Int] : PartialSums(S, a, d, n, f, s)
  BY <1>0
<1>2. PartialSums(S, b, d, n, f, s)
  BY <1>1 DEF PartialSums
<1> QED
  BY <1>2 DEF SumsTo

\* One more number, ...
LEMMA SumWithOneMore ==
  ASSUME NEW S, NEW a, NEW b, NEW d \in Int, SumsTo(S, a, d),
         NEW x, x \notin S, b[x] \in Int, \A y \in S : b[y] = a[y]
  PROVE  SumsTo(S \cup {x}, b, d + b[x])
<1>0. PICK n \in Nat : \E f \in [1..n -> S] : \E s \in [0..n -> Int] : PartialSums(S, a, d, n, f, s)
  BY DEF SumsTo
<1>1. PICK f \in [1..n -> S], s \in [0..n -> Int] : PartialSums(S, a, d, n, f, s)
  BY <1>0
<1>2. /\ \A i, j \in 1..n : f[i] = f[j] => i = j
      /\ \A y \in S : \E i \in 1..n : f[i] = y
      /\ s[0] = 0 /\ \A i \in 1..n : s[i] = s[i - 1] + a[f[i]]
      /\ d = s[n]
  BY <1>1 DEF PartialSums
<1> DEFINE m == n + 1
           g == [i \in 1..m |-> IF i = m THEN x ELSE f[i]]
           t == [i \in 0..m |-> IF i = m THEN d + b[x] ELSE s[i]]
<1>3. m \in Nat /\ g \in [1..m -> S \cup {x}] /\ t \in [0..m -> Int]
  OBVIOUS
<1>4. \A i, j \in 1..m : g[i] = g[j] => i = j
  BY <1>2
<1>5. \A y \in S \cup {x} : \E i \in 1..m : g[i] = y
  <2>1. g[m] = x /\ m \in 1..m
    OBVIOUS
  <2>2. ASSUME NEW y \in S PROVE \E i \in 1..m : g[i] = y
    <3>1. PICK i \in 1..n : f[i] = y
      BY <1>2
    <3>2. i \in 1..m /\ g[i] = y
      BY <3>1
    <3> QED
      BY <3>2
  <2> QED
    BY <2>1, <2>2
<1>6. t[0] = 0 /\ t[m] = d + b[x]
  BY <1>2
<1>7. ASSUME NEW i \in 1..m PROVE t[i] = t[i - 1] + b[g[i]]
  <2>1. CASE i = m
    BY <1>2, <2>1
  <2>2. CASE i # m
    <3>1. i \in 1..n /\ i - 1 \in 0..n /\ i - 1 # m
      BY <2>2
    <3>2. t[i] = s[i] /\ t[i - 1] = s[i - 1] /\ g[i] = f[i] /\ b[f[i]] = a[f[i]]
      BY <2>2, <3>1
    <3> QED
      BY <1>2, <3>1, <3>2
  <2> QED
    BY <2>1, <2>2
<1> HIDE DEF m, g, t
<1>8. PartialSums(S \cup {x}, b, d + b[x], m, g, t)
  BY <1>4, <1>5, <1>6, <1>7 DEF PartialSums
<1> QED
  BY <1>3, <1>8 DEF SumsTo

\* ... and one less.
LEMMA SumWithOneLess ==
  ASSUME NEW S, NEW a, NEW b, NEW d \in Int, SumsTo(S, a, d),
         NEW x \in S, \A y \in S : a[y] \in Int, \A y \in S \ {x} : b[y] = a[y]
  PROVE  SumsTo(S \ {x}, b, d - a[x])
<1>0. PICK n \in Nat : \E f \in [1..n -> S] : \E s \in [0..n -> Int] : PartialSums(S, a, d, n, f, s)
  BY DEF SumsTo
<1>1. PICK f \in [1..n -> S], s \in [0..n -> Int] : PartialSums(S, a, d, n, f, s)
  BY <1>0
<1>2. /\ \A i, j \in 1..n : f[i] = f[j] => i = j
      /\ \A y \in S : \E i \in 1..n : f[i] = y
      /\ s[0] = 0 /\ \A i \in 1..n : s[i] = s[i - 1] + a[f[i]]
      /\ d = s[n]
  BY <1>1 DEF PartialSums
<1>3. PICK k \in 1..n : f[k] = x
  BY <1>2
<1>k. s[k] = s[k - 1] + a[x]
  BY <1>2, <1>3
<1> DEFINE m == n - 1
           g == [i \in 1..m |-> IF i < k THEN f[i] ELSE f[i + 1]]
           t == [i \in 0..m |-> IF i < k THEN s[i] ELSE s[i + 1] - a[x]]
<1>4. m \in Nat /\ \A i \in 1..m : i \in 1..n /\ i + 1 \in 1..n
  OBVIOUS
<1>j. \A i \in 1..m : \E j \in 1..n : j # k /\ g[i] = f[j] /\ j = IF i < k THEN i ELSE i + 1
  BY <1>4
<1>5. ASSUME NEW i \in 1..m PROVE g[i] \in S \ {x}
  <2>1. PICK j \in 1..n : j # k /\ g[i] = f[j]
    BY <1>j
  <2>2. f[j] \in S /\ f[j] # f[k]
    BY <1>2, <2>1
  <2> QED
    BY <1>3, <2>1, <2>2
<1>6. t \in [0..m -> Int]
  OBVIOUS
<1>7. ASSUME NEW i \in 1..m, NEW j \in 1..m, g[i] = g[j] PROVE i = j
  <2>1. PICK p \in 1..n : g[i] = f[p] /\ p = IF i < k THEN i ELSE i + 1
    BY <1>j
  <2>2. PICK q \in 1..n : g[j] = f[q] /\ q = IF j < k THEN j ELSE j + 1
    BY <1>j
  <2>3. p = q
    BY <1>2, <1>7, <2>1, <2>2
  <2> QED
    BY <2>1, <2>2, <2>3
<1>8. ASSUME NEW y \in S \ {x} PROVE \E i \in 1..m : g[i] = y
  <2>1. PICK j \in 1..n : f[j] = y
    BY <1>2
  <2>2. j # k
    BY <1>3, <2>1
  <2>3. CASE j < k
    <3>1. j \in 1..m /\ g[j] = y
      BY <2>1, <2>3
    <3> QED
      BY <3>1
  <2>4. CASE j > k
    <3>1. j - 1 \in 1..m /\ ~(j - 1 < k) /\ (j - 1) + 1 = j
      BY <2>4
    <3>2. g[j - 1] = y
      BY <2>1, <3>1
    <3> QED
      BY <3>1, <3>2
  <2> QED
    BY <2>2, <2>3, <2>4
<1>9. t[0] = 0 /\ t[m] = d - a[x]
  <2>1. t[0] = 0
    BY <1>2
  <2>2. CASE m < k
    <3>1. m = k - 1 /\ n = k /\ t[m] = s[m]
      BY <2>2
    <3>2. d = s[k - 1] + a[x] /\ s[k - 1] \in Int /\ a[x] \in Int
      BY <1>2, <1>k, <3>1
    <3>3. s[m] = s[k - 1]
      BY <3>1
    <3> HIDE DEF m, t
    <3>4. t[m] = d - a[x]
      BY <3>1, <3>2, <3>3
    <3> QED
      BY <2>1, <3>4
  <2>3. CASE ~(m < k)
    BY <1>2, <1>4, <2>3
  <2> QED
    BY <2>1, <2>2, <2>3
<1>10. ASSUME NEW i \in 1..m PROVE t[i] = t[i - 1] + b[g[i]]
  <2>0. b[g[i]] = a[g[i]]
    BY <1>5
  <2>1. CASE i < k
    <3>1. t[i] = s[i] /\ t[i - 1] = s[i - 1] /\ g[i] = f[i] /\ i \in 1..n
      BY <2>1
    <3>2. s[i] = s[i - 1] + a[f[i]]
      BY <1>2, <3>1
    <3> QED
      BY <2>0, <3>1, <3>2
  <2>2. CASE i = k
    <3>1. /\ t[i] = s[i + 1] - a[x] /\ t[i - 1] = s[i - 1] /\ g[i] = f[i + 1]
          /\ i + 1 \in 1..n /\ (i + 1) - 1 = i
      <4>1. /\ i \in 0..m /\ i - 1 \in 0..m /\ ~(i < k) /\ i - 1 < k
            /\ i + 1 \in 1..n /\ (i + 1) - 1 = i
        BY <2>2
      <4>2. t[i - 1] = s[i - 1]
        BY <4>1
      <4>3. t[i] = s[i + 1] - a[x] /\ g[i] = f[i + 1]
        BY <4>1
      <4> QED
        BY <4>1, <4>2, <4>3
    <3>2. s[i + 1] = s[i] + a[f[i + 1]]
      BY <1>2, <3>1
    <3>3. a[x] \in Int /\ s[i - 1] \in Int /\ a[f[i + 1]] \in Int
      BY <3>1
    <3> HIDE DEF m, g, t
    <3> QED
      <4>1. s[i] = s[i - 1] + a[x]
        BY <1>k, <2>2
      <4>2. b[g[i]] = a[f[i + 1]]
        BY <2>0, <3>1
      <4>3. s[i + 1] - a[x] = s[i - 1] + a[f[i + 1]]
        BY <3>2, <3>3, <4>1
      <4> QED
        BY <3>1, <4>2, <4>3
  <2>3. CASE i > k
    <3>1. /\ t[i] = s[i + 1] - a[x] /\ t[i - 1] = s[i] - a[x] /\ g[i] = f[i + 1]
          /\ i + 1 \in 1..n /\ (i + 1) - 1 = i
      <4>1. /\ i \in 0..m /\ i - 1 \in 0..m /\ ~(i < k) /\ ~(i - 1 < k) /\ (i - 1) + 1 = i
            /\ i + 1 \in 1..n /\ (i + 1) - 1 = i
        BY <2>3
      <4>2. t[i - 1] = s[(i - 1) + 1] - a[x]
        BY <4>1
      <4>3. t[i] = s[i + 1] - a[x] /\ g[i] = f[i + 1]
        BY <4>1
      <4> QED
        BY <4>1, <4>2, <4>3
    <3>2. s[i + 1] = s[i] + a[f[i + 1]]
      BY <1>2, <3>1
    <3>3. a[x] \in Int /\ s[i] \in Int /\ a[f[i + 1]] \in Int
      BY <3>1
    <3> HIDE DEF m, g, t
    <3> QED
      <4>1. b[g[i]] = a[f[i + 1]]
        BY <2>0, <3>1
      <4>2. s[i + 1] - a[x] = (s[i] - a[x]) + a[f[i + 1]]
        BY <3>2, <3>3
      <4> QED
        BY <3>1, <4>1, <4>2
  <2> QED
    BY <2>1, <2>2, <2>3
<1>11. g \in [1..m -> S \ {x}]
  BY <1>5
<1> HIDE DEF m, g, t
<1>12. PartialSums(S \ {x}, b, d - a[x], m, g, t)
  BY <1>7, <1>8, <1>9, <1>10 DEF PartialSums
<1> QED
  BY <1>4, <1>6, <1>11, <1>12 DEF SumsTo

\* The pages that changed an account of u and have not written it down yet.
Writing(u) == {r \in Requests : req[r].user = u /\ req[r].pc = "record"}
Booked == [r \in Requests |-> req[r].amount]

\* An account without a row has no credit, and what the books of u lack is what
\* these pages are about to write, whichever of them writes first.
BooksInv ==
  \A u \in Users :
    /\ ~row[u] => credit[u] = 0
    /\ u \notin misbooked => SumsTo(Writing(u), Booked, credit[u] - ledger[u])

LEMMA InductiveBooks == Inv /\ BooksInv /\ [Next]_vars => BooksInv'
<1> SUFFICES ASSUME Inv, BooksInv, [Next]_vars, NEW u \in Users
             PROVE  /\ ~row'[u] => credit'[u] = 0
                    /\ u \notin misbooked' =>
                         SumsTo(Writing(u)', Booked', credit'[u] - ledger'[u])
  BY DEF BooksInv
<1> DEFINE G == /\ ~row'[u] => credit'[u] = 0
                /\ u \notin misbooked' =>
                     SumsTo(Writing(u)', Booked', credit'[u] - ledger'[u])
<1>t. /\ req \in [Requests -> RequestType] /\ credit \in [Users -> Int]
      /\ ledger \in [Users -> Int] /\ row \in [Users -> BOOLEAN]
      /\ credit[u] - ledger[u] \in Int
  BY DEF Inv, TypeOK
<1>b. /\ ~row[u] => credit[u] = 0
      /\ u \notin misbooked => SumsTo(Writing(u), Booked, credit[u] - ledger[u])
  BY DEF BooksInv
<1>a. \A r \in Requests : Booked[r] = req[r].amount /\ Booked[r] \in Int /\ req[r].user \in Users
  BY <1>t DEF Booked, RequestType
\* A step of a request that writes nothing and does not touch u's account.
<1>s. ASSUME NEW r \in Requests, req[r].pc # "record" \/ req[r].user # u,
             req'[r].pc # "record" \/ req'[r].user # u,
             \A q \in Requests \ {r} : req'[q] = req[q],
             credit'[u] = credit[u], ledger'[u] = ledger[u], row[u] => row'[u],
             misbooked \subseteq misbooked'
      PROVE  G
  <2>1. Writing(u)' = Writing(u) /\ r \notin Writing(u)
    BY <1>s DEF Writing
  <2>2. \A q \in Writing(u) : Booked'[q] = Booked[q]
    BY <1>s, <2>1 DEF Writing, Booked
  <2>3. u \notin misbooked => SumsTo(Writing(u), Booked', credit[u] - ledger[u])
    BY <1>b, <2>2, SameSum
  <2> QED
    BY <1>s, <1>b, <2>1, <2>3
\* A page that added n to u's credit is about to write it.
<1>w. ASSUME NEW r \in Requests, NEW n \in Int, req[r].pc # "record",
             req'[r].pc = "record", req'[r].user = u, req'[r].amount = n,
             \A q \in Requests \ {r} : req'[q] = req[q],
             u \notin misbooked' => credit'[u] = credit[u] + n /\ u \notin misbooked,
             ledger'[u] = ledger[u], ~row'[u] => credit'[u] = 0
      PROVE  G
  <2>1. Writing(u)' = Writing(u) \cup {r} /\ r \notin Writing(u)
    BY <1>w DEF Writing
  <2>2. Booked'[r] = n /\ \A q \in Writing(u) : Booked'[q] = Booked[q]
    BY <1>w, <2>1 DEF Writing, Booked
  <2>3. ASSUME u \notin misbooked'
        PROVE  SumsTo(Writing(u) \cup {r}, Booked', (credit[u] - ledger[u]) + n)
    <3>1. SumsTo(Writing(u), Booked, credit[u] - ledger[u])
      BY <1>w, <1>b, <2>3
    <3>2. SumsTo(Writing(u) \cup {r}, Booked', (credit[u] - ledger[u]) + Booked'[r])
      BY <1>t, <2>1, <2>2, <3>1, SumWithOneMore
    <3> QED
      BY <2>2, <3>2
  <2>4. u \notin misbooked' => (credit[u] - ledger[u]) + n = credit'[u] - ledger'[u]
    BY <1>w, <1>t
  <2> QED
    BY <1>w, <2>1, <2>3, <2>4
<1>1. ASSUME NEW r \in Requests, NEW v \in Users, Register(r, v) PROVE G
  <2>1. /\ req[r].pc = "idle" /\ req'[r].pc = "register"
        /\ \A q \in Requests \ {r} : req'[q] = req[q]
    BY <1>1, <1>t DEF Register, Begin
  <2> QED
    BY <1>1, <1>s, <2>1 DEF Register, login, history
<1>2. ASSUME NEW r \in Requests, NEW v \in Users, NEW n \in Amounts, AddUser(r, v, n) PROVE G
  <2>1. /\ req[r].pc = "idle" /\ req'[r].pc = "exist"
        /\ \A q \in Requests \ {r} : req'[q] = req[q]
    BY <1>2, <1>t DEF AddUser, Begin
  <2> QED
    BY <1>2, <1>s, <2>1 DEF AddUser, login, history
<1>3. ASSUME NEW r \in Requests, NEW v \in Users, NEW n \in Amounts, OnChangeCredit(r, v, n)
      PROVE  G
  <2>1. /\ req[r].pc = "idle" /\ req'[r].pc = "record" /\ req'[r].user = v
        /\ req'[r].amount = n /\ n \in Int
        /\ \A q \in Requests \ {r} : req'[q] = req[q]
    BY <1>3, <1>t, RegistrationConstants DEF OnChangeCredit, Begin
  <2>2. /\ row' = row /\ ledger' = ledger
        /\ credit' = [credit EXCEPT ![v] = IF row[v] THEN @ + n ELSE @]
        /\ misbooked' = IF row[v] THEN misbooked ELSE misbooked \cup {v}
    BY <1>3 DEF OnChangeCredit
  <2>3. CASE v = u
    <3>1. u \notin misbooked' => credit'[u] = credit[u] + n /\ u \notin misbooked
      BY <1>t, <2>2, <2>3
    <3>2. ~row'[u] => credit'[u] = 0
      BY <1>t, <1>b, <2>2, <2>3
    <3> QED
      BY <1>w, <2>1, <2>2, <2>3, <3>1, <3>2
  <2>4. CASE v # u
    <3>1. credit'[u] = credit[u] /\ misbooked \subseteq misbooked'
      BY <1>t, <2>2, <2>4
    <3> QED
      BY <1>s, <2>1, <2>2, <2>4, <3>1
  <2> QED
    BY <2>3, <2>4
<1>4. ASSUME NEW r \in Requests, RegisterInsert(r) PROVE G
  <2>1. /\ req[r].pc = "register" /\ req'[r].pc = "idle"
        /\ \A q \in Requests \ {r} : req'[q] = req[q]
    BY <1>4, <1>t DEF RegisterInsert, End, Idle
  <2>2. credit'[u] = credit[u] /\ (row[u] => row'[u])
    BY <1>4, <1>t, <1>b, <1>a DEF RegisterInsert, Insert, login
  <2> QED
    BY <1>4, <1>s, <2>1, <2>2 DEF RegisterInsert
<1>5. ASSUME NEW r \in Requests, exist_username(r) PROVE G
  <2>1. /\ req[r].pc = "exist" /\ req'[r].pc # "record"
        /\ \A q \in Requests \ {r} : req'[q] = req[q]
    <3>1. CASE row[req[r].user]
      BY <1>5, <1>t, <3>1 DEF exist_username, End, Idle
    <3>2. CASE ~row[req[r].user]
      BY <1>5, <1>t, <3>2 DEF exist_username, Goto, RequestType
    <3> QED
      BY <3>1, <3>2
  <2> QED
    BY <1>5, <1>s, <2>1 DEF exist_username, login, history
<1>6. ASSUME NEW r \in Requests, AddUserInsert(r) PROVE G
  <2> DEFINE v == req[r].user
             n == req[r].amount
  <2>1. /\ req[r].pc = "add" /\ req'[r].pc = "record" /\ req'[r].user = v
        /\ req'[r].amount = n /\ n \in Int
        /\ \A q \in Requests \ {r} : req'[q] = req[q]
    BY <1>6, <1>t, <1>a DEF AddUserInsert, Goto, RequestType
  <2>2. /\ ledger' = ledger
        /\ misbooked' = IF row[v] THEN misbooked \cup {v} ELSE misbooked
        /\ row[v] => row' = row /\ credit' = credit
        /\ ~row[v] => /\ row' = [row EXCEPT ![v] = TRUE]
                      /\ credit' = [credit EXCEPT ![v] = n]
    BY <1>6 DEF AddUserInsert, Insert, login
  <2>3. CASE v = u
    <3>1. u \notin misbooked' => credit'[u] = credit[u] + n /\ u \notin misbooked
      BY <1>t, <1>b, <2>1, <2>2, <2>3
    <3>2. ~row'[u] => credit'[u] = 0
      BY <1>t, <1>b, <2>2, <2>3
    <3> QED
      BY <1>w, <2>1, <2>2, <2>3, <3>1, <3>2
  <2>4. CASE v # u
    <3>1. credit'[u] = credit[u] /\ misbooked \subseteq misbooked' /\ row'[u] = row[u]
      BY <1>t, <2>2, <2>4
    <3> QED
      BY <1>s, <2>1, <2>2, <2>4, <3>1
  <2> QED
    BY <2>3, <2>4
<1>7. ASSUME NEW r \in Requests, WriteRecord(r) PROVE G
  <2> DEFINE v == req[r].user
             n == req[r].amount
  <2>1. /\ req[r].pc = "record" /\ req'[r].pc = "idle"
        /\ \A q \in Requests \ {r} : req'[q] = req[q]
    BY <1>7, <1>t DEF WriteRecord, End, Idle
  <2>2. /\ ledger' = [ledger EXCEPT ![v] = @ + n]
        /\ row' = row /\ credit' = credit /\ misbooked' = misbooked
    BY <1>7 DEF WriteRecord, login, history
  <2>3. CASE v = u
    <3>1. Writing(u)' = Writing(u) \ {r} /\ r \in Writing(u)
      BY <2>1, <2>3 DEF Writing
    <3>2. /\ \A q \in Writing(u) : Booked[q] \in Int
          /\ \A q \in Writing(u) \ {r} : Booked'[q] = Booked[q]
      BY <1>a, <2>1 DEF Writing, Booked
    <3>3. ASSUME u \notin misbooked
          PROVE  SumsTo(Writing(u) \ {r}, Booked', (credit[u] - ledger[u]) - Booked[r])
      BY <1>b, <1>t, <3>1, <3>2, <3>3, SumWithOneLess
    <3>4. (credit[u] - ledger[u]) - Booked[r] = credit'[u] - ledger'[u]
      BY <1>t, <1>a, <2>2, <2>3
    <3> QED
      BY <1>b, <2>2, <3>1, <3>3, <3>4
  <2>4. CASE v # u
    <3>1. ledger'[u] = ledger[u]
      BY <1>t, <2>2, <2>4
    <3> QED
      BY <1>s, <2>1, <2>2, <2>4, <3>1
  <2> QED
    BY <2>3, <2>4
<1>8. ASSUME NEW r \in Requests, Crash(r) PROVE G
  <2>1. /\ req'[r].pc = "idle"
        /\ \A q \in Requests \ {r} : req'[q] = req[q]
    BY <1>8, <1>t DEF Crash, End, Idle
  <2>2. /\ ledger' = ledger /\ row' = row /\ credit' = credit
        /\ misbooked \subseteq misbooked'
        /\ req[r].pc = "record" => req[r].user \in misbooked'
    BY <1>8 DEF Crash, login
  <2>3. CASE req[r].pc = "record" /\ req[r].user = u
    BY <1>b, <2>2, <2>3
  <2>4. CASE ~(req[r].pc = "record" /\ req[r].user = u)
    BY <1>s, <2>1, <2>2, <2>4
  <2> QED
    BY <2>3, <2>4
<1>9. CASE UNCHANGED vars
  BY <1>9, <1>b DEF vars, login, history, Writing, Booked
<1> QED
  BY <1>1, <1>2, <1>3, <1>4, <1>5, <1>6, <1>7, <1>8, <1>9 DEF Next, Serve

\* The ledger agrees with the credit the administrator's pages gave, for any
\* number of concurrent pages and bookings, but for the named causes.
THEOREM Balance == Spec => []BooksBalance
<1>1. Init => BooksInv
  <2> SUFFICES ASSUME Init, NEW u \in Users
               PROVE  credit[u] = 0 /\ SumsTo(Writing(u), Booked, credit[u] - ledger[u])
    BY DEF BooksInv
  <2>1. Writing(u) = {}
    BY DEF Init, Writing, Idle
  <2>2. credit[u] = 0 /\ ledger[u] = 0
    BY DEF Init
  <2>3. credit[u] - ledger[u] = 0
    BY <2>2
  <2> QED
    BY <2>1, <2>2, <2>3, SumOfNothing
<1>2. Inv /\ BooksInv => BooksBalance
  <2> SUFFICES ASSUME Inv, BooksInv, NEW u \in Users, u \notin misbooked, Writing(u) = {}
               PROVE  ledger[u] = credit[u]
    BY DEF BooksBalance, Writing
  <2>1. credit[u] - ledger[u] = 0
    BY SumOfNothing DEF BooksInv
  <2> QED
    BY <2>1 DEF Inv, TypeOK
<1> QED
  BY <1>1, <1>2, InductiveBooks, InitInv, NextInv, PTL DEF Spec
=============================================================================
