--------------------------- MODULE ChannelProofs ----------------------------
(***************************************************************************)
(* Proofs about the two channels of OpenVPN.  The data channel: nothing is *)
(* accepted twice, nothing that is recent enough is refused, fragments     *)
(* become the datagrams they were cut from, and a datagram that arrived    *)
(* comes out, but for named causes.  The control channel: it               *)
(* implements two reliable streams, gives up no packet the peer lacks, and *)
(* agrees on keys.  For every size of the windows and buffers, any traffic *)
(* or negotiation and any behaviour of the network.                        *)
(***************************************************************************)
EXTENDS DataChannel, ControlChannel, FiniteSetTheorems, WellFoundedInduction, TLAPS

Packet == [type : {"WHOLE", "LAST", "NOTLAST"}, seq_id : Int, frag_id : Nat, size : Int, d : Nat]
RecType == [id : Nat, seq_list : Seq(Nat), last_reap : Nat]

\* Types of what the replay window depends on.
TypeInv ==
  /\ out \in [d : Nat, seq_id : Int, frag_id : Nat, left : Int, size : Int]
  /\ sent \in Seq(Packet)
  /\ rec \in RecType
  /\ now \in Nat /\ now > EXPIRED
  /\ accepted \subseteq [id : Nat, at : Nat]

\* The window reaches back to the first id until it is SeqBacktrack long.
Covers(p) == Len(p.seq_list) = IF p.id < SeqBacktrack THEN p.id ELSE SeqBacktrack

\* What was accepted is not above the window, and marked if it is in it.
Remembers(p) ==
  \A a \in accepted :
    /\ a.id \in 1..p.id
    /\ p.id - a.id < Len(p.seq_list) => p.seq_list[p.id - a.id + 1] # UNSEEN

\* A mark in the window is the time its id was accepted, or that id is behind
\* one which was accepted more than TimeBacktrack ago.
TooLate(id) ==
  TimeBacktrack # 0 /\ \E a \in accepted : a.id >= id /\ a.at + TimeBacktrack < now

Explained(p) ==
  \A i \in 1..Len(p.seq_list) :
    p.seq_list[i] # UNSEEN =>
      \/ \E a \in accepted : a.id = p.id - i + 1 /\ a.at = p.seq_list[i]
      \/ TooLate(p.id - i + 1)

WindowInv == Covers(rec) /\ Remembers(rec) /\ Explained(rec)

\* The inductive invariant; with TCP (SeqBacktrack = 0) the window stays empty.
IInv == TypeInv /\ (SeqBacktrack # 0 => WindowInv) /\ (SeqBacktrack = 0 => Remembers(rec))
          /\ (SeqBacktrack = 0 => rec.seq_list = <<>>) /\ repeated = {}
-----------------------------------------------------------------------------
(* Sequences and the operators of packet_id.c. *)

\* A function on 1..n is a sequence of length n.
LEMMA SeqOfFunction ==
  ASSUME NEW S, NEW n \in Nat, NEW f \in [1..n -> S]
  PROVE  f \in Seq(S) /\ Len(f) = n
OBVIOUS

\* packet_id_reap_test keeps the highest id and the length of the window, and
\* expires an entry only at or behind one that is stale.
LEMMA ReapTest ==
  ASSUME NEW p \in RecType, NEW t \in Nat
  PROVE  LET q == packet_id_reap_test(p, t)
         IN /\ q \in RecType /\ q.id = p.id /\ Len(q.seq_list) = Len(p.seq_list)
            /\ \A i \in 1..Len(p.seq_list) :
                 \/ q.seq_list[i] = p.seq_list[i]
                 \/ /\ q.seq_list[i] = EXPIRED /\ TimeBacktrack # 0
                    /\ \E j \in 1..i : Stale(p.seq_list[j], t)
<1> DEFINE l == p.seq_list
<1>1. l \in Seq(Nat) /\ Len(l) \in Nat /\ \A i \in 1..Len(l) : l[i] \in Nat
  BY DEF RecType
<1>2. Reaped(l, t) \in [1..Len(l) -> Nat]
  BY <1>1 DEF Reaped, EXPIRED
<1>3. Reaped(l, t) \in Seq(Nat) /\ Len(Reaped(l, t)) = Len(l)
  BY <1>1, <1>2, SeqOfFunction
<1>4. \A i \in 1..Len(l) :
        \/ Reaped(l, t)[i] = l[i]
        \/ Reaped(l, t)[i] = EXPIRED /\ \E j \in 1..i : Stale(l[j], t)
  BY <1>1 DEF Reaped
<1>5. /\ packet_id_reap(p, t).id = p.id
      /\ packet_id_reap(p, t).seq_list = IF TimeBacktrack = 0 THEN l ELSE Reaped(l, t)
      /\ packet_id_reap(p, t) \in RecType
  BY <1>1, <1>3 DEF packet_id_reap, RecType
<1>6. CASE p.last_reap + ReapInterval <= t /\ TimeBacktrack # 0
  BY <1>1, <1>3, <1>4, <1>5, <1>6 DEF packet_id_reap_test, RecType
<1>7. CASE ~(p.last_reap + ReapInterval <= t /\ TimeBacktrack # 0)
  BY <1>1, <1>5, <1>7 DEF packet_id_reap_test, RecType
<1> QED
  BY <1>6, <1>7

\* k pushes: a longer window, the old entries k places further back.
LEMMA PushedEffect ==
  ASSUME NEW l \in Seq(Nat), NEW k \in Nat
  PROVE  /\ Pushed(l, k) \in Seq(Nat)
         /\ Len(Pushed(l, k)) = IF Len(l) + k < SeqBacktrack THEN Len(l) + k ELSE SeqBacktrack
         /\ \A i \in 1..Len(Pushed(l, k)) :
              Pushed(l, k)[i] = IF i <= k THEN UNSEEN ELSE l[i - k]
<1> DEFINE n == IF Len(l) + k < SeqBacktrack THEN Len(l) + k ELSE SeqBacktrack
<1>1. n \in Nat /\ n <= Len(l) + k
  BY ReplayConstants
<1>2. Pushed(l, k) \in [1..n -> Nat]
  BY <1>1 DEF Pushed, UNSEEN
<1>3. Pushed(l, k) \in Seq(Nat) /\ Len(Pushed(l, k)) = n
  BY <1>1, <1>2, SeqOfFunction
<1> QED
  BY <1>1, <1>3 DEF Pushed

\* packet_id_add on a record whose window covers: the new top, the length, and
\* every entry of the new window.
LEMMA AddEffect ==
  ASSUME NEW p \in RecType, Covers(p), SeqBacktrack # 0,
         NEW id \in Nat \ {0}, NEW t \in Nat, t > EXPIRED, packet_id_test(p, id)
  PROVE  LET q == packet_id_add(p, id, t)
             k == q.id - p.id
         IN /\ q \in RecType /\ Covers(q)
            /\ q.id = IF p.id < id THEN id ELSE p.id
            /\ id \in 1..q.id
            /\ \A i \in 1..Len(q.seq_list) :
                 \/ i = q.id - id + 1 /\ q.seq_list[i] = t
                 \/ i # q.id - id + 1 /\ i <= k /\ q.seq_list[i] = UNSEEN
                 \/ /\ i # q.id - id + 1 /\ i - k \in 1..Len(p.seq_list)
                    /\ q.seq_list[i] = p.seq_list[i - k]
<1> DEFINE l == p.seq_list
           anew == l = <<>> \/ (id >= SeqBacktrack /\ id - SeqBacktrack > p.id)
           base == IF ~anew THEN p.id ELSE IF id > SeqBacktrack THEN id - SeqBacktrack ELSE 0
           top == IF base < id THEN id ELSE base
           old == IF anew THEN <<>> ELSE l
           k == top - base
           list == Pushed(old, k)
           q == packet_id_add(p, id, t)
<1>1. /\ l \in Seq(Nat) /\ p.id \in Nat /\ SeqBacktrack \in Nat \ {0}
      /\ Len(l) = IF p.id < SeqBacktrack THEN p.id ELSE SeqBacktrack
  BY ReplayConstants DEF RecType, Covers
<1>2. l = <<>> => p.id = 0
  BY <1>1
<1>3. base \in Nat /\ top \in Nat /\ k \in Nat /\ k = top - base /\ id <= top
  BY <1>1
<1>4. top = IF p.id < id THEN id ELSE p.id
  BY <1>1, <1>2
<1>5. /\ anew => old = <<>> /\ base >= p.id /\ (k = SeqBacktrack \/ (base = 0 /\ k <= SeqBacktrack))
      /\ ~anew => old = l /\ base = p.id
      /\ old \in Seq(Nat)
  BY <1>1, <1>2
<1>6. /\ q.id = top
      /\ q.seq_list = IF top - id < Len(list) /\ t > EXPIRED
                      THEN [list EXCEPT ![top - id + 1] = t] ELSE list
      /\ q.last_reap = p.last_reap
  BY DEF packet_id_add, RecType
<1> HIDE DEF anew, base, top, old, k
<1>7. /\ list \in Seq(Nat)
      /\ Len(list) = IF Len(old) + k < SeqBacktrack THEN Len(old) + k ELSE SeqBacktrack
  BY <1>3, <1>5, PushedEffect
<1>e. \A i \in 1..Len(list) : list[i] = IF i <= k THEN UNSEEN ELSE old[i - k]
  BY <1>3, <1>5, PushedEffect
<1> HIDE DEF list
<1>8. Len(list) = IF top < SeqBacktrack THEN top ELSE SeqBacktrack
  <2>1. CASE anew
    BY <1>1, <1>3, <1>5, <1>7, <2>1
  <2>2. CASE ~anew
    <3>1. Len(old) = Len(l) /\ k = top - p.id
      BY <1>3, <1>5, <2>2
    <3> QED
      BY <1>1, <1>3, <1>7, <3>1
  <2> QED
    BY <2>1, <2>2
<1>9. ASSUME NEW i \in 1..Len(list)
      PROVE  \/ i <= top - p.id /\ list[i] = UNSEEN
             \/ i - (top - p.id) \in 1..Len(l) /\ list[i] = l[i - (top - p.id)]
  <2>i. i \in Int /\ i <= Len(list) /\ k \in Int /\ Len(l) \in Int /\ 1 <= i
    BY <1>1, <1>3, <1>7
  <2>e. list[i] = IF i <= k THEN UNSEEN ELSE old[i - k]
    BY <1>e
  <2>1. CASE anew
    <3>1. Len(old) = 0 /\ Len(list) <= k /\ k <= top - p.id
      BY <1>1, <1>3, <1>5, <1>7, <2>1
    <3>2. i <= k
      BY <2>i, <3>1, <1>7
    <3>3. i <= top - p.id
      BY <2>i, <3>1, <3>2, <1>1, <1>3
    <3> QED
      BY <2>e, <3>2, <3>3
  <2>2. CASE ~anew
    <3>1. old = l /\ k = top - p.id
      BY <1>3, <1>5, <2>2
    <3>l. Len(list) <= Len(l) + k
      BY <1>1, <2>i, <1>7, <3>1
    <3>2. CASE i <= k
      BY <2>e, <3>1, <3>2
    <3>3. CASE ~(i <= k)
      <4>1. i - k \in 1..Len(l)
        <5>1. i - k \in Int /\ 1 <= i - k
          BY <2>i, <3>3
        <5>2. i - k <= Len(l)
          BY <2>i, <3>l, <1>7
        <5> QED
          BY <5>1, <5>2, <2>i
      <4>2. list[i] = l[i - k]
        BY <2>e, <3>1, <3>3
      <4> QED
        BY <3>1, <4>1, <4>2
    <3> QED
      BY <3>2, <3>3
  <2> QED
    BY <2>1, <2>2
<1>10. /\ q.seq_list \in Seq(Nat) /\ Len(q.seq_list) = Len(list)
       /\ \A i \in 1..Len(list) : q.seq_list[i] = IF i = top - id + 1 THEN t ELSE list[i]
  <2>1. Len(list) \in Nat /\ top - id + 1 \in Int /\ 1 <= top - id + 1
    BY <1>3, <1>7
  <2>2. CASE top - id < Len(list)
    <3>1. q.seq_list = [list EXCEPT ![top - id + 1] = t]
      BY <1>6, <2>2
    <3>2. DOMAIN list = 1..Len(list) /\ list \in [1..Len(list) -> Nat]
      BY <1>7
    <3>3. q.seq_list \in [1..Len(list) -> Nat]
      BY <3>1, <3>2
    <3>4. q.seq_list \in Seq(Nat) /\ Len(q.seq_list) = Len(list)
      BY <2>1, <3>3, SeqOfFunction
    <3>5. \A i \in 1..Len(list) : q.seq_list[i] = IF i = top - id + 1 THEN t ELSE list[i]
      BY <3>1, <3>2
    <3> QED
      BY <3>4, <3>5
  <2>3. CASE ~(top - id < Len(list))
    <3>1. q.seq_list = list
      BY <1>6, <2>3
    <3>2. \A i \in 1..Len(list) : i # top - id + 1
      BY <1>3, <2>1, <2>3
    <3> QED
      BY <1>7, <3>1, <3>2
  <2> QED
    BY <2>2, <2>3
<1>11. q \in RecType
  BY <1>3, <1>6, <1>10 DEF RecType, packet_id_add
<1>12. Covers(q)
  BY <1>6, <1>8, <1>10 DEF Covers
<1>13. ASSUME NEW i \in 1..Len(q.seq_list)
       PROVE  \/ i = q.id - id + 1 /\ q.seq_list[i] = t
              \/ i # q.id - id + 1 /\ i <= q.id - p.id /\ q.seq_list[i] = UNSEEN
              \/ /\ i # q.id - id + 1 /\ i - (q.id - p.id) \in 1..Len(p.seq_list)
                 /\ q.seq_list[i] = p.seq_list[i - (q.id - p.id)]
  BY <1>6, <1>9, <1>10
<1>14. q.id = (IF p.id < id THEN id ELSE p.id) /\ id \in 1..q.id
  BY <1>3, <1>4, <1>6
<1> QED
  BY <1>11, <1>12, <1>13, <1>14
-----------------------------------------------------------------------------
(* The sender's part of the types. *)

LEMMA SizeType ==
  ASSUME NEW len \in Nat PROVE optimal_fragment_size(len, Payload) \in Int
<1> DEFINE aligned == Payload - (Payload % 4)
<1>1. Payload \in Nat /\ aligned \in Nat \ {0}
  BY DataConstants
<1>2. len \div aligned \in Nat /\ len % aligned \in Nat
  BY <1>1
<1>3. (Payload - (len % aligned)) \div ((len \div aligned) + 1) \in Int
  BY <1>1, <1>2
<1> HIDE DEF aligned
<1>4. \A n \in Int : n - (n % 4) \in Int
  OBVIOUS
<1> QED
  BY <1>1, <1>2, <1>3, <1>4 DEF optimal_fragment_size, Round, Least, aligned

\* Sending a fragment keeps the types.
LEMMA SendType ==
  ASSUME sent \in Seq(Packet),
         NEW o \in [d : Nat, seq_id : Int, frag_id : Nat, left : Int, size : Int], Send(o)
  PROVE  /\ out' \in [d : Nat, seq_id : Int, frag_id : Nat, left : Int, size : Int]
         /\ sent' \in Seq(Packet)
<1>1. fragment_ready_to_send(o).packet \in Packet
  BY DEF fragment_ready_to_send, Packet
<1>2. fragment_ready_to_send(o).out
        \in [d : Nat, seq_id : Int, frag_id : Nat, left : Int, size : Int]
  <2>1. o.left - Least(o.left, o.size) \in Int /\ o.frag_id + 1 \in Nat
    BY DEF Least
  <2> QED
    BY <2>1 DEF fragment_ready_to_send
<1> QED
  BY <1>1, <1>2 DEF Send, encrypt_sign
\* Every step keeps the types of the sender, the network and the clock.
LEMMA TypeInitial == Init => TypeInv
BY DataConstants
   DEF Init, TypeInv, packet_id_init, RecType, Packet, EXPIRED

LEMMA TypeInductive ==
  ASSUME TypeInv, (SeqBacktrack # 0 => Covers(rec)), [Next]_vars
  PROVE  TypeInv'
<1>1. CASE fragment_outgoing
  <2>1. /\ out.d + 1 \in Nat /\ Lengths[out.d + 1] \in Nat
        /\ modulo_add(out.seq_id, 1, NSeqId) \in Int
    <3>1. out.d \in Nat /\ out.d < Len(Lengths) /\ out.seq_id \in Int
      BY <1>1 DEF fragment_outgoing, TypeInv
    <3>2. NSeqId \in Nat /\ Lengths \in Seq(Nat \ {0})
      BY DataConstants
    <3>3. Lengths[out.d + 1] \in Nat
      BY <3>1, <3>2
    <3>4. modulo_add(out.seq_id, 1, NSeqId) \in Int
      BY <3>1, <3>2, SMTT(30) DEF modulo_add
    <3> QED
      BY <3>1, <3>3, <3>4
  <2>2. /\ out' \in [d : Nat, seq_id : Int, frag_id : Nat, left : Int, size : Int]
        /\ sent' \in Seq(Packet)
    <3> DEFINE d == out.d + 1
               len == Lengths[d]
               o == [d |-> d, seq_id |-> modulo_add(out.seq_id, 1, NSeqId), frag_id |-> 0,
                     left |-> len, size |-> optimal_fragment_size(len, Payload)]
    <3>1. CASE ~Long(len)
      <4>1. whole(d) \in Packet
        BY <2>1 DEF whole, Packet
      <4>2. sent' = Append(sent, whole(d)) /\ out' = [out EXCEPT !.d = d]
        BY <1>1, <3>1 DEF fragment_outgoing, encrypt_sign, TooLong
      <4> QED
        BY <2>1, <4>1, <4>2 DEF TypeInv
    <3>2. CASE TooLong(len)
      <4>1. sent' = sent /\ out' = [out EXCEPT !.d = d]
        BY <1>1, <3>2 DEF fragment_outgoing, TooLong
      <4> QED
        BY <2>1, <4>1 DEF TypeInv
    <3>3. CASE Long(len) /\ ~TooLong(len)
      <4>1. Send(o)
        BY <1>1, <3>3 DEF fragment_outgoing
      <4>2. o \in [d : Nat, seq_id : Int, frag_id : Nat, left : Int, size : Int]
        BY <2>1, SizeType
      <4> HIDE DEF o
      <4> QED
        BY <4>1, <4>2, SendType DEF TypeInv
    <3> QED
      BY <3>1, <3>2, <3>3
  <2> QED
    BY <1>1, <2>2 DEF fragment_outgoing, TypeInv, history
<1>2. CASE check_fragment
  <2>1. /\ out' \in [d : Nat, seq_id : Int, frag_id : Nat, left : Int, size : Int]
        /\ sent' \in Seq(Packet)
    BY <1>2, SendType DEF check_fragment, TypeInv
  <2> QED
    BY <1>2, <2>1 DEF check_fragment, TypeInv, history
<1>3. ASSUME NEW id \in 1..Len(sent), process_incoming_link(id) PROVE TypeInv'
  <2> DEFINE p == packet_id_reap_test(rec, now)
  <2>1. p \in RecType /\ p.id = rec.id /\ Len(p.seq_list) = Len(rec.seq_list)
    BY ReapTest DEF TypeInv
  <2>2. UNCHANGED <<out, sent, now>>
    BY <1>3 DEF process_incoming_link
  <2>3. id \in Nat \ {0} /\ now \in Nat /\ now > EXPIRED
    BY DEF TypeInv
  <2>4. \/ packet_id_test(p, id) /\ rec' = packet_id_add(p, id, now)
           /\ accepted' = accepted \cup {[id |-> id, at |-> now]}
        \/ rec' = p /\ accepted' = accepted
    BY <1>3 DEF process_incoming_link, history
  <2>5. accepted' \subseteq [id : Nat, at : Nat]
    BY <2>3, <2>4 DEF TypeInv
  <2>6. rec' \in RecType
    <3>1. CASE SeqBacktrack = 0
      BY <2>1, <2>3, <2>4, <3>1 DEF packet_id_add, RecType
    <3>2. CASE SeqBacktrack # 0
      <4>1. Covers(p)
        BY <2>1, <3>2 DEF Covers
      <4> HIDE DEF p
      <4> QED
        BY <2>1, <2>3, <2>4, <3>2, <4>1, AddEffect
    <3> QED
      BY <3>1, <3>2
  <2> QED
    BY <2>2, <2>5, <2>6 DEF TypeInv
<1>4. CASE fragment_wakeup \/ Tick \/ UNCHANGED vars
  BY <1>4 DEF fragment_wakeup, Tick, vars, history, TypeInv, EXPIRED
<1> QED
  BY <1>1, <1>2, <1>3, <1>4 DEF Next
-----------------------------------------------------------------------------
(* The window. *)

\* Reaping keeps what the window says about the accepted packets.
LEMMA ReapKeeps ==
  ASSUME TypeInv, WindowInv
  PROVE  LET p == packet_id_reap_test(rec, now)
         IN p \in RecType /\ p.id = rec.id /\ Covers(p) /\ Remembers(p) /\ Explained(p)
<1> DEFINE p == packet_id_reap_test(rec, now)
<1>1. /\ p \in RecType /\ p.id = rec.id /\ Len(p.seq_list) = Len(rec.seq_list)
      /\ \A i \in 1..Len(rec.seq_list) :
           \/ p.seq_list[i] = rec.seq_list[i]
           \/ /\ p.seq_list[i] = EXPIRED /\ TimeBacktrack # 0
              /\ \E j \in 1..i : Stale(rec.seq_list[j], now)
  BY ReapTest DEF TypeInv
<1> HIDE DEF p
<1>t. rec.id \in Nat /\ Len(rec.seq_list) \in Nat /\ now \in Nat /\ TimeBacktrack \in Nat
      /\ accepted \subseteq [id : Nat, at : Nat]
  BY ReplayConstants DEF TypeInv, RecType
<1>2. Covers(p)
  BY <1>1 DEF WindowInv, Covers
<1>3. Remembers(p)
  <2> SUFFICES ASSUME NEW a \in accepted
               PROVE  /\ a.id \in 1..p.id
                      /\ p.id - a.id < Len(p.seq_list) => p.seq_list[p.id - a.id + 1] # UNSEEN
    BY DEF Remembers
  <2>1. /\ a.id \in 1..rec.id
        /\ rec.id - a.id < Len(rec.seq_list) => rec.seq_list[rec.id - a.id + 1] # UNSEEN
    BY DEF WindowInv, Remembers
  <2>2. ASSUME rec.id - a.id < Len(rec.seq_list)
        PROVE  p.seq_list[rec.id - a.id + 1] # UNSEEN
    <3>1. rec.id - a.id + 1 \in 1..Len(rec.seq_list)
      BY <1>t, <2>1, <2>2
    <3>2. \/ p.seq_list[rec.id - a.id + 1] = rec.seq_list[rec.id - a.id + 1]
          \/ p.seq_list[rec.id - a.id + 1] = EXPIRED
      BY <1>1, <3>1
    <3> QED
      BY <2>1, <2>2, <3>2 DEF UNSEEN, EXPIRED
  <2> QED
    BY <1>1, <2>1, <2>2
<1>4. Explained(p)
  <2> SUFFICES ASSUME NEW i \in 1..Len(rec.seq_list), p.seq_list[i] # UNSEEN
               PROVE  \/ \E a \in accepted : a.id = rec.id - i + 1 /\ a.at = p.seq_list[i]
                      \/ TooLate(rec.id - i + 1)
    BY <1>1 DEF Explained
  <2>1. CASE p.seq_list[i] = rec.seq_list[i]
    BY <2>1 DEF WindowInv, Explained
  <2>2. CASE TimeBacktrack # 0 /\ \E j \in 1..i : Stale(rec.seq_list[j], now)
    <3>1. PICK j \in 1..i : Stale(rec.seq_list[j], now)
      BY <2>2
    <3>2. j \in 1..Len(rec.seq_list) /\ rec.seq_list[j] # UNSEEN
          /\ rec.seq_list[j] + TimeBacktrack < now
      BY <1>t, <3>1 DEF Stale
    <3>3. \/ \E a \in accepted : a.id = rec.id - j + 1 /\ a.at = rec.seq_list[j]
          \/ TooLate(rec.id - j + 1)
      BY <3>2 DEF WindowInv, Explained
    <3>4. PICK a \in accepted : a.id >= rec.id - j + 1 /\ a.at + TimeBacktrack < now
      BY <3>2, <3>3, <1>t DEF TooLate
    <3>5. a.id >= rec.id - i + 1
      BY <3>4, <1>t
    <3> QED
      BY <2>2, <3>4, <3>5 DEF TooLate
  <2> QED
    BY <1>1, <2>1, <2>2
<1> QED
  BY <1>1, <1>2, <1>3, <1>4 DEF p

\* An accepted packet is new, and the window keeps what it says.
LEMMA AcceptKeeps ==
  ASSUME TypeInv, WindowInv, SeqBacktrack # 0,
         NEW id \in Nat \ {0},
         LET p == packet_id_reap_test(rec, now)
         IN packet_id_test(p, id) /\ rec' = packet_id_add(p, id, now),
         accepted' = accepted \cup {[id |-> id, at |-> now]}, now' = now
  PROVE  WindowInv' /\ \A a \in accepted : a.id # id
<1> DEFINE p == packet_id_reap_test(rec, now)
           k == rec'.id - p.id
<1>p. p \in RecType /\ Covers(p) /\ Remembers(p) /\ Explained(p)
  BY ReapKeeps
<1>a. packet_id_test(p, id) /\ rec' = packet_id_add(p, id, now)
  OBVIOUS
<1>t. now \in Nat /\ now > EXPIRED /\ TimeBacktrack \in Nat
      /\ accepted \subseteq [id : Nat, at : Nat]
  BY ReplayConstants DEF TypeInv
<1> HIDE DEF p
<1>1. /\ rec' \in RecType /\ Covers(rec')
      /\ rec'.id = IF p.id < id THEN id ELSE p.id
      /\ id \in 1..rec'.id
      /\ \A i \in 1..Len(rec'.seq_list) :
           \/ i = rec'.id - id + 1 /\ rec'.seq_list[i] = now
           \/ i # rec'.id - id + 1 /\ i <= k /\ rec'.seq_list[i] = UNSEEN
           \/ /\ i # rec'.id - id + 1 /\ i - k \in 1..Len(p.seq_list)
              /\ rec'.seq_list[i] = p.seq_list[i - k]
  BY <1>p, <1>a, <1>t, AddEffect
<1>u. p.id \in Nat /\ rec'.id \in Nat /\ k \in Nat /\ Len(p.seq_list) \in Nat
      /\ Len(rec'.seq_list) \in Nat
  BY <1>p, <1>1 DEF RecType
<1>2. \A a \in accepted : a.id # id
  BY <1>p, <1>a, <1>t, <1>u DEF packet_id_test, Remembers
<1>3. Covers(rec)'
  BY <1>1 DEF Covers
<1>4. Remembers(rec)'
  <2> SUFFICES ASSUME NEW a \in accepted'
               PROVE  /\ a.id \in 1..rec'.id
                      /\ rec'.id - a.id < Len(rec'.seq_list) =>
                           rec'.seq_list[rec'.id - a.id + 1] # UNSEEN
    BY DEF Remembers
  <2>1. CASE a \in accepted
    <3>1. a.id \in 1..p.id /\ (p.id - a.id < Len(p.seq_list) => p.seq_list[p.id - a.id + 1] # UNSEEN)
      BY <1>p, <2>1 DEF Remembers
    <3>2. a.id \in 1..rec'.id
      BY <1>u, <3>1
    <3>3. ASSUME rec'.id - a.id < Len(rec'.seq_list)
          PROVE  rec'.seq_list[rec'.id - a.id + 1] # UNSEEN
      <4> DEFINE i == rec'.id - a.id + 1
      <4>1. i \in 1..Len(rec'.seq_list) /\ i > k /\ i - k = p.id - a.id + 1
        BY <1>u, <3>1, <3>2, <3>3
      <4>2. i - k \in 1..Len(p.seq_list) => p.seq_list[i - k] # UNSEEN
        <5>0. a.id \in Int /\ p.id \in Int /\ Len(p.seq_list) \in Int
          BY <1>u, <3>1
        <5>1. p.id - a.id + 1 \in 1..Len(p.seq_list) => p.id - a.id < Len(p.seq_list)
          BY <5>0
        <5> QED
          BY <3>1, <4>1, <5>1
      <4> HIDE DEF i
      <4>3. rec'.seq_list[i] = now \/ rec'.seq_list[i] # UNSEEN
        BY <1>1, <1>u, <4>1, <4>2
      <4> QED
        BY <1>t, <4>3 DEF i, UNSEEN, EXPIRED
    <3> QED
      BY <3>2, <3>3
  <2>2. CASE a = [id |-> id, at |-> now]
    <3>1. a.id = id /\ rec'.id - id + 1 \in Nat \ {0}
      BY <1>1, <1>u, <2>2
    <3>2. ASSUME rec'.id - id < Len(rec'.seq_list)
          PROVE  rec'.seq_list[rec'.id - id + 1] = now
      <4>1. rec'.id - id + 1 \in 1..Len(rec'.seq_list)
        BY <1>u, <3>1, <3>2
      <4> QED
        BY <1>1, <4>1
    <3> QED
      BY <1>1, <1>t, <3>1, <3>2 DEF UNSEEN, EXPIRED
  <2> QED
    BY <2>1, <2>2
<1>5. Explained(rec)'
  <2> SUFFICES ASSUME NEW i \in 1..Len(rec'.seq_list), rec'.seq_list[i] # UNSEEN
               PROVE  \/ \E a \in accepted' : a.id = rec'.id - i + 1 /\ a.at = rec'.seq_list[i]
                      \/ /\ TimeBacktrack # 0
                         /\ \E a \in accepted' : /\ a.id >= rec'.id - i + 1
                                                 /\ a.at + TimeBacktrack < now
    BY DEF Explained, TooLate
  <2>1. CASE i = rec'.id - id + 1 /\ rec'.seq_list[i] = now
    <3>1. id = rec'.id - i + 1
      BY <1>1, <1>u, <2>1
    <3>2. [id |-> id, at |-> now] \in accepted'
      OBVIOUS
    <3> QED
      BY <2>1, <3>1, <3>2
  <2>2. CASE i - k \in 1..Len(p.seq_list) /\ rec'.seq_list[i] = p.seq_list[i - k]
    <3>1. \/ \E a \in accepted : a.id = p.id - (i - k) + 1 /\ a.at = p.seq_list[i - k]
          \/ TooLate(p.id - (i - k) + 1)
      BY <1>p, <2>2 DEF Explained
    <3>2. p.id - (i - k) + 1 = rec'.id - i + 1
      BY <1>u
    <3> QED
      BY <2>2, <3>1, <3>2 DEF TooLate
  <2> QED
    BY <1>1, <2>1, <2>2
<1> QED
  BY <1>2, <1>3, <1>4, <1>5 DEF WindowInv
-----------------------------------------------------------------------------
(* The invariant and the theorems. *)

LEMMA IInvInitial == Init => IInv
<1> SUFFICES ASSUME Init PROVE IInv
  OBVIOUS
<1>1. TypeInv
  BY TypeInitial
<1>2. rec.id = 0 /\ rec.seq_list = <<>> /\ accepted = {} /\ repeated = {}
  BY DEF Init, packet_id_init
<1>3. Covers(rec)
  BY <1>2, ReplayConstants DEF Covers
<1> QED
  BY <1>1, <1>2, <1>3 DEF IInv, WindowInv, Remembers, Explained

LEMMA IInvInductive == IInv /\ [Next]_vars => IInv'
<1> SUFFICES ASSUME IInv, [Next]_vars PROVE IInv'
  OBVIOUS
<1>t. TypeInv /\ TypeInv'
  BY TypeInductive DEF IInv, WindowInv
<1>1. ASSUME NEW id \in 1..Len(sent), process_incoming_link(id) PROVE IInv'
  <2> DEFINE p == packet_id_reap_test(rec, now)
  <2>i. id \in Nat \ {0} /\ now' = now
    BY <1>1, <1>t DEF TypeInv, process_incoming_link
  <2>r. p \in RecType /\ p.id = rec.id /\ Len(p.seq_list) = Len(rec.seq_list)
    BY <1>t, ReapTest DEF TypeInv
  <2>1. CASE /\ packet_id_test(p, id) /\ rec' = packet_id_add(p, id, now)
             /\ accepted' = accepted \cup {[id |-> id, at |-> now]}
             /\ repeated' = repeated \cup {a.id : a \in {b \in accepted : b.id = id}}
    <3>1. CASE SeqBacktrack # 0
      <4>1. WindowInv' /\ \A a \in accepted : a.id # id
        BY <1>t, <2>1, <2>i, <3>1, AcceptKeeps DEF IInv
      <4> QED
        BY <1>t, <2>1, <3>1, <4>1 DEF IInv
    <3>2. CASE SeqBacktrack = 0
      <4>1. \A a \in accepted : a.id \in 1..rec.id
        BY <3>2 DEF IInv, Remembers
      <4>2. rec.id \in Nat /\ (rec.id = 0 \/ id = rec.id + 1)
        BY <1>t, <2>1, <2>r, <3>2 DEF packet_id_test, TypeInv, RecType
      <4>3. rec'.id = id /\ rec'.seq_list = p.seq_list
        BY <2>1, <2>r, <3>2 DEF packet_id_add, RecType
      <4>4. rec'.seq_list = <<>>
        BY <2>r, <3>2, <4>3 DEF IInv, RecType
      <4>5. \A a \in accepted' : a.id \in 1..rec'.id
        BY <2>1, <2>i, <4>1, <4>2, <4>3
      <4>6. \A a \in accepted : a.id # id
        BY <4>1, <4>2
      <4>7. Remembers(rec)'
        <5>1. Len(rec'.seq_list) = 0 /\ rec'.id \in Nat
          BY <2>i, <4>3, <4>4
        <5>2. ASSUME NEW a \in accepted' PROVE ~(rec'.id - a.id < Len(rec'.seq_list))
          BY <4>5, <5>1, <5>2
        <5> QED
          BY <4>5, <5>2 DEF Remembers
      <4> QED
        BY <1>t, <2>1, <3>2, <4>4, <4>6, <4>7 DEF IInv
    <3> QED
      BY <3>1, <3>2
  <2>2. CASE rec' = p /\ UNCHANGED history
    <3>1. CASE SeqBacktrack # 0
      <4>1. Covers(p) /\ Remembers(p) /\ Explained(p)
        BY <1>t, <3>1, ReapKeeps DEF IInv
      <4>2. WindowInv'
        BY <2>2, <2>i, <4>1 DEF WindowInv, Covers, Remembers, Explained, TooLate, history
      <4> QED
        BY <1>t, <2>2, <3>1, <4>2 DEF IInv, history
    <3>2. CASE SeqBacktrack = 0
      <4>1. rec'.id = rec.id /\ rec'.seq_list = <<>> /\ rec.seq_list = <<>>
        BY <2>2, <2>r, <3>2 DEF IInv, RecType
      <4> QED
        BY <1>t, <2>2, <3>2, <4>1 DEF IInv, Remembers, history
    <3> QED
      BY <3>1, <3>2
  <2> QED
    BY <1>1, <2>1, <2>2 DEF process_incoming_link
\* Time makes more packets too late; nothing else touches the window.
<1>2. CASE fragment_outgoing \/ check_fragment \/ fragment_wakeup \/ Tick \/ UNCHANGED vars
  <2>1. /\ UNCHANGED <<rec, accepted, repeated>>
        /\ now' = now \/ now' = now + 1
    BY <1>2 DEF fragment_outgoing, check_fragment, fragment_wakeup, Tick, vars, history
  <2>2. Covers(rec)' = Covers(rec) /\ Remembers(rec)' = Remembers(rec)
    BY <2>1 DEF Covers, Remembers
  <2>3. Explained(rec) => Explained(rec)'
    <3>1. TimeBacktrack \in Nat /\ now \in Nat /\ accepted \subseteq [id : Nat, at : Nat]
      BY <1>t, ReplayConstants DEF TypeInv
    <3>2. \A a \in accepted : a.at + TimeBacktrack < now => a.at + TimeBacktrack < now'
      BY <2>1, <3>1
    <3> QED
      BY <2>1, <3>2 DEF Explained, TooLate
  <2> QED
    BY <1>t, <2>1, <2>2, <2>3 DEF IInv, WindowInv
<1> QED
  BY <1>1, <1>2 DEF Next

LEMMA IInvHolds == Spec => []IInv
BY IInvInitial, IInvInductive, PTL DEF Spec

\* No packet id is accepted twice under one key: not when the window moves on
\* or starts anew, not when entries expire, not with TCP's strict order.
THEOREM NoReplay == Spec => []AcceptedOnce
<1>1. IInv => AcceptedOnce
  BY DEF IInv, AcceptedOnce
<1> QED
  BY <1>1, IInvHolds, PTL

\* A packet that is new, less than SeqBacktrack behind and behind nothing that
\* was accepted more than TimeBacktrack ago would be accepted.
THEOREM LatePass == Spec => []LatePacketsPass
<1>1. IInv => LatePacketsPass
  <2> SUFFICES ASSUME IInv, SeqBacktrack # 0, NEW id \in 1..Len(sent),
                      \A a \in accepted : a.id # id,
                      id + SeqBacktrack > rec.id,
                      TimeBacktrack = 0 \/ \A a \in accepted : a.id > id => a.at + TimeBacktrack >= now
               PROVE  packet_id_test(packet_id_reap_test(rec, now), id)
    BY DEF LatePacketsPass
  <2> DEFINE p == packet_id_reap_test(rec, now)
  <2>1. p \in RecType /\ p.id = rec.id /\ Covers(p) /\ Explained(p)
    BY ReapKeeps DEF IInv
  <2>t. /\ id \in Nat \ {0} /\ p.id \in Nat /\ Len(p.seq_list) \in Nat
        /\ now \in Nat /\ TimeBacktrack \in Nat /\ SeqBacktrack \in Nat
        /\ accepted \subseteq [id : Nat, at : Nat]
    BY <2>1, ReplayConstants DEF IInv, TypeInv, RecType
  <2> HIDE DEF p
  <2>2. ASSUME id <= p.id
        PROVE  p.id - id < Len(p.seq_list) /\ p.seq_list[p.id - id + 1] = UNSEEN
    <3>1. p.id - id < Len(p.seq_list)
      BY <2>1, <2>2, <2>t DEF Covers
    <3> DEFINE i == p.id - id + 1
    <3>2. i \in 1..Len(p.seq_list) /\ p.id - i + 1 = id
      BY <2>2, <2>t, <3>1
    <3> HIDE DEF i
    <3>3. ~TooLate(id)
      BY <2>t DEF TooLate
    <3>4. p.seq_list[i] = UNSEEN
      BY <2>1, <3>2, <3>3 DEF Explained
    <3> QED
      BY <3>1, <3>4 DEF i
  <2> QED
    BY <2>2, <2>t DEF packet_id_test, p
<1> QED
  BY <1>1, IInvHolds, PTL
-----------------------------------------------------------------------------
(* Fragmentation and reassembly. *)

\* Datagrams that go out in fragments, their fragments' size, and the sequence
\* id: the place of the datagram among them, around the circle.
Fragmented(d) == Long(Lengths[d]) /\ ~TooLong(Lengths[d])
SizeOf(d) == optimal_fragment_size(Lengths[d], Payload)
Place(d) == IF d = 0 THEN 0 ELSE Ord[d]
SeqIdOf(d) == (FirstSeqId + Place(d)) % NSeqId

\* What the sender puts on the link.
Proper(m) ==
  /\ m \in Packet /\ m.d \in 1..Len(Lengths)
  /\ m.type = "WHOLE" => ~Long(Lengths[m.d])
  /\ m.type # "WHOLE" =>
       /\ Fragmented(m.d) /\ m.seq_id = SeqIdOf(m.d) /\ m.size = SizeOf(m.d)
       /\ m.frag_id \in 0..(Fragments[m.d] - 1)
       /\ m.type = "LAST" <=> m.frag_id = Fragments[m.d] - 1

SenderInv ==
  /\ out.d \in 0..Len(Lengths) /\ out.seq_id = SeqIdOf(out.d)
  /\ out.left > 0 =>
       /\ out.d \in 1..Len(Lengths) /\ Fragmented(out.d) /\ out.size = SizeOf(out.d)
       /\ out.left = Lengths[out.d] - out.frag_id * out.size
  /\ out.left >= 0
  /\ \A id \in 1..Len(sent) : Proper(sent[id])

AcceptedPackets == {sent[a.id] : a \in accepted}

\* A buffer of the receiver.
Pieces == UNION {[S -> Nat] : S \in SUBSET Nat}
Buffer == [defined : BOOLEAN, size : Int, map : SUBSET Nat, pieces : Pieces, timestamp : Nat]
List == [index : 0..(NFragBuf - 1), seq_id : 0..(NSeqId - 1), fragments : [0..(NFragBuf - 1) -> Buffer]]

\* How far buffer i is behind the newest one of l, and the sequence id it is for.
Behind(l, i) == IF i <= l.index THEN l.index - i ELSE l.index - i + NFragBuf
SeqIdAt(l, i) == IF l.seq_id >= Behind(l, i) THEN l.seq_id - Behind(l, i)
                 ELSE l.seq_id - Behind(l, i) + NSeqId

\* What buffer f holds for sequence id s comes from packets of P.
Fragment(m, s) == m.type # "WHOLE" /\ m.seq_id = s
Sound(f, s, P) ==
  f.defined =>
    /\ \A x \in DOMAIN f.pieces : \E m \in P : Fragment(m, s) /\ m.frag_id = x /\ m.d = f.pieces[x]
    /\ \A x \in f.map : \E m \in P :
         /\ Fragment(m, s) /\ m.frag_id \in DOMAIN f.pieces
         /\ m.frag_id = x \/ (m.type = "LAST" /\ m.frag_id <= x)
SoundList(l, P) == l \in List /\ \A i \in 0..(NFragBuf - 1) : Sound(l.fragments[i], SeqIdAt(l, i), P)

ReassemblyInv ==
  /\ TypeInv /\ SenderInv
  /\ \A a \in accepted : a.id \in 1..Len(sent)
  /\ SoundList(incoming, AcceptedPackets)
  /\ OneDatagram

LEMMA DivMod ==
  ASSUME NEW a \in Nat, NEW b \in Nat \ {0}
  PROVE  a \div b \in Nat /\ a % b \in 0..(b - 1) /\ a = (b * (a \div b)) + (a % b)
OBVIOUS

LEMMA ModIs ==
  ASSUME NEW n \in Nat \ {0}, NEW k \in Int, NEW r \in 0..(n - 1)
  PROVE  ((n * k) + r) % n = r
OBVIOUS

LEMMA TimesMonotone ==
  ASSUME NEW a \in Int, NEW b \in Int, NEW c \in Nat, a <= b
  PROVE  a * c <= b * c
OBVIOUS

\* CeilDiv(len, size) pieces of size are enough for len, and no fewer.
LEMMA CeilDivIs ==
  ASSUME NEW len \in Nat, NEW size \in Nat \ {0}, NEW n \in Nat, len <= n * size, (n - 1) * size < len
  PROVE  CeilDiv(len, size) = n
BY DEF CeilDiv

LEMMA CeilDivHas ==
  ASSUME NEW len \in Nat, NEW size \in Nat \ {0}
  PROVE  /\ CeilDiv(len, size) \in Nat /\ len <= CeilDiv(len, size) * size
         /\ (CeilDiv(len, size) - 1) * size < len
BY DEF CeilDiv

LEMMA Rounded ==
  ASSUME NEW n \in Nat
  PROVE  /\ Round(n) \in Nat /\ Round(n) % 4 = 0 /\ Round(n) <= n /\ n <= Round(n) + 3
         /\ n >= 4 => Round(n) >= 4
BY DEF Round

\* optimal_fragment_size gives a multiple of 4 that the link takes, and as many
\* fragments as the largest size would.
THEOREM OptimalSize ==
  ASSUME NEW max \in Nat, max >= 4, NEW len \in Nat, len > max
  PROVE  LET size == optimal_fragment_size(len, max)
         IN /\ size \in Nat /\ size % 4 = 0 /\ size \in 1..max
            /\ CeilDiv(len, size) = CeilDiv(len, Round(max))
<1> DEFINE a == Round(max)
           q == len \div a
           m == len % a
           t == (max - m) \div (q + 1)
           x == max - t + 3
           even == q > 0 /\ m > 0 /\ m < (a * 3) \div 4
           size == optimal_fragment_size(len, max)
<1>1. a \in Nat /\ a % 4 = 0 /\ a >= 4 /\ a <= max
  BY Rounded
<1>2. size = IF even THEN Least(a, Round(x)) ELSE a
  BY DEF optimal_fragment_size
<1> HIDE DEF a, size
<1>3. q \in Nat /\ m \in 0..(a - 1) /\ len = (a * q) + m
  <2>1. a \in Nat \ {0}
    BY <1>1
  <2> QED
    BY <2>1, DivMod
<1> HIDE DEF q, m
<1>4. CASE ~even \/ a < Round(x)
  <2>1. size = a
    BY <1>2, <1>4 DEF Least
  <2> QED
    BY <1>1, <2>1 DEF a, size
<1>5. CASE even /\ ~(a < Round(x))
  <2>1. size = Round(x)
    BY <1>2, <1>5 DEF Least
  <2>2. max - m \in Nat /\ q + 1 \in Nat \ {0} /\ m > 0
    BY <1>1, <1>3, <1>5
  <2>3. t \in Nat /\ (q + 1) * t <= max - m
    <3>1. /\ t \in Nat /\ (max - m) % (q + 1) \in 0..q
          /\ max - m = ((q + 1) * t) + ((max - m) % (q + 1))
      <4> DEFINE u == max - m
                 w == q + 1
      <4>1. u \in Nat /\ w \in Nat \ {0}
        BY <2>2
      <4>2. u \div w \in Nat /\ u % w \in 0..(w - 1) /\ u = (w * (u \div w)) + (u % w)
        <5> HIDE DEF u, w
        <5> QED
          BY <4>1, DivMod
      <4>3. w - 1 = q
        BY <1>3
      <4> QED
        BY <4>2, <4>3
    <3>2. (q + 1) * t \in Nat
      BY <2>2, <3>1
    <3> HIDE DEF t
    <3> QED
      BY <2>2, <3>1, <3>2
  <2> HIDE DEF t
  <2>4. t <= max - m
    <3>1. 1 * t <= (q + 1) * t
      BY <2>2, <2>3, TimesMonotone
    <3> QED
      BY <2>2, <2>3, <3>1
  <2>5. x \in Nat /\ max - t >= m /\ max - t \in Nat
    BY <1>3, <2>2, <2>3, <2>4
  <2>6. Round(x) \in Nat /\ Round(x) % 4 = 0 /\ max - t <= Round(x)
    <3>1. Round(x) \in Nat /\ Round(x) % 4 = 0 /\ x <= Round(x) + 3
      BY <2>5, Rounded
    <3> QED
      BY <1>1, <2>3, <2>5, <3>1
  <2> HIDE DEF x
  <2>7. size \in 1..max /\ size <= a /\ max - t <= size /\ size % 4 = 0
    <3> HIDE DEF even
    <3> QED
      BY <1>1, <1>3, <1>5, <2>1, <2>2, <2>5, <2>6
  <2>8. len <= (q + 1) * size
    <3>1. (max - t) * (q + 1) <= size * (q + 1)
      BY <2>2, <2>5, <2>7, TimesMonotone
    <3>2. (max - t) * (q + 1) = (max * q) + max - ((q + 1) * t)
      BY <1>1, <1>3, <2>3
    <3>3. a * q <= max * q
      BY <1>1, <1>3, TimesMonotone
    <3>4. size * (q + 1) = (q + 1) * size
      BY <1>3, <2>7
    <3> DEFINE A == a * q
               M == max * q
               T == (q + 1) * t
               S == (q + 1) * size
    <3>5. A \in Nat /\ M \in Nat /\ T \in Nat /\ S \in Nat
      BY <1>1, <1>3, <2>3, <2>7
    <3>6. M + max - T <= S /\ A <= M /\ T <= max - m /\ len = A + m
      BY <1>3, <2>3, <3>1, <3>2, <3>3, <3>4
    <3> HIDE DEF A, M, T, S
    <3>7. len <= S
      BY <1>1, <1>3, <3>5, <3>6
    <3> QED
      BY <3>7 DEF S
  <2>9. q * size < len
    <3>1. size * q <= a * q
      BY <1>1, <1>3, <2>7, TimesMonotone
    <3>2. size * q = q * size /\ q * size \in Nat /\ a * q \in Nat
      BY <1>1, <1>3, <2>7
    <3> QED
      BY <1>3, <2>2, <3>1, <3>2
  <2>10. CeilDiv(len, size) = q + 1
    <3>1. (q + 1) - 1 = q
      BY <1>3
    <3>2. size \in Nat \ {0}
      BY <1>1, <2>7
    <3> QED
      BY <2>2, <2>8, <2>9, <3>1, <3>2, CeilDivIs
  <2>11. CeilDiv(len, a) = q + 1
    <3>1. (q + 1) - 1 = q /\ q * a = a * q /\ (q + 1) * a = (a * q) + a /\ a * q \in Nat
      BY <1>1, <1>3
    <3>2. len <= (q + 1) * a /\ q * a < len
      BY <1>1, <1>3, <2>2, <3>1
    <3> QED
      BY <1>1, <2>2, <3>1, <3>2, CeilDivIs
  <2> QED
    BY <1>1, <2>7, <2>10, <2>11 DEF a, size
<1> QED
  BY <1>4, <1>5

\* Smaller fragments, never more of them: FragmentCountKept, which enumerates
\* small sizes, is an instance of OptimalSize.
THEOREM Sizes == Spec => []FragmentCountKept
<1>1. FragmentCountKept
  BY OptimalSize DEF FragmentCountKept
<1> QED
  BY <1>1, PTL

\* One more fragmented datagram: the next sequence id, around the circle.
LEMMA NextSeqId ==
  ASSUME NEW s \in Nat, NEW n \in Nat \ {0}
  PROVE  (s + 1) % n = modulo_add(s % n, 1, n) /\ s % n \in 0..(n - 1)
<1> DEFINE q == s \div n
           r == s % n
<1>1. q \in Nat /\ r \in 0..(n - 1) /\ s = (n * q) + r
  BY DivMod, Zenon
<1> HIDE DEF q, r
<1>2. CASE r + 1 < n
  <2>1. s + 1 = (n * q) + (r + 1) /\ r + 1 \in 0..(n - 1) /\ q \in Int
    BY <1>1, <1>2
  <2>2. (s + 1) % n = r + 1
    BY <2>1, ModIs
  <2>3. modulo_add(r, 1, n) = r + 1
    BY <1>1, <1>2 DEF modulo_add
  <2> QED
    BY <1>1, <2>2, <2>3 DEF r
<1>3. CASE r + 1 = n
  <2>1. s + 1 = (n * (q + 1)) + 0 /\ 0 \in 0..(n - 1) /\ q + 1 \in Int
    BY <1>1, <1>3
  <2>2. (s + 1) % n = 0
    BY <2>1, ModIs
  <2>3. modulo_add(r, 1, n) = 0
    BY <1>1, <1>3 DEF modulo_add
  <2> QED
    BY <1>1, <2>2, <2>3 DEF r
<1> QED
  BY <1>1, <1>2, <1>3

\* Equal sequence ids: a multiple of n datagrams lies between.
LEMMA SameSeqId ==
  ASSUME NEW a \in Nat, NEW b \in Nat, NEW c \in Nat, NEW n \in Nat \ {0}, (c + a) % n = (c + b) % n
  PROVE  (a - b) % n = 0
<1> DEFINE p == (c + a) \div n
           q == (c + b) \div n
           r == (c + a) % n
<1>0. c + a \in Nat /\ c + b \in Nat
  OBVIOUS
<1>1. p \in Nat /\ r \in 0..(n - 1) /\ c + a = (n * p) + r
  BY <1>0, DivMod, Zenon
<1>2. q \in Nat /\ c + b = (n * q) + r
  BY <1>0, DivMod, Zenon
<1> HIDE DEF p, q, r
<1>3. a - b = (n * p) - (n * q)
  <2>1. n * p \in Nat /\ n * q \in Nat
    BY <1>1, <1>2
  <2> DEFINE P == n * p
             Q == n * q
  <2>2. c + a = P + r /\ c + b = Q + r /\ P \in Nat /\ Q \in Nat
    BY <1>1, <1>2, <2>1
  <2> HIDE DEF P, Q
  <2>3. a - b = P - Q
    BY <1>1, <2>2
  <2> QED
    BY <2>3 DEF P, Q
<1>4. (n * p) - (n * q) = (n * (p - q)) + 0 /\ p - q \in Int /\ 0 \in 0..(n - 1)
  BY <1>1, <1>2
<1> QED
  BY <1>3, <1>4, ModIs

LEMMA LengthFacts ==
  ASSUME NEW d \in 1..Len(Lengths)
  PROVE  /\ d \in Nat \ {0} /\ Lengths[d] \in Nat \ {0} /\ Payload \in Nat /\ Payload >= 4
         /\ Len(Lengths) \in Nat /\ MaxFrags \in Nat \ {0}
BY DataConstants

\* The place of the next datagram.
LEMMA NextPlace ==
  ASSUME NEW d \in 0..(Len(Lengths) - 1)
  PROVE  Place(d) \in Nat /\ Place(d + 1) = Place(d) + (IF Fragmented(d + 1) THEN 1 ELSE 0)
<1> DEFINE F(n) == {e \in 1..n : Long(Lengths[e]) /\ ~TooLong(Lengths[e])}
<1>1. Len(Lengths) \in Nat /\ d \in Nat /\ d + 1 \in 1..Len(Lengths)
  BY DataConstants
<1>2. \A n \in Nat : IsFiniteSet(F(n)) /\ Cardinality(F(n)) \in Nat
  <2> SUFFICES ASSUME NEW n \in Nat PROVE IsFiniteSet(F(n)) /\ Cardinality(F(n)) \in Nat
    OBVIOUS
  <2>1. IsFiniteSet(1..n)
    BY FS_Interval
  <2>2. F(n) \in SUBSET (1..n)
    OBVIOUS
  <2> HIDE DEF F
  <2>3. IsFiniteSet(F(n))
    BY <2>1, <2>2, FS_Subset
  <2> QED
    BY <2>3, FS_CardinalityType
<1>3. \A n \in 1..Len(Lengths) : Place(n) = Cardinality(F(n))
  BY <1>1 DEF Place, Ord
<1>4. Place(d) = Cardinality(F(d))
  <2>1. CASE d = 0
    <3>1. F(0) = {}
      OBVIOUS
    <3>2. Cardinality({}) = 0
      BY FS_EmptySet
    <3> QED
      BY <2>1, <3>1, <3>2 DEF Place
  <2>2. CASE d # 0
    BY <1>1, <1>3, <2>2
  <2> QED
    BY <2>1, <2>2
<1>5. CASE Fragmented(d + 1)
  <2>1. F(d + 1) = F(d) \cup {d + 1} /\ d + 1 \notin F(d)
    BY <1>1, <1>5 DEF Fragmented
  <2> HIDE DEF F
  <2>2. Cardinality(F(d) \cup {d + 1}) = Cardinality(F(d)) + 1
    BY <1>1, <1>2, <2>1, FS_AddElement
  <2> QED
    BY <1>1, <1>2, <1>3, <1>4, <1>5, <2>1, <2>2
<1>6. CASE ~Fragmented(d + 1)
  <2>1. F(d + 1) = F(d)
    BY <1>1, <1>6 DEF Fragmented
  <2> HIDE DEF F
  <2> QED
    BY <1>1, <1>2, <1>3, <1>4, <1>6, <2>1
<1> QED
  BY <1>5, <1>6

\* The fragments of a datagram: their number fits into the map.
LEMMA FragmentFacts ==
  ASSUME NEW d \in 1..Len(Lengths), Fragmented(d)
  PROVE  /\ SizeOf(d) \in Nat \ {0} /\ Fragments[d] \in 1..MaxFrags
         /\ Lengths[d] <= Fragments[d] * SizeOf(d)
         /\ (Fragments[d] - 1) * SizeOf(d) < Lengths[d]
<1> DEFINE len == Lengths[d]
           size == SizeOf(d)
           f == Fragments[d]
<1>1. len \in Nat \ {0} /\ Payload \in Nat /\ Payload >= 4 /\ MaxFrags \in Nat \ {0}
  BY LengthFacts
<1>2. len > Payload /\ ~(len > size * MaxFrags)
  BY DEF Fragmented, Long, TooLong, SizeOf
<1>3. size \in Nat \ {0}
  BY <1>1, <1>2, OptimalSize DEF SizeOf
<1>4. f = CeilDiv(len, size)
  BY DEF Fragments, SizeOf
<1> HIDE DEF len, size, f
<1>5. f \in Nat /\ len <= f * size /\ (f - 1) * size < len
  BY <1>1, <1>3, <1>4, CeilDivHas
<1>6. f # 0
  BY <1>1, <1>3, <1>5
<1>7. f <= MaxFrags
  <2>1. size * MaxFrags = MaxFrags * size /\ MaxFrags * size \in Nat /\ (f - 1) * size \in Int
    BY <1>1, <1>3, <1>5
  <2>2. CASE MaxFrags <= f - 1
    <3>1. MaxFrags * size <= (f - 1) * size
      BY <1>1, <1>3, <1>5, <2>2, TimesMonotone
    <3> QED
      BY <1>1, <1>2, <1>5, <2>1, <3>1
  <2> QED
    BY <1>1, <1>5, <2>2
<1> QED
  BY <1>1, <1>3, <1>5, <1>6, <1>7 DEF len, size, f

\* Sending the next fragment of datagram d.
LEMMA SendProper ==
  ASSUME NEW o \in [d : Nat, seq_id : Int, frag_id : Nat, left : Int, size : Int],
         o.d \in 1..Len(Lengths), Fragmented(o.d), o.seq_id = SeqIdOf(o.d), o.size = SizeOf(o.d),
         o.left = Lengths[o.d] - o.frag_id * o.size, o.left > 0
  PROVE  LET r == fragment_ready_to_send(o)
         IN /\ Proper(r.packet)
            /\ r.out.d = o.d /\ r.out.seq_id = o.seq_id /\ r.out.size = o.size
            /\ r.out.left >= 0
            /\ r.out.left > 0 => r.out.left = Lengths[o.d] - r.out.frag_id * o.size
<1> DEFINE len == Lengths[o.d]
           size == o.size
           f == Fragments[o.d]
           k == o.frag_id
           r == fragment_ready_to_send(o)
           left == o.left - Least(o.left, o.size)
<1>1. /\ size \in Nat \ {0} /\ f \in Nat /\ f >= 1 /\ len \in Nat /\ k \in Nat
      /\ len <= f * size /\ (f - 1) * size < len
  <2>1. MaxFrags \in Nat /\ len \in Nat
    BY LengthFacts
  <2>2. /\ SizeOf(o.d) \in Nat \ {0} /\ f \in 1..MaxFrags
        /\ len <= f * SizeOf(o.d) /\ (f - 1) * SizeOf(o.d) < len
    BY FragmentFacts, Zenon
  <2>3. size = SizeOf(o.d) /\ k \in Nat
    OBVIOUS
  <2> HIDE DEF len, size, f, k
  <2>4. f \in Nat /\ f >= 1
    BY <2>1, <2>2
  <2> QED
    BY <2>1, <2>2, <2>3, <2>4, Zenon
<1>2. o.left = len - k * size /\ o.left \in Int /\ o.left > 0
  OBVIOUS
<1>3. /\ r.packet = [type |-> IF o.left <= size THEN "LAST" ELSE "NOTLAST",
                     seq_id |-> o.seq_id, frag_id |-> k, size |-> size, d |-> o.d]
      /\ r.out = [o EXCEPT !.frag_id = k + 1, !.left = left]
  BY DEF fragment_ready_to_send
<1>4. left \in Int
  BY <1>1, <1>2 DEF Least
<1>5. /\ r.out.d = o.d /\ r.out.seq_id = o.seq_id /\ r.out.size = size
      /\ r.out.left = left /\ r.out.frag_id = k + 1
  <2> HIDE DEF left, r
  <2> QED
    BY <1>3
<1>p. /\ r.packet \in Packet /\ r.packet.d = o.d /\ r.packet.seq_id = o.seq_id
      /\ r.packet.frag_id = k /\ r.packet.size = size
      /\ r.packet.type = IF o.left <= size THEN "LAST" ELSE "NOTLAST"
  BY <1>3 DEF Packet
<1> HIDE DEF len, size, f, k, r
<1>6. k * size \in Nat /\ f * size \in Nat /\ (f - 1) * size \in Nat /\ (k + 1) * size = (k * size) + size
  BY <1>1
<1>7. k < f
  <2>1. CASE f <= k
    <3>1. f * size <= k * size
      BY <1>1, <2>1, TimesMonotone
    <3> QED
      BY <1>1, <1>2, <1>6, <3>1
  <2> QED
    BY <1>1, <2>1
<1>8. o.left <= size <=> k = f - 1
  <2>1. ASSUME o.left <= size PROVE k = f - 1
    <3>1. CASE k + 1 <= f - 1
      <4>1. (k + 1) * size <= (f - 1) * size
        BY <1>1, <3>1, TimesMonotone
      <4> QED
        BY <1>1, <1>2, <1>6, <2>1, <4>1
    <3> QED
      BY <1>1, <1>7, <3>1
  <2>2. ASSUME k = f - 1 PROVE o.left <= size
    <3>1. (k + 1) * size = f * size
      BY <1>1, <2>2
    <3> QED
      BY <1>1, <1>2, <1>6, <3>1
  <2> QED
    BY <2>1, <2>2
<1>9. left >= 0 /\ (left > 0 => left = len - (k + 1) * size)
  <2>1. CASE o.left < size
    <3>1. left = o.left - o.left
      BY <2>1 DEF Least, size
    <3> QED
      BY <1>2, <3>1
  <2>2. CASE ~(o.left < size)
    <3>1. left = o.left - size
      BY <2>2 DEF Least, size
    <3> QED
      BY <1>1, <1>2, <1>6, <2>2, <3>1
  <2> QED
    BY <2>1, <2>2
<1>10. Proper(r.packet)
  <2>1. r.packet.type # "WHOLE"
    BY <1>p
  <2>2. r.packet.type = "LAST" <=> k = f - 1
    BY <1>p, <1>8
  <2>3. r.packet.seq_id = SeqIdOf(o.d) /\ r.packet.size = SizeOf(o.d)
    BY <1>p DEF size
  <2>4. k \in 0..(f - 1)
    BY <1>1, <1>7
  <2> QED
    BY <1>p, <2>1, <2>2, <2>3, <2>4 DEF Proper, f
<1> QED
  BY <1>5, <1>9, <1>10 DEF r, size, len

\* What was sent stays.
Sent == /\ Len(sent) <= Len(sent') /\ Len(sent') \in Nat
        /\ \A id \in 1..Len(sent) : sent'[id] = sent[id]

LEMMA AppendProper ==
  ASSUME sent \in Seq(Packet), \A id \in 1..Len(sent) : Proper(sent[id]),
         NEW m, Proper(m), sent' = Append(sent, m)
  PROVE  Sent /\ \A id \in 1..Len(sent') : Proper(sent'[id])
<1>1. m \in Packet
  BY DEF Proper
<1>2. Len(sent') = Len(sent) + 1 /\ Len(sent) \in Nat /\ sent'[Len(sent) + 1] = m
  BY <1>1
<1>3. \A id \in 1..Len(sent) : sent'[id] = sent[id]
  BY <1>1
<1>4. \A id \in 1..Len(sent') : id \in 1..Len(sent) \/ id = Len(sent) + 1
  BY <1>2
<1>5. Len(sent) <= Len(sent') /\ Len(sent') \in Nat
  BY <1>2
<1>6. \A id \in 1..Len(sent') : Proper(sent'[id])
  BY <1>2, <1>3, <1>4
<1> QED
  BY <1>3, <1>5, <1>6 DEF Sent

LEMMA SenderSends ==
  ASSUME TypeInv, \A id \in 1..Len(sent) : Proper(sent[id]),
         NEW o \in [d : Nat, seq_id : Int, frag_id : Nat, left : Int, size : Int],
         o.d \in 1..Len(Lengths), Fragmented(o.d), o.seq_id = SeqIdOf(o.d), o.size = SizeOf(o.d),
         o.left = Lengths[o.d] - o.frag_id * o.size, o.left > 0, Send(o)
  PROVE  SenderInv' /\ Sent
<1> DEFINE r == fragment_ready_to_send(o)
<1>1. /\ Proper(r.packet)
      /\ r.out.d = o.d /\ r.out.seq_id = o.seq_id /\ r.out.size = o.size
      /\ r.out.left >= 0
      /\ r.out.left > 0 => r.out.left = Lengths[o.d] - r.out.frag_id * o.size
  BY SendProper
<1>2. sent' = Append(sent, r.packet) /\ out' = r.out
  BY DEF Send, encrypt_sign
<1> HIDE DEF r
<1>3. Sent /\ \A id \in 1..Len(sent') : Proper(sent'[id])
  BY <1>1, <1>2, AppendProper DEF TypeInv
<1>4. out'.d \in 0..Len(Lengths) /\ out'.seq_id = SeqIdOf(out'.d)
  BY <1>1, <1>2
<1>5. out'.left > 0 =>
        /\ out'.d \in 1..Len(Lengths) /\ Fragmented(out'.d) /\ out'.size = SizeOf(out'.d)
        /\ out'.left = Lengths[out'.d] - out'.frag_id * out'.size
  BY <1>1, <1>2
<1> QED
  BY <1>1, <1>2, <1>3, <1>4, <1>5 DEF SenderInv

LEMMA SenderKeeps ==
  ASSUME TypeInv, SenderInv, fragment_outgoing \/ check_fragment
  PROVE  SenderInv' /\ Sent
<1>1. /\ out \in [d : Nat, seq_id : Int, frag_id : Nat, left : Int, size : Int]
      /\ sent \in Seq(Packet) /\ \A id \in 1..Len(sent) : Proper(sent[id])
      /\ out.d \in 0..Len(Lengths) /\ out.seq_id = SeqIdOf(out.d) /\ out.left >= 0
  BY DEF TypeInv, SenderInv
<1>2. CASE check_fragment
  <2>1. out.left > 0 /\ Send(out)
    BY <1>2 DEF check_fragment
  <2>2. /\ out.d \in 1..Len(Lengths) /\ Fragmented(out.d) /\ out.size = SizeOf(out.d)
        /\ out.left = Lengths[out.d] - out.frag_id * out.size
    BY <2>1 DEF SenderInv
  <2> QED
    BY <1>1, <2>1, <2>2, SenderSends
<1>3. CASE fragment_outgoing
  <2> DEFINE d == out.d + 1
             len == Lengths[d]
  <2>1. d \in 1..Len(Lengths) /\ out.d \in 0..(Len(Lengths) - 1) /\ out.left = 0 /\ Len(Lengths) \in Nat
    <3>1. out.d < Len(Lengths) /\ out.left = 0
      BY <1>3 DEF fragment_outgoing
    <3>2. Len(Lengths) \in Nat
      BY DataConstants
    <3> QED
      BY <1>1, <3>1, <3>2
  <2>2. Place(out.d) \in Nat /\ Place(d) = Place(out.d) + (IF Fragmented(d) THEN 1 ELSE 0)
    BY <2>1, NextPlace
  <2>3. FirstSeqId \in Nat /\ NSeqId \in Nat \ {0}
    BY DataConstants
  <2>4. len \in Nat \ {0} /\ d \in Nat
    BY <2>1, LengthFacts
  <2>5. Fragmented(d) <=> Long(len) /\ ~TooLong(len)
    BY DEF Fragmented
  <2>6. ASSUME ~Fragmented(d), out' = [out EXCEPT !.d = d],
               Sent, \A id \in 1..Len(sent') : Proper(sent'[id])
        PROVE  SenderInv' /\ Sent
    <3>1. out'.d = d /\ out'.seq_id = out.seq_id /\ out'.left = 0
      BY <1>1, <2>1, <2>6
    <3>2. SeqIdOf(d) = SeqIdOf(out.d)
      <4>1. Place(d) = Place(out.d)
        BY <2>2, <2>6
      <4> QED
        BY <4>1 DEF SeqIdOf
    <3>3. d \in 0..Len(Lengths)
      BY <2>1
    <3> HIDE DEF d
    <3> QED
      BY <1>1, <2>6, <3>1, <3>2, <3>3 DEF SenderInv
  <2>7. CASE ~Long(len)
    <3>1. sent' = Append(sent, whole(d)) /\ out' = [out EXCEPT !.d = d]
      BY <1>3, <2>7 DEF fragment_outgoing, encrypt_sign, TooLong
    <3>2. whole(d) \in Packet /\ whole(d).d = d /\ whole(d).type = "WHOLE"
      BY <2>4 DEF whole, Packet
    <3>3. Proper(whole(d))
      BY <2>1, <2>7, <3>2 DEF Proper
    <3>4. Sent /\ \A id \in 1..Len(sent') : Proper(sent'[id])
      BY <1>1, <3>1, <3>3, AppendProper
    <3> QED
      BY <2>5, <2>6, <2>7, <3>1, <3>4
  <2>8. CASE TooLong(len)
    <3>1. sent' = sent /\ out' = [out EXCEPT !.d = d]
      BY <1>3, <2>8 DEF fragment_outgoing, TooLong
    <3>2. Sent
      BY <1>1, <3>1 DEF Sent
    <3> QED
      BY <1>1, <2>5, <2>6, <2>8, <3>1, <3>2
  <2>9. CASE Long(len) /\ ~TooLong(len)
    <3> DEFINE o == [d |-> d, seq_id |-> modulo_add(out.seq_id, 1, NSeqId), frag_id |-> 0,
                     left |-> len, size |-> SizeOf(d)]
    <3>1. Send(o)
      BY <1>3, <2>9 DEF fragment_outgoing, SizeOf
    <3>2. Fragmented(d) /\ SizeOf(d) \in Nat \ {0}
      BY <2>1, <2>5, <2>9, FragmentFacts
    <3>3. modulo_add(out.seq_id, 1, NSeqId) = SeqIdOf(d) /\ SeqIdOf(d) \in Int
      <4> DEFINE s == FirstSeqId + Place(out.d)
      <4>0. out.seq_id = s % NSeqId
        BY <1>1, Zenon DEF SeqIdOf
      <4>1. s \in Nat
        BY <2>2, <2>3
      <4>2. FirstSeqId + Place(d) = s + 1
        BY <2>2, <2>3, <3>2
      <4> HIDE DEF s
      <4>s. s + 1 \in Nat
        BY <4>1
      <4>3. (s + 1) % NSeqId = modulo_add(s % NSeqId, 1, NSeqId)
        BY <2>3, <4>1, NextSeqId, Zenon
      <4>4. (s + 1) % NSeqId \in 0..(NSeqId - 1)
        BY <2>3, <4>s, NextSeqId, Zenon
      <4>5. SeqIdOf(d) = (s + 1) % NSeqId
        BY <4>2 DEF SeqIdOf
      <4> QED
        BY <2>3, <4>0, <4>3, <4>4, <4>5
    <3>4. o \in [d : Nat, seq_id : Int, frag_id : Nat, left : Int, size : Int]
      BY <2>4, <3>2, <3>3
    <3>5. o.d = d /\ o.seq_id = SeqIdOf(d) /\ o.size = SizeOf(d) /\ o.left = len /\ o.frag_id = 0
      BY <3>3
    <3> HIDE DEF o, d
    <3>6. o.left = Lengths[o.d] - o.frag_id * o.size /\ o.left > 0
      BY <2>4, <3>2, <3>5
    <3> QED
      BY <1>1, <2>1, <3>1, <3>2, <3>4, <3>5, <3>6, SenderSends
  <2> QED
    BY <2>7, <2>8, <2>9
<1> QED
  BY <1>2, <1>3

\* The distance between two sequence ids, taken around the circle.
LEMMA ModuloSubtract ==
  ASSUME NEW n \in Nat, NEW x \in 0..(n - 1), NEW y \in 0..(n - 1)
  PROVE  LET diff == modulo_subtract(x, y, n)
         IN diff \in Int /\ (y + diff = x \/ y + diff = x + n \/ y + diff = x - n)
BY DEF modulo_subtract, Abs

LEMMA ModuloAdd ==
  ASSUME NEW n \in Nat \ {0}, NEW x \in 0..(n - 1), NEW k \in Int, k < n, k > -n
  PROVE  /\ modulo_add(x, k, n) \in 0..(n - 1)
         /\ modulo_add(x, k, n) = x + k \/ modulo_add(x, k, n) = x + k - n \/ modulo_add(x, k, n) = x + k + n
BY DEF modulo_add

\* A buffer that is not defined holds nothing.
LEMMA EmptySound ==
  NoFragment \in Buffer /\ ~NoFragment.defined /\ NoFragment.pieces \in [{} -> Nat]
<1>1. <<>> \in [{} -> Nat]
  OBVIOUS
<1>2. <<>> \in Pieces
  BY <1>1 DEF Pieces
<1> QED
  BY <1>1, <1>2 DEF NoFragment, Buffer

\* fragment_list_get_buf: the buffers stay sound, and the one it finds is for
\* the sequence id it was asked for.
LEMMA GetBuf ==
  ASSUME NEW l, NEW P, SoundList(l, P), NEW s \in 0..(NSeqId - 1)
  PROVE  LET b == fragment_list_get_buf(l, s)
         IN /\ SoundList(b.list, P) /\ b.at \in 0..(NFragBuf - 1)
            /\ SeqIdAt(b.list, b.at) = s
<1> DEFINE diff == modulo_subtract(s, l.seq_id, NSeqId)
           b == fragment_list_get_buf(l, s)
           I == 0..(NFragBuf - 1)
<1>1. /\ NFragBuf \in Nat \ {0} /\ NSeqId \in Nat \ {0} /\ 2 * NFragBuf <= NSeqId
  BY DataConstants
<1>2. /\ l \in List /\ l.index \in I /\ l.seq_id \in 0..(NSeqId - 1) /\ l.fragments \in [I -> Buffer]
      /\ \A i \in I : Sound(l.fragments[i], SeqIdAt(l, i), P)
  BY DEF SoundList, List
<1>3. /\ diff \in Int
      /\ l.seq_id + diff = s \/ l.seq_id + diff = s + NSeqId \/ l.seq_id + diff = s - NSeqId
  BY <1>1, <1>2, ModuloSubtract
<1>b. b = CASE Abs(diff) >= NFragBuf -> [list |-> Emptied(s), at |-> 0]
            [] diff \in I -> [list |-> Moved(l, diff), at |-> Moved(l, diff).index]
            [] OTHER -> [list |-> l, at |-> modulo_add(l.index, diff, NFragBuf)]
  BY DEF fragment_list_get_buf
<1>d. Abs(diff) >= NFragBuf => ~(diff \in I)
  BY <1>1, <1>3 DEF Abs
<1> HIDE DEF diff, b
<1>4. CASE Abs(diff) >= NFragBuf
  <2>1. b = [list |-> Emptied(s), at |-> 0]
    BY <1>b, <1>d, <1>4, Zenon
  <2>b. b.list = Emptied(s) /\ b.at = 0
    BY <2>1
  <2>2. Emptied(s).index = 0 /\ Emptied(s).seq_id = s /\ 0 \in I
        /\ Emptied(s).fragments = [i \in I |-> NoFragment]
    BY <1>1 DEF Emptied
  <2>3. Emptied(s) \in List
    BY <1>1, EmptySound DEF Emptied, List
  <2>4. \A i \in I : Sound(Emptied(s).fragments[i], SeqIdAt(Emptied(s), i), P)
    BY <2>2, EmptySound DEF Sound
  <2>5. SeqIdAt(Emptied(s), 0) = s
    BY <1>1, <2>2 DEF SeqIdAt, Behind
  <2> QED
    BY <2>b, <2>2, <2>3, <2>4, <2>5, Zenon DEF SoundList, b
<1>5. CASE ~(Abs(diff) >= NFragBuf) /\ diff \in I
  <2> DEFINE n == Moved(l, diff)
             fresh == {modulo_add(l.index, k, NFragBuf) : k \in 1..diff}
  <2>1. b = [list |-> n, at |-> n.index]
    BY <1>b, <1>5, Zenon
  <2>b. b.list = n /\ b.at = n.index
    BY <2>1
  <2>2. /\ n.index = modulo_add(l.index, diff, NFragBuf)
        /\ n.seq_id = modulo_add(l.seq_id, diff, NSeqId)
        /\ n.fragments = [i \in I |-> IF i \in fresh THEN NoFragment ELSE l.fragments[i]]
        /\ n = [index |-> n.index, seq_id |-> n.seq_id, fragments |-> n.fragments]
    BY DEF Moved
  <2> HIDE DEF n, fresh
  <2>3. n.index \in I /\ (n.index = l.index + diff \/ n.index = l.index + diff - NFragBuf)
    <3> DEFINE x == l.index
    <3>1. x \in I /\ diff \in I /\ n.index = modulo_add(x, diff, NFragBuf)
      BY <1>2, <1>5, <2>2
    <3> HIDE DEF x
    <3>2. modulo_add(x, diff, NFragBuf) = (IF x + diff >= NFragBuf THEN x + diff - NFragBuf ELSE x + diff)
      BY <1>1, <3>1 DEF modulo_add
    <3>3. n.index \in I /\ (n.index = x + diff \/ n.index = x + diff - NFragBuf)
      BY <1>1, <3>1, <3>2
    <3> QED
      BY <3>3 DEF x
  <2>4. n.seq_id = s
    BY <1>1, <1>2, <1>3, <1>5, <2>2 DEF modulo_add
  <2>5. n.fragments \in [I -> Buffer]
    BY <1>2, <2>2, EmptySound
  <2>6. n \in List
    BY <2>2, <2>3, <2>4, <2>5 DEF List
  <2>7. ASSUME NEW i \in I, i \notin fresh PROVE SeqIdAt(n, i) = SeqIdAt(l, i)
    <3>1. Behind(l, i) \in I
      BY <1>1, <1>2 DEF Behind
    <3>2. Behind(l, i) + diff < NFragBuf
      <4>1. CASE Behind(l, i) + diff >= NFragBuf
        <5> DEFINE k == NFragBuf - Behind(l, i)
        <5>1. k \in 1..diff
          BY <1>1, <1>5, <3>1, <4>1
        <5>2. modulo_add(l.index, k, NFragBuf) = i
          BY <1>1, <1>2 DEF modulo_add, Behind
        <5> QED
          BY <2>7, <5>1, <5>2 DEF fresh
      <4> QED
        BY <1>1, <1>5, <3>1, <4>1
    <3>3. Behind(n, i) = Behind(l, i) + diff
      <4> DEFINE x == l.index
                 y == n.index
      <4>1. /\ Behind(l, i) = (IF i <= x THEN x - i ELSE x - i + NFragBuf)
            /\ Behind(n, i) = (IF i <= y THEN y - i ELSE y - i + NFragBuf)
        BY DEF Behind
      <4>2. x \in I /\ y \in I /\ (y = x + diff \/ y = x + diff - NFragBuf)
        BY <1>2, <2>3
      <4> HIDE DEF x, y
      <4>3. CASE i <= x
        BY <1>1, <1>5, <3>1, <3>2, <4>1, <4>2, <4>3
      <4>4. CASE ~(i <= x)
        BY <1>1, <1>5, <3>1, <3>2, <4>1, <4>2, <4>4
      <4> QED
        BY <4>3, <4>4
    <3> DEFINE w == Behind(l, i)
               v == Behind(n, i)
    <3>4. w \in I /\ v = w + diff /\ w + diff < NFragBuf
      BY <3>1, <3>2, <3>3
    <3>5. /\ SeqIdAt(n, i) = IF n.seq_id >= v THEN n.seq_id - v ELSE n.seq_id - v + NSeqId
          /\ SeqIdAt(l, i) = IF l.seq_id >= w THEN l.seq_id - w ELSE l.seq_id - w + NSeqId
      BY DEF SeqIdAt
    <3> DEFINE t == l.seq_id
    <3>6. t \in 0..(NSeqId - 1) /\ (t + diff = s \/ t + diff = s + NSeqId \/ t + diff = s - NSeqId)
      BY <1>2, <1>3
    <3>7. /\ SeqIdAt(n, i) = IF s >= v THEN s - v ELSE s - v + NSeqId
          /\ SeqIdAt(l, i) = IF t >= w THEN t - w ELSE t - w + NSeqId
      BY <2>4, <3>5
    <3> HIDE DEF w, v, t
    <3>8. t + diff = s \/ t + diff = s + NSeqId
      BY <1>1, <1>5, <3>6
    <3>9. w \in Nat /\ diff \in Nat /\ s \in Nat /\ t \in Nat /\ v = w + diff /\ w + diff < NFragBuf
          /\ s < NSeqId /\ t < NSeqId /\ NSeqId \in Nat /\ NFragBuf \in Nat /\ 2 * NFragBuf <= NSeqId
      BY <1>1, <1>5, <3>4, <3>6
    <3>10. CASE t + diff = s
      <4>1. s - v = t - w /\ (s >= v <=> t >= w)
        BY <3>9, <3>10
      <4> QED
        BY <3>7, <4>1
    <3>11. CASE t + diff = s + NSeqId
      <4>1. s - v + NSeqId = t - w /\ ~(s >= v) /\ t >= w
        BY <3>9, <3>11
      <4> QED
        BY <3>7, <4>1
    <3> QED
      BY <3>8, <3>10, <3>11
  <2>8. \A i \in I : Sound(n.fragments[i], SeqIdAt(n, i), P)
    <3> SUFFICES ASSUME NEW i \in I PROVE Sound(n.fragments[i], SeqIdAt(n, i), P)
      OBVIOUS
    <3>1. CASE i \in fresh
      BY <2>2, <3>1, EmptySound DEF Sound
    <3>2. CASE i \notin fresh
      <4>1. n.fragments[i] = l.fragments[i]
        BY <2>2, <3>2
      <4> QED
        BY <1>2, <2>7, <3>2, <4>1
    <3> QED
      BY <3>1, <3>2
  <2>9. SeqIdAt(n, n.index) = s
    BY <1>1, <2>3, <2>4 DEF SeqIdAt, Behind
  <2> QED
    BY <2>b, <2>3, <2>6, <2>8, <2>9, Zenon DEF SoundList, b
<1>6. CASE ~(Abs(diff) >= NFragBuf) /\ diff \notin I
  <2> DEFINE at == modulo_add(l.index, diff, NFragBuf)
  <2>1. b = [list |-> l, at |-> at]
    BY <1>b, <1>6, Zenon
  <2>b. b.list = l /\ b.at = at
    BY <2>1
  <2>2. diff < 0 /\ -diff < NFragBuf
    BY <1>1, <1>3, <1>6 DEF Abs
  <2>3. at \in I /\ (at = l.index + diff \/ at = l.index + diff + NFragBuf)
    <3> DEFINE x == l.index
    <3>1. x \in I /\ at = modulo_add(x, diff, NFragBuf)
      BY <1>2
    <3> HIDE DEF x, at
    <3>2. modulo_add(x, diff, NFragBuf) = (IF x + diff < 0 THEN x + diff + NFragBuf ELSE x + diff)
      BY <1>1, <1>3, <2>2, <3>1 DEF modulo_add
    <3>3. at \in I /\ (at = x + diff \/ at = x + diff + NFragBuf)
      BY <1>1, <1>3, <2>2, <3>1, <3>2
    <3> QED
      BY <3>3 DEF x
  <2> HIDE DEF at
  <2>4. Behind(l, at) = -diff
    <3> DEFINE x == l.index
    <3>1. x \in I /\ Behind(l, at) = IF at <= x THEN x - at ELSE x - at + NFragBuf
      BY <1>2 DEF Behind
    <3>2. at = x + diff \/ at = x + diff + NFragBuf
      BY <2>3
    <3> HIDE DEF x
    <3> QED
      BY <1>1, <1>3, <2>2, <2>3, <3>1, <3>2
  <2>5. SeqIdAt(l, at) = s
    <3> DEFINE T == l.seq_id
    <3>1. T \in 0..(NSeqId - 1) /\ SeqIdAt(l, at) = IF T >= -diff THEN T + diff ELSE T + diff + NSeqId
      <4>1. T \in 0..(NSeqId - 1) /\ SeqIdAt(l, at) = IF T >= -diff THEN T - (-diff) ELSE T - (-diff) + NSeqId
        BY <1>2, <2>4 DEF SeqIdAt
      <4> HIDE DEF T
      <4> QED
        BY <1>3, <4>1
    <3> QED
      BY <1>1, <1>3, <2>2, <3>1
  <2> QED
    BY <1>2, <2>b, <2>3, <2>5, Zenon DEF SoundList, b
<1> QED
  BY <1>4, <1>5, <1>6

\* A fragment that joins its buffer leaves it sound, whatever was in it.
LEMMA JoinedSound ==
  ASSUME now \in Nat, NEW P, NEW s, NEW f \in Buffer, Sound(f, s, P),
         NEW m \in P, Proper(m), Fragment(m, s)
  PROVE  Joined(f, m) \in Buffer /\ Joined(f, m).defined /\ Sound(Joined(f, m), s, P)
<1> DEFINE g == IF f.defined /\ f.size = m.size THEN f
                ELSE [NoFragment EXCEPT !.defined = TRUE, !.size = m.size]
           more == IF m.type = "LAST" THEN m.frag_id..(MaxFrags - 1) ELSE {m.frag_id}
           M == g.map \cup more
           V == [i \in DOMAIN g.pieces \cup {m.frag_id} |-> IF i = m.frag_id THEN m.d ELSE g.pieces[i]]
           j == Joined(f, m)
<1>1. m.frag_id \in Nat /\ m.d \in Nat /\ m.size \in Int /\ MaxFrags \in Nat
  BY DataConstants DEF Proper, Packet
<1>2. g \in Buffer /\ g.defined /\ Sound(g, s, P)
  <2>1. CASE f.defined /\ f.size = m.size
    BY <2>1
  <2>2. CASE ~(f.defined /\ f.size = m.size)
    <3> DEFINE e == [NoFragment EXCEPT !.defined = TRUE, !.size = m.size]
    <3>1. e.defined /\ e.map = {} /\ e.pieces = NoFragment.pieces
      BY DEF NoFragment
    <3>2. e \in Buffer
      BY <1>1, EmptySound DEF Buffer
    <3>3. DOMAIN e.pieces = {}
      BY <3>1, EmptySound
    <3> HIDE DEF e
    <3>4. Sound(e, s, P)
      BY <3>1, <3>3 DEF Sound
    <3> QED
      BY <2>2, <3>1, <3>2, <3>4 DEF e
  <2> QED
    BY <2>1, <2>2
<1>3. j = [g EXCEPT !.map = M, !.pieces = V, !.timestamp = now]
  BY DEF Joined
<1> HIDE DEF g, j
<1>4. g.map \in SUBSET Nat /\ g.pieces \in Pieces /\ g.defined \in BOOLEAN /\ g.size \in Int
      /\ g = [defined |-> g.defined, size |-> g.size, map |-> g.map, pieces |-> g.pieces,
              timestamp |-> g.timestamp]
  BY <1>2 DEF Buffer
<1>5. DOMAIN g.pieces \in SUBSET Nat /\ \A x \in DOMAIN g.pieces : g.pieces[x] \in Nat
  <2> DEFINE w == g.pieces
  <2>1. PICK S \in SUBSET Nat : w \in [S -> Nat]
    <3> HIDE DEF w
    <3>1. w \in Pieces
      BY <1>4 DEF w
    <3> QED
      BY <3>1, Zenon DEF Pieces
  <2> HIDE DEF w
  <2>2. DOMAIN w \in SUBSET Nat /\ \A x \in DOMAIN w : w[x] \in Nat
    BY <2>1
  <2> QED
    BY <2>2 DEF w
<1>6. M \in SUBSET Nat
  BY <1>1, <1>4
<1>7. V \in Pieces
  <2>1. V \in [DOMAIN g.pieces \cup {m.frag_id} -> Nat]
    BY <1>1, <1>5
  <2>2. DOMAIN g.pieces \cup {m.frag_id} \in SUBSET Nat
    BY <1>1, <1>5
  <2> HIDE DEF V
  <2> QED
    BY <2>1, <2>2 DEF Pieces
<1>8. DOMAIN V = DOMAIN g.pieces \cup {m.frag_id}
      /\ \A x \in DOMAIN V : V[x] = IF x = m.frag_id THEN m.d ELSE g.pieces[x]
  OBVIOUS
<1>9. \A x \in M : x \in g.map \/ x = m.frag_id \/ (m.type = "LAST" /\ m.frag_id <= x)
  BY <1>1
<1> HIDE DEF V, M
<1>10. j.defined /\ j.map = M /\ j.pieces = V /\ j \in Buffer
  BY <1>2, <1>3, <1>4, <1>6, <1>7 DEF Buffer
<1>11. \A x \in DOMAIN V : \E n \in P : Fragment(n, s) /\ n.frag_id = x /\ n.d = V[x]
  BY <1>2, <1>8 DEF Sound
<1>12. \A x \in M : \E n \in P :
         /\ Fragment(n, s) /\ n.frag_id \in DOMAIN V
         /\ n.frag_id = x \/ (n.type = "LAST" /\ n.frag_id <= x)
  BY <1>2, <1>8, <1>9 DEF Sound
<1> QED
  BY <1>10, <1>11, <1>12 DEF Sound, j

\* The place of a datagram is a number.
LEMMA PlaceType ==
  ASSUME NEW d \in 1..Len(Lengths)
  PROVE  Ord[d] \in Nat /\ Place(d) = Ord[d] /\ Place(d) \in Nat
<1> DEFINE e == d - 1
<1>1. e \in 0..(Len(Lengths) - 1) /\ e + 1 = d /\ d # 0
  BY LengthFacts
<1>2. Place(e) \in Nat /\ Place(e + 1) = Place(e) + (IF Fragmented(e + 1) THEN 1 ELSE 0)
  BY <1>1, NextPlace, Zenon
<1> HIDE DEF e
<1>3. Place(e + 1) \in Nat
  BY <1>2
<1> QED
  BY <1>1, <1>3 DEF Place

\* Fragments with one sequence id are of datagrams that are alike.
LEMMA FragmentsAlike ==
  ASSUME NEW m, NEW n, NEW s, Proper(m), Proper(n), Fragment(m, s), Fragment(n, s)
  PROVE  Alike(m.d, n.d)
<1> DEFINE a == Ord[m.d]
           b == Ord[n.d]
<1>1. m.d \in 1..Len(Lengths) /\ n.d \in 1..Len(Lengths) /\ Fragmented(m.d) /\ Fragmented(n.d)
      /\ s = SeqIdOf(m.d) /\ s = SeqIdOf(n.d)
  BY DEF Proper, Fragment
<1>2. \A d \in 1..Len(Lengths) : Ord[d] \in Nat /\ Place(d) = Ord[d]
  BY PlaceType
<1>3. a \in Nat /\ b \in Nat /\ Place(m.d) = a /\ Place(n.d) = b
  BY <1>1, <1>2
<1>4. FirstSeqId \in Nat /\ NSeqId \in Nat \ {0}
  BY DataConstants
<1>5. (FirstSeqId + a) % NSeqId = (FirstSeqId + b) % NSeqId
  BY <1>1, <1>3, Zenon DEF SeqIdOf
<1> HIDE DEF a, b
<1>c. \A x, y \in Nat : (FirstSeqId + x) % NSeqId = (FirstSeqId + y) % NSeqId => (x - y) % NSeqId = 0
  BY <1>4, SameSeqId, Zenon
<1>6. (a - b) % NSeqId = 0
  BY <1>3, <1>5, <1>c, Zenon
<1> QED
  BY <1>1, <1>6, Zenon DEF Alike, Fragmented, a, b

\* What comes out of reassembly when packets P were accepted (OneDatagram).
Good(v, P) ==
  \A i \in DOMAIN v :
    \/ Complete(v, v[i])
    \/ /\ \A j \in DOMAIN v : Alike(v[i], v[j])
       /\ \E m \in P : m.d # v[i] /\ Alike(v[i], m.d)

\* A buffer that is full: one datagram, complete, or several that are alike.
LEMMA FullIsGood ==
  ASSUME NEW P, NEW s, \A m \in P : Proper(m),
         NEW f \in Buffer, f.defined, Full(f), Sound(f, s, P)
  PROVE  Good(f.pieces, P)
<1> DEFINE v == f.pieces
<1>1. /\ \A x \in DOMAIN v : \E m \in P : Fragment(m, s) /\ m.frag_id = x /\ m.d = v[x]
      /\ \A x \in f.map : \E m \in P :
           /\ Fragment(m, s) /\ m.frag_id \in DOMAIN v
           /\ m.frag_id = x \/ (m.type = "LAST" /\ m.frag_id <= x)
  BY DEF Sound
<1>2. f.map = 0..(MaxFrags - 1)
  BY DEF Full
<1>3. SUFFICES ASSUME NEW i \in DOMAIN v
               PROVE  \/ Complete(v, v[i])
                      \/ /\ \A j \in DOMAIN v : Alike(v[i], v[j])
                         /\ \E m \in P : m.d # v[i] /\ Alike(v[i], m.d)
  BY DEF Good
<1> HIDE DEF v
<1> DEFINE d == v[i]
<1>4. PICK p \in P : Fragment(p, s) /\ p.frag_id = i /\ p.d = d
  BY <1>1, <1>3
<1>5. \A m \in P : Fragment(m, s) => Alike(d, m.d)
  BY <1>4, FragmentsAlike, Zenon
<1>6. \A j \in DOMAIN v : Alike(d, v[j])
  BY <1>1, <1>5, Zenon
<1>7. CASE \E m \in P : Fragment(m, s) /\ m.d # d
  BY <1>5, <1>6, <1>7, Zenon
<1>8. CASE \A m \in P : Fragment(m, s) => m.d = d
  <2> DEFINE k == Fragments[d]
  <2>1. d \in 1..Len(Lengths) /\ Fragmented(d)
    BY <1>4 DEF Proper, Fragment
  <2>2. k \in Nat /\ k >= 1 /\ k <= MaxFrags /\ MaxFrags \in Nat
    BY <2>1, FragmentFacts, LengthFacts
  <2>3. \A m \in P : Fragment(m, s) =>
          m.frag_id \in 0..(k - 1) /\ (m.type = "LAST" <=> m.frag_id = k - 1)
    BY <1>8 DEF Proper, Fragment
  <2> HIDE DEF k
  <2>4. \A j \in DOMAIN v : v[j] = d /\ j \in 0..(k - 1)
    BY <1>1, <1>8, <2>3
  <2>5. ASSUME NEW x \in 0..(k - 1) PROVE x \in DOMAIN v
    <3>1. x \in f.map
      BY <1>2, <2>2
    <3>2. PICK m \in P : /\ Fragment(m, s) /\ m.frag_id \in DOMAIN v
                         /\ m.frag_id = x \/ (m.type = "LAST" /\ m.frag_id <= x)
      BY <1>1, <3>1
    <3>3. m.frag_id = x
      BY <2>2, <2>3, <3>2
    <3> QED
      BY <3>2, <3>3
  <2>6. DOMAIN v = 0..(k - 1)
    BY <2>4, <2>5
  <2>7. Long(Lengths[d])
    BY <2>1 DEF Fragmented
  <2> QED
    BY <2>4, <2>6, <2>7 DEF Complete, k
<1> QED
  BY <1>7, <1>8

\* More packets take nothing away.
LEMMA MorePackets ==
  ASSUME NEW P, NEW Q, P \subseteq Q
  PROVE  /\ \A l : SoundList(l, P) => SoundList(l, Q)
         /\ \A v : Good(v, P) => Good(v, Q)
<1>1. \A f, s : Sound(f, s, P) => Sound(f, s, Q)
  BY Zenon DEF Sound
<1>2. \A l : SoundList(l, P) => SoundList(l, Q)
  BY <1>1, Zenon DEF SoundList
<1>3. \A v : Good(v, P) => Good(v, Q)
  BY Zenon DEF Good
<1> QED
  BY <1>2, <1>3

LEMMA OneDatagramIs == OneDatagram <=> \A v \in delivered : Good(v, AcceptedPackets)
BY DEF OneDatagram, Good, AcceptedPackets

\* A fragment the receiver accepts.
LEMMA FragmentKeeps ==
  ASSUME now \in Nat, NEW P, \A n \in P : Proper(n), SoundList(incoming, P),
         NEW m \in P, m.type # "WHOLE"
  PROVE  LET r == fragment_incoming(m)
         IN SoundList(r.list, P) /\ \A v \in r.datagram : Good(v, P)
<1> DEFINE s == m.seq_id
           b == fragment_list_get_buf(incoming, s)
           l == b.list
           f == Joined(l.fragments[b.at], m)
           g == IF Full(f) THEN NoFragment ELSE f
           r == fragment_incoming(m)
           I == 0..(NFragBuf - 1)
<1>1. Proper(m) /\ Fragment(m, s)
  BY DEF Fragment
<1>2. s \in 0..(NSeqId - 1)
  <2> DEFINE k == FirstSeqId + Place(m.d)
  <2>1. m.d \in 1..Len(Lengths) /\ s = k % NSeqId
    BY <1>1, Zenon DEF Proper, SeqIdOf
  <2>2. Place(m.d) \in Nat
    BY <2>1, PlaceType
  <2>3. k \in Nat /\ NSeqId \in Nat \ {0}
    BY <2>2, DataConstants
  <2> HIDE DEF k
  <2> QED
    BY <2>1, <2>3, NextSeqId, Zenon
<1>3. SoundList(l, P) /\ b.at \in I /\ SeqIdAt(l, b.at) = s
  BY <1>2, GetBuf, Zenon
<1>4. r = [list |-> [l EXCEPT !.fragments[b.at] = g], datagram |-> IF Full(f) THEN {f.pieces} ELSE {}]
  BY DEF fragment_incoming
<1> HIDE DEF b, r, s
<1>5. /\ l \in List /\ l.index \in I /\ l.seq_id \in 0..(NSeqId - 1) /\ l.fragments \in [I -> Buffer]
      /\ \A i \in I : Sound(l.fragments[i], SeqIdAt(l, i), P)
  BY <1>3 DEF SoundList, List
<1>6. f \in Buffer /\ f.defined /\ Sound(f, s, P)
  <2> DEFINE e == l.fragments[b.at]
  <2>1. e \in Buffer /\ Sound(e, s, P)
    BY <1>3, <1>5
  <2> HIDE DEF e
  <2>2. Joined(e, m) \in Buffer /\ Joined(e, m).defined /\ Sound(Joined(e, m), s, P)
    BY <1>1, <2>1, JoinedSound
  <2> QED
    BY <2>2 DEF e
<1> HIDE DEF f, l
<1>7. g \in Buffer /\ Sound(g, s, P)
  <2>1. CASE Full(f)
    BY <2>1, EmptySound DEF Sound
  <2>2. CASE ~Full(f)
    BY <1>6, <2>2
  <2> QED
    BY <2>1, <2>2
<1> HIDE DEF g
<1> DEFINE n == [l EXCEPT !.fragments[b.at] = g]
<1>8. /\ n \in List /\ n.index = l.index /\ n.seq_id = l.seq_id
      /\ n.fragments = [l.fragments EXCEPT ![b.at] = g]
  BY <1>3, <1>5, <1>7 DEF List
<1> HIDE DEF n
<1>9. SoundList(n, P)
  <2> SUFFICES ASSUME NEW i \in I PROVE Sound(n.fragments[i], SeqIdAt(n, i), P)
    BY <1>8 DEF SoundList
  <2>1. SeqIdAt(n, i) = SeqIdAt(l, i)
    BY <1>8 DEF SeqIdAt, Behind
  <2>2. CASE i = b.at
    <3>1. n.fragments[i] = g
      BY <1>3, <1>5, <1>8, <2>2
    <3> QED
      BY <1>3, <1>7, <2>1, <2>2, <3>1
  <2>3. CASE i # b.at
    <3>1. n.fragments[i] = l.fragments[i]
      BY <1>5, <1>8, <2>3
    <3> QED
      BY <1>5, <2>1, <3>1
  <2> QED
    BY <2>2, <2>3
<1>10. \A v \in r.datagram : Good(v, P)
  <2>1. \A v \in r.datagram : Full(f) /\ v = f.pieces
    BY <1>4
  <2> QED
    BY <1>6, <2>1, FullIsGood
<1>11. r.list = n
  BY <1>4 DEF n
<1> QED
  BY <1>9, <1>10, <1>11 DEF r

\* A packet that passes the replay check.
LEMMA AcceptSound ==
  ASSUME ReassemblyInv, NEW id \in 1..Len(sent),
         LET p == packet_id_reap_test(rec, now) IN packet_id_test(p, id),
         process_incoming_link(id)
  PROVE  /\ SoundList(incoming', AcceptedPackets')
         /\ \A v \in delivered' : Good(v, AcceptedPackets')
         /\ \A a \in accepted' : a.id \in 1..Len(sent')
<1> DEFINE m == sent[id]
           r == fragment_incoming(m)
           P == AcceptedPackets
           Q == AcceptedPackets'
<1>1. /\ incoming' = r.list /\ sent' = sent /\ delivered' = delivered \cup r.datagram
      /\ accepted' = accepted \cup {[id |-> id, at |-> now]}
  BY DEF process_incoming_link
<1>2. now \in Nat /\ SenderInv /\ SoundList(incoming, P) /\ OneDatagram
      /\ \A a \in accepted : a.id \in 1..Len(sent)
  BY DEF ReassemblyInv, TypeInv
<1>3. P \subseteq Q /\ m \in Q
  <2>1. Q = {sent[a.id] : a \in accepted'}
    BY <1>1 DEF AcceptedPackets
  <2>2. [id |-> id, at |-> now] \in accepted' /\ [id |-> id, at |-> now].id = id
    BY <1>1
  <2>3. accepted \subseteq accepted'
    BY <1>1
  <2> HIDE DEF Q
  <2>4. m \in Q
    BY <2>1, <2>2
  <2>5. P \subseteq Q
    BY <2>1, <2>3 DEF AcceptedPackets
  <2> QED
    BY <2>4, <2>5
<1>4. \A a \in accepted' : a.id \in 1..Len(sent')
  BY <1>1, <1>2
<1>5. \A n \in Q : Proper(n)
  BY <1>1, <1>2, <1>4 DEF AcceptedPackets, SenderInv
<1>6. SoundList(incoming, Q) /\ \A v \in delivered : Good(v, Q)
  BY <1>2, <1>3, MorePackets, OneDatagramIs, Zenon
<1>7. SoundList(r.list, Q) /\ \A v \in r.datagram : Good(v, Q)
  <2>1. CASE m.type = "WHOLE"
    <3> DEFINE w == [i \in {0} |-> m.d]
    <3>1. r = [list |-> incoming, datagram |-> {w}]
      BY <2>1 DEF fragment_incoming
    <3>2. ~Long(Lengths[m.d])
      BY <1>3, <1>5, <2>1 DEF Proper
    <3>3. DOMAIN w = 0..0 /\ \A j \in DOMAIN w : w[j] = m.d
      OBVIOUS
    <3> HIDE DEF w, r
    <3>4. Good(w, Q)
      BY <3>2, <3>3 DEF Good, Complete
    <3> QED
      BY <1>6, <3>1, <3>4
  <2>2. CASE m.type # "WHOLE"
    <3> HIDE DEF m, Q
    <3> QED
      BY <1>2, <1>3, <1>5, <1>6, <2>2, FragmentKeeps
  <2> QED
    BY <2>1, <2>2
<1> HIDE DEF r, Q
<1>8. \A v \in delivered' : Good(v, Q)
  BY <1>1, <1>6, <1>7
<1> QED
  BY <1>1, <1>4, <1>7, <1>8 DEF Q

\* fragment_ttl_reap only empties buffers.
LEMMA WakeupSound ==
  ASSUME NEW P, SoundList(incoming, P), fragment_wakeup
  PROVE  SoundList(incoming', P)
<1> DEFINE I == 0..(NFragBuf - 1)
           old(f) == f.defined /\ f.timestamp + FragTtl <= now
           F == [i \in I |-> IF old(incoming.fragments[i]) THEN NoFragment ELSE incoming.fragments[i]]
<1>1. /\ incoming \in List /\ incoming.fragments \in [I -> Buffer]
      /\ \A i \in I : Sound(incoming.fragments[i], SeqIdAt(incoming, i), P)
  BY DEF SoundList, List
<1>2. incoming' = [incoming EXCEPT !.fragments = F]
  BY DEF fragment_wakeup
<1>3. \A i \in I : F[i] = NoFragment \/ F[i] = incoming.fragments[i]
  OBVIOUS
<1>4. F \in [I -> Buffer]
  BY <1>1, EmptySound
<1> HIDE DEF F
<1>5. /\ incoming' \in List /\ incoming'.fragments = F
      /\ incoming'.index = incoming.index /\ incoming'.seq_id = incoming.seq_id
  BY <1>1, <1>2, <1>4 DEF List
<1> SUFFICES ASSUME NEW i \in I PROVE Sound(incoming'.fragments[i], SeqIdAt(incoming', i), P)
  BY <1>5 DEF SoundList
<1>6. SeqIdAt(incoming', i) = SeqIdAt(incoming, i)
  BY <1>5 DEF SeqIdAt, Behind
<1>7. CASE F[i] = NoFragment
  BY <1>5, <1>7, EmptySound DEF Sound
<1>8. CASE F[i] = incoming.fragments[i]
  BY <1>1, <1>5, <1>6, <1>8
<1> QED
  BY <1>3, <1>7, <1>8

LEMMA ReassemblyInitial == Init => ReassemblyInv
<1> SUFFICES ASSUME Init PROVE ReassemblyInv
  OBVIOUS
<1>1. TypeInv
  BY TypeInitial
<1>2. SenderInv
  <2>1. out.d = 0 /\ out.seq_id = FirstSeqId /\ out.left = 0 /\ Len(sent) = 0
    BY DEF Init
  <2>2. FirstSeqId \in 0..(NSeqId - 1) /\ NSeqId \in Nat \ {0} /\ Len(Lengths) \in Nat
    BY DataConstants
  <2>3. FirstSeqId = (NSeqId * 0) + FirstSeqId /\ 0 \in Int /\ FirstSeqId \in Nat
    BY <2>2
  <2>4. FirstSeqId % NSeqId = FirstSeqId
    BY <2>2, <2>3, ModIs, Zenon
  <2>5. FirstSeqId + 0 = FirstSeqId /\ Place(0) = 0
    BY <2>2 DEF Place
  <2>6. SeqIdOf(0) = FirstSeqId
    BY <2>4, <2>5 DEF SeqIdOf
  <2> QED
    BY <2>1, <2>2, <2>6 DEF SenderInv
<1>3. accepted = {} /\ delivered = {} /\ incoming = Emptied(0)
  BY DEF Init
<1>4. SoundList(incoming, AcceptedPackets)
  <2>1. NFragBuf \in Nat \ {0} /\ NSeqId \in Nat \ {0}
    BY DataConstants
  <2>2. Emptied(0) \in List /\ \A i \in 0..(NFragBuf - 1) : Emptied(0).fragments[i] = NoFragment
    BY <2>1, EmptySound DEF Emptied, List
  <2> QED
    BY <1>3, <2>2, EmptySound DEF SoundList, Sound
<1> QED
  BY <1>1, <1>2, <1>3, <1>4 DEF ReassemblyInv, OneDatagram

LEMMA ReassemblyInductive ==
  ASSUME ReassemblyInv, TypeInv', [Next]_vars
  PROVE  ReassemblyInv'
<1>1. /\ TypeInv /\ SenderInv /\ SoundList(incoming, AcceptedPackets)
      /\ \A a \in accepted : a.id \in 1..Len(sent)
      /\ \A v \in delivered : Good(v, AcceptedPackets)
  BY OneDatagramIs DEF ReassemblyInv
<1>2. SUFFICES /\ SenderInv' /\ SoundList(incoming', AcceptedPackets')
               /\ \A a \in accepted' : a.id \in 1..Len(sent')
               /\ \A v \in delivered' : Good(v, AcceptedPackets')
  <2>1. OneDatagram' <=> \A v \in delivered' : Good(v, AcceptedPackets')
    BY DEF OneDatagram, Good, AcceptedPackets
  <2> QED
    BY <2>1 DEF ReassemblyInv
<1>3. ASSUME fragment_outgoing \/ check_fragment
      PROVE  /\ SenderInv' /\ SoundList(incoming', AcceptedPackets')
             /\ \A a \in accepted' : a.id \in 1..Len(sent')
             /\ \A v \in delivered' : Good(v, AcceptedPackets')
  <2>1. SenderInv' /\ Sent
    BY <1>1, <1>3, SenderKeeps
  <2>2. incoming' = incoming /\ accepted' = accepted /\ delivered' = delivered
    BY <1>3 DEF fragment_outgoing, check_fragment, history
  <2>3. Len(sent) \in Nat
    BY <1>1 DEF TypeInv
  <2>4. \A a \in accepted : a.id \in 1..Len(sent') /\ sent'[a.id] = sent[a.id]
    BY <1>1, <2>1, <2>3 DEF Sent
  <2>5. AcceptedPackets' = AcceptedPackets
    BY <2>2, <2>4 DEF AcceptedPackets
  <2> QED
    BY <1>1, <2>1, <2>2, <2>4, <2>5
<1>4. ASSUME out' = out, sent' = sent, accepted' = accepted, delivered' = delivered,
             SoundList(incoming', AcceptedPackets)
      PROVE  /\ SenderInv' /\ SoundList(incoming', AcceptedPackets')
             /\ \A a \in accepted' : a.id \in 1..Len(sent')
             /\ \A v \in delivered' : Good(v, AcceptedPackets')
  <2>1. AcceptedPackets' = AcceptedPackets
    BY <1>4 DEF AcceptedPackets
  <2>2. SenderInv'
    BY <1>1, <1>4 DEF SenderInv
  <2> QED
    BY <1>1, <1>4, <2>1, <2>2
<1>5. ASSUME NEW id \in 1..Len(sent), process_incoming_link(id)
      PROVE  /\ SenderInv' /\ SoundList(incoming', AcceptedPackets')
             /\ \A a \in accepted' : a.id \in 1..Len(sent')
             /\ \A v \in delivered' : Good(v, AcceptedPackets')
  <2> DEFINE ok == packet_id_test(packet_id_reap_test(rec, now), id)
  <2>1. CASE ok
    <3>1. out' = out /\ sent' = sent
      BY <1>5, <2>1 DEF process_incoming_link
    <3>2. SenderInv'
      BY <1>1, <3>1 DEF SenderInv
    <3> QED
      BY <1>5, <2>1, <3>2, AcceptSound
  <2>2. CASE ~ok
    <3>1. out' = out /\ sent' = sent /\ incoming' = incoming /\ accepted' = accepted /\ delivered' = delivered
      BY <1>5, <2>2 DEF process_incoming_link, history
    <3> QED
      BY <1>1, <1>4, <3>1
  <2> QED
    BY <2>1, <2>2
<1>6. CASE fragment_wakeup
  <2>1. out' = out /\ sent' = sent /\ accepted' = accepted /\ delivered' = delivered
    BY <1>6 DEF fragment_wakeup
  <2> QED
    BY <1>1, <1>4, <1>6, <2>1, WakeupSound
<1>7. CASE Tick \/ UNCHANGED vars
  <2>1. out' = out /\ sent' = sent /\ incoming' = incoming /\ accepted' = accepted /\ delivered' = delivered
    BY <1>7 DEF Tick, vars, history
  <2> QED
    BY <1>1, <1>4, <2>1
<1> QED
  BY <1>3, <1>5, <1>6, <1>7 DEF Next

\* Whatever the network loses, repeats and reorders and wherever the window of
\* buffers is: reassembly delivers whole datagrams, unless sequence ids come
\* round and fragments of two datagrams a multiple of N_SEQ_ID apart meet.
THEOREM Reassembly == Spec => []OneDatagram
<1>1. IInv => TypeInv
  BY DEF IInv
<1>2. ReassemblyInv /\ TypeInv' /\ [Next]_vars => ReassemblyInv'
  BY ReassemblyInductive
<1>3. ReassemblyInv => OneDatagram
  BY DEF ReassemblyInv
<1> QED
  BY <1>1, <1>2, <1>3, ReassemblyInitial, IInvHolds, PTL DEF Spec
-----------------------------------------------------------------------------
(* Reassembly loses nothing but what is disturbed. *)

\* Fragments are sent once, in their order.
SentOnce ==
  /\ \A x \in 1..Len(sent) :
       /\ sent[x].d <= out.d
       /\ (sent[x].type # "WHOLE" /\ sent[x].d = out.d) => sent[x].frag_id < out.frag_id
  /\ \A x, y \in 1..Len(sent) :
       (/\ sent[x].type # "WHOLE" /\ sent[y].type # "WHOLE"
        /\ sent[x].d = sent[y].d /\ sent[x].frag_id = sent[y].frag_id) => x = y

\* Datagrams a piece of which came out, and datagrams under way.
CameOut == UNION {{v[x] : x \in DOMAIN v} : v \in delivered}
UnderWay == {d \in 1..Len(Lengths) : Long(Lengths[d]) /\ PacketsOf(d, accepted) # {}}

\* Buffer f has everything that was accepted of datagram d, and is not full.
Collects(f, d) ==
  /\ f.defined /\ f.size = SizeOf(d) /\ ~Full(f)
  /\ \A a \in PacketsOf(d, accepted) :
       /\ a.at <= f.timestamp
       /\ sent[a.id].frag_id \in f.map
       /\ sent[a.id].type = "LAST" => sent[a.id].frag_id..(MaxFrags - 1) \subseteq f.map

DeliveryInv ==
  /\ ReassemblyInv /\ SentOnce
  /\ \A a, b \in accepted : a.id = b.id => a = b
  /\ \A a \in accepted : a.at <= now
  /\ \A i \in 0..(NFragBuf - 1) : incoming.fragments[i].map \subseteq 0..(MaxFrags - 1)
  /\ \A d \in UnderWay \ (disturbed \cup CameOut) :
       \E i \in 0..(NFragBuf - 1) :
         SeqIdAt(incoming, i) = SeqIdOf(d) /\ Collects(incoming.fragments[i], d)

\* Later fragmented datagrams have greater places.
LEMMA PlacesIncrease ==
  ASSUME NEW d \in 1..Len(Lengths), NEW e \in 1..Len(Lengths), d < e, Fragmented(e)
  PROVE  Ord[d] < Ord[e]
<1> DEFINE F(n) == {x \in 1..n : Long(Lengths[x]) /\ ~TooLong(Lengths[x])}
<1>1. d \in Nat /\ e \in Nat /\ Ord[d] = Cardinality(F(d)) /\ Ord[e] = Cardinality(F(e))
  BY LengthFacts DEF Ord
<1>2. IsFiniteSet(F(e)) /\ IsFiniteSet(F(d))
  <2>1. F(e) \in SUBSET (1..e) /\ F(d) \in SUBSET (1..d)
    OBVIOUS
  <2> HIDE DEF F
  <2>2. IsFiniteSet(1..e) /\ IsFiniteSet(1..d)
    BY <1>1, FS_Interval
  <2> QED
    BY <2>1, <2>2, FS_Subset
<1>3. e \notin F(d) /\ F(d) \cup {e} \in SUBSET F(e)
  BY <1>1 DEF Fragmented
<1> HIDE DEF F
<1>4. /\ Cardinality(F(d) \cup {e}) = Cardinality(F(d)) + 1
      /\ Cardinality(F(d)) \in Nat /\ Cardinality(F(e)) \in Nat
  BY <1>2, <1>3, FS_AddElement, FS_CardinalityType
<1>5. Cardinality(F(d) \cup {e}) <= Cardinality(F(e))
  BY <1>2, <1>3, FS_Subset
<1> QED
  BY <1>1, <1>4, <1>5

\* The sequence id of a datagram k places further on.
LEMMA LaterSeqId ==
  ASSUME NEW s \in Nat, NEW n \in Nat \ {0}, NEW k \in 0..(n - 1)
  PROVE  (s + k) % n = modulo_add(s % n, k, n) /\ s % n \in 0..(n - 1)
<1> DEFINE q == s \div n
           r == s % n
<1>1. q \in Nat /\ r \in 0..(n - 1) /\ s = (n * q) + r
  BY DivMod, Zenon
<1> HIDE DEF q, r
<1>2. CASE r + k < n
  <2>1. s + k = (n * q) + (r + k) /\ r + k \in 0..(n - 1) /\ q \in Int
    BY <1>1, <1>2
  <2>2. (s + k) % n = r + k
    BY <2>1, ModIs
  <2>3. modulo_add(r, k, n) = r + k
    BY <1>1, <1>2 DEF modulo_add
  <2> QED
    BY <1>1, <2>2, <2>3 DEF r
<1>3. CASE r + k >= n
  <2>0. n * (q + 1) = (n * q) + n /\ n * q \in Nat
    BY <1>1
  <2>1. s + k = (n * (q + 1)) + (r + k - n) /\ r + k - n \in 0..(n - 1) /\ q + 1 \in Int
    BY <1>1, <1>3, <2>0
  <2>2. (s + k) % n = r + k - n
    BY <2>1, ModIs
  <2>3. modulo_add(r, k, n) = r + k - n
    BY <1>1, <1>3 DEF modulo_add
  <2> QED
    BY <1>1, <2>2, <2>3 DEF r
<1> QED
  BY <1>1, <1>2, <1>3

LEMMA LaterPlace ==
  ASSUME NEW d \in 1..Len(Lengths), NEW e \in 1..Len(Lengths), NEW k \in 0..(NFragBuf - 1),
         Ord[e] - Ord[d] = k
  PROVE  SeqIdOf(e) = modulo_add(SeqIdOf(d), k, NSeqId) /\ SeqIdOf(d) \in 0..(NSeqId - 1)
<1> DEFINE s == FirstSeqId + Place(d)
<1>1. /\ Ord[d] \in Nat /\ Place(d) = Ord[d] /\ Ord[e] \in Nat /\ Place(e) = Ord[e]
  BY PlaceType
<1>2. FirstSeqId \in Nat /\ NSeqId \in Nat \ {0} /\ k \in 0..(NSeqId - 1)
  BY DataConstants
<1>3. s \in Nat /\ FirstSeqId + Place(e) = s + k
  BY <1>1, <1>2
<1>4. SeqIdOf(d) = s % NSeqId /\ SeqIdOf(e) = (s + k) % NSeqId
  BY <1>3, Zenon DEF SeqIdOf
<1> HIDE DEF s
<1> QED
  BY <1>2, <1>3, <1>4, LaterSeqId, Zenon

\* fragment_list_get_buf empties buffers or leaves them as they are.
LEMMA GetBufFragments ==
  ASSUME NEW l \in List, NEW s \in 0..(NSeqId - 1), NEW i \in 0..(NFragBuf - 1)
  PROVE  LET b == fragment_list_get_buf(l, s)
         IN b.list.fragments[i] \in {NoFragment, l.fragments[i]}
<1> DEFINE diff == modulo_subtract(s, l.seq_id, NSeqId)
           b == fragment_list_get_buf(l, s)
<1>1. b = CASE Abs(diff) >= NFragBuf -> [list |-> Emptied(s), at |-> 0]
            [] diff \in 0..(NFragBuf - 1) -> [list |-> Moved(l, diff), at |-> Moved(l, diff).index]
            [] OTHER -> [list |-> l, at |-> modulo_add(l.index, diff, NFragBuf)]
  BY DEF fragment_list_get_buf
<1> HIDE DEF b, diff
<1>2. b.list = Emptied(s) \/ b.list = Moved(l, diff) \/ b.list = l
  BY <1>1
<1>3. Emptied(s).fragments[i] = NoFragment
  BY DEF Emptied
<1>4. Moved(l, diff).fragments[i] \in {NoFragment, l.fragments[i]}
  BY DEF Moved
<1> QED
  BY <1>2, <1>3, <1>4 DEF b

\* It keeps the buffer of a datagram that is no more than NFragBuf - 1 places
\* behind the one it is asked for, and finds just that one again.
LEMMA GetBufKeeps ==
  ASSUME NEW l \in List, NEW i \in 0..(NFragBuf - 1), NEW k \in 0..(NFragBuf - 1),
         NEW t, t = modulo_add(SeqIdAt(l, i), k, NSeqId)
  PROVE  LET b == fragment_list_get_buf(l, t)
         IN /\ b.list.fragments[i] = l.fragments[i] /\ SeqIdAt(b.list, i) = SeqIdAt(l, i)
            /\ b.at = i <=> k = 0
<1> DEFINE x == l.index
           T == l.seq_id
           w == Behind(l, i)
           s == SeqIdAt(l, i)
           I == 0..(NFragBuf - 1)
           diff == modulo_subtract(t, T, NSeqId)
           b == fragment_list_get_buf(l, t)
<1>1. NFragBuf \in Nat \ {0} /\ NSeqId \in Nat \ {0} /\ 2 * NFragBuf <= NSeqId
  BY DataConstants
<1>2. x \in I /\ T \in 0..(NSeqId - 1)
  BY DEF List
<1>3. w = (IF i <= x THEN x - i ELSE x - i + NFragBuf) /\ s = (IF T >= w THEN T - w ELSE T - w + NSeqId)
  BY DEF Behind, SeqIdAt
<1>4. t = modulo_add(s, k, NSeqId)
  OBVIOUS
<1>5. b = CASE Abs(diff) >= NFragBuf -> [list |-> Emptied(t), at |-> 0]
            [] diff \in I -> [list |-> Moved(l, diff), at |-> Moved(l, diff).index]
            [] OTHER -> [list |-> l, at |-> modulo_add(x, diff, NFragBuf)]
  BY DEF fragment_list_get_buf
<1>6. /\ Moved(l, diff).index = modulo_add(x, diff, NFragBuf)
      /\ Moved(l, diff).seq_id = modulo_add(T, diff, NSeqId)
      /\ (\A y \in 1..diff : modulo_add(x, y, NFragBuf) # i) => Moved(l, diff).fragments[i] = l.fragments[i]
  BY DEF Moved
<1>7. \A n : /\ Behind(n, i) = (IF i <= n.index THEN n.index - i ELSE n.index - i + NFragBuf)
             /\ SeqIdAt(n, i) = (IF n.seq_id >= Behind(n, i) THEN n.seq_id - Behind(n, i)
                                 ELSE n.seq_id - Behind(n, i) + NSeqId)
  BY DEF Behind, SeqIdAt
<1> HIDE DEF b, w, s
<1>8. w \in I
  BY <1>1, <1>2, <1>3
<1>9. s \in 0..(NSeqId - 1)
  BY <1>1, <1>2, <1>3, <1>8
<1>10. t \in 0..(NSeqId - 1) /\ (t = s + k \/ t = s + k - NSeqId)
  BY <1>1, <1>4, <1>9 DEF modulo_add
<1>11. diff = k - w
  <2> HIDE DEF x, T
  <2>1. t - T = k - w \/ t - T = k - w + NSeqId \/ t - T = k - w - NSeqId
    BY <1>1, <1>2, <1>3, <1>8, <1>10
  <2>2. diff = IF Abs(t - T) > Abs((IF t > T THEN -NSeqId ELSE NSeqId) + (t - T))
               THEN (IF t > T THEN -NSeqId ELSE NSeqId) + (t - T) ELSE t - T
    BY DEF modulo_subtract
  <2>3. k - w < NFragBuf /\ w - k < NFragBuf /\ k \in Int /\ w \in Int /\ t \in Int /\ T \in Int
    BY <1>1, <1>2, <1>8, <1>10
  <2> HIDE DEF diff
  <2>4. CASE t - T = k - w
    BY <1>1, <2>2, <2>3, <2>4 DEF Abs
  <2>5. CASE t - T = k - w + NSeqId
    BY <1>1, <2>2, <2>3, <2>5 DEF Abs
  <2>6. CASE t - T = k - w - NSeqId
    BY <1>1, <2>2, <2>3, <2>6 DEF Abs
  <2> QED
    BY <2>1, <2>4, <2>5, <2>6
<1> HIDE DEF diff, x, T
<1>12. ~(Abs(diff) >= NFragBuf) /\ diff \in Int
  BY <1>1, <1>8, <1>11 DEF Abs
<1>13. CASE diff \in I
  <2> DEFINE n == Moved(l, diff)
  <2>1. b.list = n /\ b.at = n.index
    BY <1>5, <1>12, <1>13
  <2>2. \A y \in 1..diff : modulo_add(x, y, NFragBuf) # i
    <3> SUFFICES ASSUME NEW y \in 1..diff PROVE modulo_add(x, y, NFragBuf) # i
      OBVIOUS
    <3>1. y + w < NFragBuf /\ y \in Nat /\ y >= 1
      BY <1>1, <1>8, <1>11, <1>13
    <3>2. modulo_add(x, y, NFragBuf) = IF x + y >= NFragBuf THEN x + y - NFragBuf ELSE x + y
      BY <1>1, <1>2, <3>1 DEF modulo_add
    <3> QED
      BY <1>1, <1>2, <1>3, <1>8, <3>1, <3>2
  <2>3. n.fragments[i] = l.fragments[i]
    BY <1>6, <2>2
  <2> DEFINE u == n.index
             U == n.seq_id
  <2>4. u = modulo_add(x, diff, NFragBuf) /\ U = modulo_add(T, diff, NSeqId)
    BY <1>6
  <2>5. /\ Behind(n, i) = (IF i <= u THEN u - i ELSE u - i + NFragBuf)
        /\ SeqIdAt(n, i) = (IF U >= Behind(n, i) THEN U - Behind(n, i) ELSE U - Behind(n, i) + NSeqId)
    BY <1>7
  <2> DEFINE v == Behind(n, i)
  <2>6. v = (IF i <= u THEN u - i ELSE u - i + NFragBuf)
        /\ SeqIdAt(n, i) = (IF U >= v THEN U - v ELSE U - v + NSeqId)
    BY <2>5
  <2> HIDE DEF n, u, U, v
  <2>7. u = (IF x + diff >= NFragBuf THEN x + diff - NFragBuf ELSE x + diff) /\ u \in I
    BY <1>1, <1>2, <1>13, <2>4 DEF modulo_add
  <2>8. v = k
    <3>1. CASE i <= x
      BY <1>1, <1>2, <1>3, <1>8, <1>11, <1>13, <2>6, <2>7, <3>1
    <3>2. CASE ~(i <= x)
      BY <1>1, <1>2, <1>3, <1>8, <1>11, <1>13, <2>6, <2>7, <3>2
    <3> QED
      BY <3>1, <3>2
  <2>9. U = (IF T + diff >= NSeqId THEN T + diff - NSeqId ELSE T + diff)
    BY <1>1, <1>2, <1>13, <2>4 DEF modulo_add
  <2>10. SeqIdAt(n, i) = s
    <3>1. diff + w = k /\ diff \in Nat /\ w \in Nat /\ k \in Nat /\ k < NFragBuf /\ T \in Nat /\ T < NSeqId
      BY <1>1, <1>2, <1>8, <1>11, <1>13
    <3>2. CASE T + diff >= NSeqId
      <4>1. U = T + diff - NSeqId
        BY <2>9, <3>2
      <4>2. T >= w /\ ~(U >= k) /\ U - k + NSeqId = T - w
        BY <1>1, <3>1, <3>2, <4>1
      <4> QED
        BY <1>3, <2>6, <2>8, <4>2
    <3>3. CASE ~(T + diff >= NSeqId)
      <4>1. U = T + diff
        BY <2>9, <3>3
      <4>2. (T >= w <=> U >= k) /\ U - k = T - w
        BY <1>1, <3>1, <4>1
      <4> QED
        BY <1>3, <2>6, <2>8, <4>2
    <3> QED
      BY <3>2, <3>3
  <2>11. u = i <=> k = 0
    BY <1>1, <1>2, <2>6, <2>7, <2>8
  <2> QED
    BY <2>1, <2>3, <2>10, <2>11 DEF b, s, u
<1>14. CASE diff \notin I
  <2> DEFINE at == modulo_add(x, diff, NFragBuf)
  <2>1. b.list = l /\ b.at = at
    BY <1>5, <1>12, <1>14
  <2>2. diff < 0 /\ k < w
    BY <1>1, <1>8, <1>11, <1>12, <1>14 DEF Abs
  <2>3. at = IF x + diff < 0 THEN x + diff + NFragBuf ELSE x + diff
    BY <1>1, <1>2, <1>8, <1>11, <2>2 DEF modulo_add
  <2> HIDE DEF at
  <2>4. at = i <=> k = 0
    <3>1. CASE i <= x
      BY <1>1, <1>2, <1>3, <1>8, <1>11, <2>2, <2>3, <3>1
    <3>2. CASE ~(i <= x)
      BY <1>1, <1>2, <1>3, <1>8, <1>11, <2>2, <2>3, <3>2
    <3> QED
      BY <3>1, <3>2
  <2> QED
    BY <2>1, <2>4 DEF b, s
<1> QED
  BY <1>13, <1>14

\* What a fragment adds to its buffer.
LEMMA JoinedHas ==
  ASSUME NEW f \in Buffer, f.map \subseteq 0..(MaxFrags - 1), NEW m, Proper(m), m.type # "WHOLE"
  PROVE  LET j == Joined(f, m)
         IN /\ j.size = m.size /\ j.timestamp = now /\ j.map \subseteq 0..(MaxFrags - 1)
            /\ m.frag_id \in j.map
            /\ m.type = "LAST" => m.frag_id..(MaxFrags - 1) \subseteq j.map
            /\ m.frag_id \in DOMAIN j.pieces /\ j.pieces[m.frag_id] = m.d
            /\ (f.defined /\ f.size = m.size) => f.map \subseteq j.map
<1> DEFINE g == IF f.defined /\ f.size = m.size THEN f
                ELSE [NoFragment EXCEPT !.defined = TRUE, !.size = m.size]
           more == IF m.type = "LAST" THEN m.frag_id..(MaxFrags - 1) ELSE {m.frag_id}
           M == g.map \cup more
           V == [i \in DOMAIN g.pieces \cup {m.frag_id} |-> IF i = m.frag_id THEN m.d ELSE g.pieces[i]]
           j == Joined(f, m)
<1>1. m.frag_id \in 0..(MaxFrags - 1) /\ MaxFrags \in Nat \ {0}
  <2>1. m.d \in 1..Len(Lengths) /\ Fragmented(m.d) /\ m.frag_id \in 0..(Fragments[m.d] - 1)
    BY DEF Proper
  <2>2. Fragments[m.d] \in 1..MaxFrags
    BY <2>1, FragmentFacts
  <2>3. MaxFrags \in Nat \ {0}
    BY DataConstants
  <2> QED
    BY <2>1, <2>2, <2>3
<1>2. /\ g.size = m.size /\ g.map \subseteq 0..(MaxFrags - 1)
      /\ (f.defined /\ f.size = m.size) => g.map = f.map
      /\ g = [defined |-> g.defined, size |-> g.size, map |-> g.map, pieces |-> g.pieces,
              timestamp |-> g.timestamp]
  <2>1. CASE f.defined /\ f.size = m.size
    <3>1. g = f
      BY <2>1
    <3> HIDE DEF g
    <3> QED
      BY <2>1, <3>1 DEF Buffer
  <2>2. CASE ~(f.defined /\ f.size = m.size)
    <3>1. g = [defined |-> TRUE, size |-> m.size, map |-> {}, pieces |-> <<>>, timestamp |-> 0]
      BY <2>2 DEF NoFragment
    <3> HIDE DEF g
    <3> QED
      BY <2>2, <3>1
  <2> QED
    BY <2>1, <2>2
<1>3. j = [g EXCEPT !.map = M, !.pieces = V, !.timestamp = now]
  BY DEF Joined
<1>4. m.frag_id \in DOMAIN V /\ V[m.frag_id] = m.d
  OBVIOUS
<1>5. /\ more \subseteq 0..(MaxFrags - 1) /\ m.frag_id \in more
      /\ m.type = "LAST" => m.frag_id..(MaxFrags - 1) \subseteq more
  BY <1>1
<1> HIDE DEF g, j, V, more
<1>6. j.size = g.size /\ j.timestamp = now /\ j.map = M /\ j.pieces = V
  BY <1>2, <1>3
<1>7. M \subseteq 0..(MaxFrags - 1) /\ g.map \subseteq M /\ more \subseteq M
  BY <1>2, <1>5
<1> HIDE DEF M
<1> QED
  BY <1>2, <1>4, <1>5, <1>6, <1>7 DEF j

\* The packets of a datagram that is under way are its fragments.
LEMMA PacketsAre ==
  ASSUME DeliveryInv, NEW d, Long(Lengths[d]), NEW a \in PacketsOf(d, accepted)
  PROVE  /\ a \in accepted /\ a.id \in 1..Len(sent) /\ Proper(sent[a.id]) /\ sent[a.id].d = d
         /\ sent[a.id].type # "WHOLE" /\ d \in 1..Len(Lengths) /\ Fragmented(d)
<1>1. a \in accepted /\ sent[a.id].d = d
  BY DEF PacketsOf
<1>2. a.id \in 1..Len(sent) /\ Proper(sent[a.id])
  BY <1>1 DEF DeliveryInv, ReassemblyInv, SenderInv
<1> QED
  BY <1>1, <1>2 DEF Proper

\* While a buffer collects datagram d, a fragment of d is missing.
LEMMA SomethingMissing ==
  ASSUME DeliveryInv, NEW d \in UnderWay, NEW f, f.map \subseteq 0..(MaxFrags - 1), Collects(f, d)
  PROVE  Cardinality(PacketsOf(d, accepted)) < Fragments[d]
<1> DEFINE A == PacketsOf(d, accepted)
           k == Fragments[d]
           X == {sent[a.id].frag_id : a \in A}
<1>1. Long(Lengths[d]) /\ A # {}
  BY DEF UnderWay
<1>2. \A a \in A : /\ a \in accepted /\ a.id \in 1..Len(sent) /\ Proper(sent[a.id])
                   /\ sent[a.id].d = d /\ sent[a.id].type # "WHOLE"
  BY <1>1, PacketsAre
<1>3. d \in 1..Len(Lengths) /\ Fragmented(d)
  BY <1>1, PacketsAre
<1>4. k \in Nat /\ k >= 1 /\ k <= MaxFrags /\ MaxFrags \in Nat
  BY <1>3, FragmentFacts, LengthFacts
<1>5. \A a \in A : sent[a.id].frag_id \in 0..(k - 1) /\ (sent[a.id].type = "LAST" <=> sent[a.id].frag_id = k - 1)
  BY <1>2 DEF Proper
<1>6. ~Full(f) /\ \A a \in A : /\ sent[a.id].frag_id \in f.map
                               /\ sent[a.id].type = "LAST" => sent[a.id].frag_id..(MaxFrags - 1) \subseteq f.map
  BY DEF Collects
<1>7. \A a, b \in A : sent[a.id].frag_id = sent[b.id].frag_id => a = b
  <2> SUFFICES ASSUME NEW a \in A, NEW b \in A, sent[a.id].frag_id = sent[b.id].frag_id PROVE a = b
    OBVIOUS
  <2>1. a.id = b.id
    BY <1>2 DEF DeliveryInv, SentOnce
  <2> QED
    BY <1>2, <2>1 DEF DeliveryInv
<1> HIDE DEF A, k
<1>8. PICK x \in 0..(k - 1) : x \notin X
  <2>1. ASSUME \A x \in 0..(k - 1) : x \in X PROVE FALSE
    <3>1. \A y \in 0..(MaxFrags - 1) : y \in f.map
      <4> SUFFICES ASSUME NEW y \in 0..(MaxFrags - 1) PROVE y \in f.map
        OBVIOUS
      <4>1. CASE y <= k - 1
        <5>1. y \in X
          BY <1>4, <2>1, <4>1
        <5> QED
          BY <1>6, <5>1
      <4>2. CASE y > k - 1
        <5>1. k - 1 \in X
          BY <1>4, <2>1
        <5>2. PICK a \in A : sent[a.id].frag_id = k - 1
          BY <5>1
        <5>3. (k - 1)..(MaxFrags - 1) \subseteq f.map
          BY <1>5, <1>6, <5>2
        <5> QED
          BY <1>4, <4>2, <5>3
      <4> QED
        BY <1>4, <4>1, <4>2
    <3> QED
      BY <1>6, <3>1 DEF Full
  <2> QED
    BY <2>1
<1> DEFINE T == (0..(k - 1)) \ {x}
           h == [a \in A |-> sent[a.id].frag_id]
<1>9. h \in Injection(A, T)
  <2>1. h \in [A -> T]
    BY <1>5, <1>8
  <2>2. \A a, b \in A : h[a] = h[b] => a = b
    BY <1>7
  <2> HIDE DEF h, T
  <2> QED
    BY <2>1, <2>2 DEF Injection, IsInjective
<1>10. IsFiniteSet(T) /\ Cardinality(T) = k - 1
  <2>1. IsFiniteSet(0..(k - 1)) /\ Cardinality(0..(k - 1)) = k
    <3> DEFINE z == k - 1
    <3>1. z \in Int /\ 0 \in Int /\ z >= 0 /\ z - 0 + 1 = k
      BY <1>4
    <3> HIDE DEF z
    <3>2. IsFiniteSet(0..z) /\ Cardinality(0..z) = IF 0 > z THEN 0 ELSE z - 0 + 1
      BY <3>1, FS_Interval
    <3>3. Cardinality(0..z) = k
      BY <3>1, <3>2
    <3> QED
      BY <3>2, <3>3 DEF z
  <2> QED
    BY <1>8, <2>1, FS_RemoveElement
<1> HIDE DEF T, h
<1>11. IsFiniteSet(A) /\ Cardinality(A) <= k - 1
  BY <1>9, <1>10, FS_Injection
<1>12. Cardinality(A) \in Nat
  BY <1>11, FS_CardinalityType
<1> QED
  BY <1>4, <1>11, <1>12 DEF A, k

LEMMA NothingLost == DeliveryInv => ReassembledUnlessDisturbed
<1> SUFFICES ASSUME DeliveryInv, NEW d \in 1..Len(Lengths), d \notin disturbed, Long(Lengths[d]),
                    Cardinality(PacketsOf(d, accepted)) = Fragments[d]
             PROVE  \E v \in delivered : \E i \in DOMAIN v : v[i] = d
  BY DEF ReassembledUnlessDisturbed
<1>1. PacketsOf(d, accepted) # {}
  <2>1. CASE PacketsOf(d, accepted) = {}
    <3>1. Fragments[d] = 0
      BY <2>1, FS_EmptySet
    <3> DEFINE len == Lengths[d]
               size == SizeOf(d)
    <3>2. len \in Nat \ {0} /\ Payload \in Nat /\ Payload >= 4 /\ len > Payload
      BY LengthFacts DEF Long
    <3>3. size \in Nat \ {0}
      BY <3>2, OptimalSize DEF SizeOf
    <3>4. Fragments[d] = CeilDiv(len, size)
      BY DEF Fragments, SizeOf
    <3> HIDE DEF len, size
    <3>5. len <= CeilDiv(len, size) * size
      BY <3>2, <3>3, CeilDivHas
    <3>6. len <= 0
      BY <3>1, <3>3, <3>4, <3>5
    <3> QED
      BY <3>2, <3>6
  <2> QED
    BY <2>1
<1>2. d \in UnderWay
  BY <1>1 DEF UnderWay
<1>3. CASE d \notin CameOut
  <2>1. PICK i \in 0..(NFragBuf - 1) : Collects(incoming.fragments[i], d)
    BY <1>2, <1>3 DEF DeliveryInv
  <2>2. incoming.fragments[i].map \subseteq 0..(MaxFrags - 1)
    BY DEF DeliveryInv
  <2>3. Cardinality(PacketsOf(d, accepted)) < Fragments[d]
    BY <1>2, <2>1, <2>2, SomethingMissing
  <2>4. Fragments[d] \in Int
    <3>1. PICK a \in PacketsOf(d, accepted) : TRUE
      BY <1>1
    <3>2. Fragmented(d)
      BY PacketsAre
    <3> QED
      BY <3>2, FragmentFacts, LengthFacts
  <2> QED
    BY <2>3, <2>4
<1>4. CASE d \in CameOut
  BY <1>4 DEF CameOut
<1> QED
  BY <1>3, <1>4

\* Sending the next fragment of o, when what was sent is before it.
LEMMA SendOnce ==
  ASSUME sent \in Seq(Packet), SentOnce,
         NEW o \in [d : Nat, seq_id : Int, frag_id : Nat, left : Int, size : Int], Send(o),
         \A x \in 1..Len(sent) :
           /\ sent[x].d <= o.d
           /\ (sent[x].type # "WHOLE" /\ sent[x].d = o.d) => sent[x].frag_id < o.frag_id
  PROVE  SentOnce'
<1> DEFINE m == fragment_ready_to_send(o).packet
           n == Len(sent)
<1>1. sent' = Append(sent, m) /\ out' = fragment_ready_to_send(o).out
  BY DEF Send, encrypt_sign
<1>2. m \in Packet /\ m.d = o.d /\ m.frag_id = o.frag_id
  BY DEF fragment_ready_to_send, Packet
<1>3. out'.d = o.d /\ out'.frag_id = o.frag_id + 1
  BY <1>1 DEF fragment_ready_to_send
<1> HIDE DEF m
<1>4. n \in Nat /\ Len(sent') = n + 1 /\ sent'[n + 1] = m /\ \A x \in 1..n : sent'[x] = sent[x]
  BY <1>1, <1>2
<1>5. \A x \in 1..n : sent[x] \in Packet
  OBVIOUS
<1> HIDE DEF n
<1>6. \A x \in 1..Len(sent') : x \in 1..n \/ x = n + 1
  BY <1>4
<1>7. o.d \in Nat /\ o.frag_id \in Nat
  OBVIOUS
<1>8. \A x \in 1..n : /\ sent[x].d <= o.d
                      /\ (sent[x].type # "WHOLE" /\ sent[x].d = o.d) => sent[x].frag_id < o.frag_id
                      /\ sent[x].d \in Nat /\ sent[x].frag_id \in Nat
  BY <1>5 DEF n, Packet
<1>9. \A x \in 1..Len(sent') :
        /\ sent'[x].d <= out'.d
        /\ (sent'[x].type # "WHOLE" /\ sent'[x].d = out'.d) => sent'[x].frag_id < out'.frag_id
  <2> SUFFICES ASSUME NEW x \in 1..Len(sent')
               PROVE  /\ sent'[x].d <= out'.d
                      /\ (sent'[x].type # "WHOLE" /\ sent'[x].d = out'.d) => sent'[x].frag_id < out'.frag_id
    OBVIOUS
  <2>1. CASE x \in 1..n
    <3>1. sent'[x] = sent[x]
      BY <1>4, <2>1
    <3> QED
      BY <1>3, <1>7, <1>8, <2>1, <3>1
  <2>2. CASE x = n + 1
    <3>1. sent'[x].d = o.d /\ sent'[x].frag_id = o.frag_id
      BY <1>2, <1>4, <2>2
    <3> QED
      BY <1>3, <1>7, <3>1
  <2> QED
    BY <1>6, <2>1, <2>2
<1>10. ASSUME NEW x \in 1..Len(sent'), NEW y \in 1..Len(sent'),
              sent'[x].type # "WHOLE", sent'[y].type # "WHOLE",
              sent'[x].d = sent'[y].d, sent'[x].frag_id = sent'[y].frag_id
       PROVE  x = y
  <2>1. CASE x \in 1..n /\ y \in 1..n
    BY <1>4, <1>10, <2>1 DEF SentOnce, n
  <2>2. CASE x \in 1..n /\ y = n + 1
    BY <1>2, <1>4, <1>7, <1>8, <1>10, <2>2
  <2>3. CASE x = n + 1 /\ y \in 1..n
    BY <1>2, <1>4, <1>7, <1>8, <1>10, <2>3
  <2> QED
    BY <1>6, <2>1, <2>2, <2>3
<1> QED
  BY <1>9, <1>10 DEF SentOnce

LEMMA SenderOnce ==
  ASSUME TypeInv, SentOnce, fragment_outgoing \/ check_fragment
  PROVE  SentOnce'
<1>1. /\ out \in [d : Nat, seq_id : Int, frag_id : Nat, left : Int, size : Int] /\ sent \in Seq(Packet)
      /\ out.d \in Nat /\ out.frag_id \in Nat /\ Len(sent) \in Nat
  BY DEF TypeInv
<1>2. \A x \in 1..Len(sent) : sent[x] \in Packet /\ sent[x].d \in Nat /\ sent[x].d <= out.d
  <2>1. \A x \in 1..Len(sent) : sent[x] \in Packet
    BY <1>1
  <2>2. \A x \in 1..Len(sent) : sent[x].d <= out.d
    BY DEF SentOnce
  <2> QED
    BY <2>1, <2>2 DEF Packet
<1>3. CASE check_fragment
  BY <1>1, <1>3, SendOnce DEF check_fragment, SentOnce
<1>4. CASE fragment_outgoing
  <2> DEFINE d == out.d + 1
             len == Lengths[d]
  <2>1. d \in Nat /\ \A x \in 1..Len(sent) : sent[x].d < d
    BY <1>1, <1>2
  <2>2. CASE ~Long(len)
    <3>1. sent' = Append(sent, whole(d)) /\ out' = [out EXCEPT !.d = d]
      BY <1>4, <2>2 DEF fragment_outgoing, encrypt_sign, TooLong
    <3>2. whole(d) \in Packet /\ whole(d).d = d /\ whole(d).type = "WHOLE"
      BY <2>1 DEF whole, Packet
    <3>3. out'.d = d
      BY <1>1, <3>1
    <3> HIDE DEF d
    <3>4. /\ Len(sent') = Len(sent) + 1 /\ sent'[Len(sent) + 1] = whole(d)
          /\ \A x \in 1..Len(sent) : sent'[x] = sent[x]
      BY <1>1, <3>1, <3>2
    <3>5. \A x \in 1..Len(sent') : x \in 1..Len(sent) \/ x = Len(sent) + 1
      BY <1>1, <3>4
    <3>6. \A x \in 1..Len(sent') : sent'[x].type # "WHOLE" => x \in 1..Len(sent) /\ sent'[x] = sent[x]
      BY <3>2, <3>4, <3>5
    <3>7. \A x \in 1..Len(sent') : sent'[x].d <= d
      BY <1>2, <2>1, <3>2, <3>4, <3>5
    <3>8. \A x \in 1..Len(sent') : sent'[x].type # "WHOLE" => sent'[x].d # d
      BY <1>2, <2>1, <3>6
    <3> QED
      BY <3>3, <3>6, <3>7, <3>8 DEF SentOnce
  <2>3. CASE TooLong(len)
    <3>1. sent' = sent /\ out' = [out EXCEPT !.d = d]
      BY <1>4, <2>3 DEF fragment_outgoing, TooLong
    <3>2. out'.d = d
      BY <1>1, <3>1
    <3> HIDE DEF d
    <3>3. \A x \in 1..Len(sent) : sent[x].d <= d /\ sent[x].d # d
      BY <1>2, <2>1
    <3> QED
      BY <3>1, <3>2, <3>3 DEF SentOnce
  <2>4. CASE Long(len) /\ ~TooLong(len)
    <3> DEFINE o == [d |-> d, seq_id |-> modulo_add(out.seq_id, 1, NSeqId), frag_id |-> 0,
                     left |-> len, size |-> optimal_fragment_size(len, Payload)]
    <3>1. Send(o)
      BY <1>4, <2>4 DEF fragment_outgoing
    <3>2. o \in [d : Nat, seq_id : Int, frag_id : Nat, left : Int, size : Int] /\ o.d = d
      <4>1. len \in Nat
        <5>1. out.d < Len(Lengths)
          BY <1>4 DEF fragment_outgoing
        <5>2. d \in 1..Len(Lengths)
          BY <1>1, <5>1, DataConstants
        <5> QED
          BY <5>2, LengthFacts
      <4>2. len > Payload /\ Payload \in Nat /\ Payload >= 4
        BY <2>4, DataConstants DEF Long
      <4> HIDE DEF d, len
      <4>3. optimal_fragment_size(len, Payload) \in Nat
        BY <4>1, <4>2, OptimalSize
      <4>4. modulo_add(out.seq_id, 1, NSeqId) \in Int
        BY <1>1, DataConstants DEF modulo_add
      <4> QED
        BY <2>1, <4>1, <4>3, <4>4
    <3>3. \A x \in 1..Len(sent) : sent[x].d <= o.d /\ sent[x].d # o.d
      BY <1>2, <2>1, <3>2
    <3> HIDE DEF o
    <3> QED
      BY <1>1, <3>1, <3>2, <3>3, SendOnce
  <2> QED
    BY <2>2, <2>3, <2>4
<1> QED
  BY <1>3, <1>4

\* A fragment arrives: its buffer collects it, and the buffers of the other
\* datagrams it does not disturb stay.
LEMMA FragmentArrives ==
  ASSUME DeliveryInv, NEW id \in 1..Len(sent), sent[id].type # "WHOLE",
         \A a \in accepted : a.id # id, sent' = sent,
         accepted' = accepted \cup {[id |-> id, at |-> now]},
         incoming' = fragment_incoming(sent[id]).list,
         delivered' = delivered \cup fragment_incoming(sent[id]).datagram,
         disturbed' = disturbed \cup Broken(sent[id].d, accepted')
  PROVE  /\ \A i \in 0..(NFragBuf - 1) : incoming'.fragments[i].map \subseteq 0..(MaxFrags - 1)
         /\ \A d \in UnderWay' \ (disturbed' \cup CameOut') :
              \E i \in 0..(NFragBuf - 1) :
                SeqIdAt(incoming', i) = SeqIdOf(d) /\ Collects(incoming.fragments[i], d)'
<1> DEFINE m == sent[id]
           s == m.seq_id
           b == fragment_list_get_buf(incoming, s)
           l == b.list
           e == l.fragments[b.at]
           f == Joined(e, m)
           g == IF Full(f) THEN NoFragment ELSE f
           I == 0..(NFragBuf - 1)
           r == fragment_incoming(m)
           Z == [id |-> id, at |-> now]
<1>1. /\ Proper(m) /\ SoundList(incoming, AcceptedPackets) /\ incoming \in List
      /\ now \in Nat /\ accepted \subseteq [id : Nat, at : Nat]
  BY DEF DeliveryInv, ReassemblyInv, SenderInv, SoundList, TypeInv
<1>2. m.d \in 1..Len(Lengths) /\ Fragmented(m.d) /\ s = SeqIdOf(m.d) /\ m.size = SizeOf(m.d)
  BY <1>1 DEF Proper
<1>3. s \in 0..(NSeqId - 1)
  <2> HIDE DEF m
  <2>0. Ord[m.d] \in Nat
    BY <1>2, PlaceType
  <2>1. Ord[m.d] - Ord[m.d] = 0 /\ 0 \in 0..(NFragBuf - 1)
    BY <2>0, DataConstants
  <2> QED
    BY <1>2, <2>1, LaterPlace
<1>4. SoundList(l, AcceptedPackets) /\ b.at \in I /\ SeqIdAt(l, b.at) = s
  BY <1>1, <1>3, GetBuf, Zenon
<1>5. \A i \in I : l.fragments[i] \in {NoFragment, incoming.fragments[i]}
  BY <1>1, <1>3, GetBufFragments, Zenon
<1>6. r = [list |-> [l EXCEPT !.fragments[b.at] = g], datagram |-> IF Full(f) THEN {f.pieces} ELSE {}]
  BY DEF fragment_incoming
<1>7. incoming' = r.list /\ delivered' = delivered \cup r.datagram /\ accepted' = accepted \cup {Z}
  OBVIOUS
<1>b. \A d \in 1..Len(Lengths), i \in I, k \in I :
        (SeqIdAt(incoming, i) = SeqIdOf(d) /\ Ord[m.d] - Ord[d] = k) =>
           /\ l.fragments[i] = incoming.fragments[i] /\ SeqIdAt(l, i) = SeqIdOf(d)
           /\ b.at = i <=> k = 0
  <2> SUFFICES ASSUME NEW d \in 1..Len(Lengths), NEW i \in I, NEW k \in I,
                      SeqIdAt(incoming, i) = SeqIdOf(d), Ord[m.d] - Ord[d] = k
               PROVE  /\ l.fragments[i] = incoming.fragments[i] /\ SeqIdAt(l, i) = SeqIdOf(d)
                      /\ b.at = i <=> k = 0
    BY Zenon
  <2>1. s = modulo_add(SeqIdOf(d), k, NSeqId)
    <3> HIDE DEF m
    <3> QED
      BY <1>2, LaterPlace
  <2>2. s = modulo_add(SeqIdAt(incoming, i), k, NSeqId)
    BY <2>1, Zenon
  <2> HIDE DEF m, s
  <2>3. /\ l.fragments[i] = incoming.fragments[i] /\ SeqIdAt(l, i) = SeqIdAt(incoming, i)
        /\ b.at = i <=> k = 0
    BY <1>1, <2>2, GetBufKeeps
  <2> HIDE DEF b
  <2> QED
    BY <2>3
<1> HIDE DEF b, r, s
<1>8. /\ l \in List /\ l.fragments \in [I -> Buffer]
      /\ \A i \in I : l.fragments[i].map \subseteq 0..(MaxFrags - 1)
  <2>1. NoFragment.map = {}
    BY DEF NoFragment
  <2>2. \A i \in I : incoming.fragments[i].map \subseteq 0..(MaxFrags - 1)
    BY DEF DeliveryInv
  <2> QED
    BY <1>4, <1>5, <2>1, <2>2 DEF SoundList, List
<1> HIDE DEF l
<1>9. e \in Buffer /\ e.map \subseteq 0..(MaxFrags - 1)
  BY <1>4, <1>8
<1> HIDE DEF e
<1>10. /\ f.size = m.size /\ f.timestamp = now /\ f.map \subseteq 0..(MaxFrags - 1)
       /\ m.frag_id \in f.map /\ (m.type = "LAST" => m.frag_id..(MaxFrags - 1) \subseteq f.map)
       /\ m.frag_id \in DOMAIN f.pieces /\ f.pieces[m.frag_id] = m.d
       /\ (e.defined /\ e.size = m.size) => e.map \subseteq f.map
  <2> HIDE DEF m
  <2> QED
    BY <1>1, <1>9, JoinedHas DEF m
<1>11. f.defined
  BY <1>9 DEF Joined, NoFragment, Buffer
<1> HIDE DEF f
<1>12. g.map \subseteq 0..(MaxFrags - 1)
  BY <1>10 DEF NoFragment
<1>13. /\ incoming'.index = l.index /\ incoming'.seq_id = l.seq_id
       /\ incoming'.fragments = [l.fragments EXCEPT ![b.at] = g]
  <2> HIDE DEF g
  <2> QED
    BY <1>4, <1>6, <1>7, <1>8 DEF List
<1>14. /\ \A i \in I : SeqIdAt(incoming', i) = SeqIdAt(l, i)
       /\ \A i \in I : i # b.at => incoming'.fragments[i] = l.fragments[i]
       /\ incoming'.fragments[b.at] = g
  <2> HIDE DEF g
  <2> QED
    BY <1>4, <1>8, <1>13 DEF SeqIdAt, Behind
<1>15. \A i \in I : incoming'.fragments[i].map \subseteq 0..(MaxFrags - 1)
  <2> HIDE DEF g
  <2> QED
    BY <1>8, <1>12, <1>14
<1>16. \A d : PacketsOf(d, accepted)' = {a \in accepted' : sent[a.id].d = d}
  BY DEF PacketsOf
<1>17. Z.id = id /\ Z.at = now
  OBVIOUS
<1> HIDE DEF Z
<1>18. ASSUME NEW d \in UnderWay' \ (disturbed' \cup CameOut')
       PROVE  \E i \in I : SeqIdAt(incoming', i) = SeqIdOf(d) /\ Collects(incoming.fragments[i], d)'
  <2>1. d \in 1..Len(Lengths) /\ Long(Lengths[d]) /\ PacketsOf(d, accepted)' # {} /\ d \notin disturbed
    BY <1>18 DEF UnderWay
  <2>2. d \notin CameOut
    BY <1>7, <1>18 DEF CameOut
  <2>3. PacketsOf(d, accepted) # {} =>
          \E i \in I : SeqIdAt(incoming, i) = SeqIdOf(d) /\ Collects(incoming.fragments[i], d)
    BY <2>1, <2>2 DEF DeliveryInv, UnderWay
  <2>4. CASE d # m.d
    <3>1. PacketsOf(d, accepted)' = PacketsOf(d, accepted)
      BY <1>7, <1>16, <1>17, <2>4 DEF PacketsOf
    <3>2. PICK i \in I : SeqIdAt(incoming, i) = SeqIdOf(d) /\ Collects(incoming.fragments[i], d)
      BY <2>1, <2>3, <3>1
    <3>3. d \in UnderWay
      BY <2>1, <3>1 DEF UnderWay
    <3>4. Cardinality(PacketsOf(d, accepted)) < Fragments[d]
      <4>1. incoming.fragments[i].map \subseteq 0..(MaxFrags - 1)
        BY DEF DeliveryInv
      <4> QED
        BY <3>2, <3>3, <4>1, SomethingMissing
    <3>5. PacketsOf(d, accepted') = PacketsOf(d, accepted)
      BY <3>1, <1>16 DEF PacketsOf
    <3>6. d \in InProgress(accepted')
      <4>1. PICK a \in PacketsOf(d, accepted') : TRUE
        BY <2>1, <3>1, <3>5
      <4>2. a \in accepted' /\ sent[a.id].d = d
        BY <4>1 DEF PacketsOf
      <4> QED
        BY <2>1, <3>4, <3>5, <4>2 DEF InProgress
    <3>7. Ord[m.d] - Ord[d] \in I
      BY <1>18, <3>6 DEF Broken
    <3>8. Fragmented(d)
      <4>1. PICK a \in PacketsOf(d, accepted) : TRUE
        BY <2>1, <3>1
      <4> QED
        BY <2>1, PacketsAre
    <3>9. Ord[m.d] - Ord[d] # 0
      <4> HIDE DEF m
      <4>1. d < m.d \/ m.d < d
        BY <1>2, <2>1, <2>4, LengthFacts
      <4>2. Ord[d] # Ord[m.d] /\ Ord[d] \in Nat /\ Ord[m.d] \in Nat
        <5>1. Ord[d] \in Nat /\ Ord[m.d] \in Nat
          BY <1>2, <2>1, PlaceType
        <5>2. Ord[d] < Ord[m.d] \/ Ord[m.d] < Ord[d]
          BY <1>2, <2>1, <3>8, <4>1, PlacesIncrease
        <5> QED
          BY <5>1, <5>2
      <4> QED
        BY <4>2
    <3>10. l.fragments[i] = incoming.fragments[i] /\ SeqIdAt(l, i) = SeqIdOf(d) /\ b.at # i
      <4> DEFINE k == Ord[m.d] - Ord[d]
      <4>1. k \in I /\ k # 0
        BY <3>7, <3>9
      <4>2. l.fragments[i] = incoming.fragments[i] /\ SeqIdAt(l, i) = SeqIdOf(d) /\ (b.at = i <=> k = 0)
        BY <1>b, <2>1, <3>2, <4>1
      <4> QED
        BY <4>1, <4>2
    <3>11. incoming'.fragments[i] = incoming.fragments[i] /\ SeqIdAt(incoming', i) = SeqIdOf(d)
      BY <1>14, <3>10
    <3>12. Collects(incoming.fragments[i], d)'
      BY <3>1, <3>2, <3>11 DEF Collects, Full
    <3> QED
      BY <3>11, <3>12
  <2>5. CASE d = m.d
    <3>1. ~Full(f)
      <4>1. ASSUME Full(f) PROVE FALSE
        <5>1. f.pieces \in delivered'
          BY <1>6, <1>7, <4>1
        <5>2. d \in CameOut'
          BY <1>10, <2>5, <5>1 DEF CameOut
        <5> QED
          BY <1>18, <5>2
      <4> QED
        BY <4>1
    <3>2. PICK j \in I : incoming'.fragments[j] = f /\ SeqIdAt(incoming', j) = SeqIdOf(d)
      BY <1>2, <1>4, <1>14, <2>5, <3>1
    <3>3. ASSUME NEW a \in PacketsOf(d, accepted)'
          PROVE  /\ a.at <= now /\ sent[a.id].frag_id \in f.map
                 /\ sent[a.id].type = "LAST" => sent[a.id].frag_id..(MaxFrags - 1) \subseteq f.map
      <4>1. CASE a = Z
        BY <1>1, <1>10, <1>17, <4>1
      <4>2. CASE a # Z
        <5>1. a \in PacketsOf(d, accepted)
          BY <1>7, <1>16, <3>3, <4>2 DEF PacketsOf
        <5>2. PICK i \in I : SeqIdAt(incoming, i) = SeqIdOf(d) /\ Collects(incoming.fragments[i], d)
          BY <2>3, <5>1
        <5>3. Ord[m.d] - Ord[d] = 0 /\ 0 \in I
          BY <1>2, <2>5, PlaceType, DataConstants
        <5>4. l.fragments[i] = incoming.fragments[i] /\ b.at = i
          BY <1>b, <2>1, <5>2, <5>3
        <5>5. e = incoming.fragments[i]
          BY <5>4 DEF e
        <5>6. /\ e.defined /\ e.size = m.size /\ sent[a.id].frag_id \in e.map
              /\ sent[a.id].type = "LAST" => sent[a.id].frag_id..(MaxFrags - 1) \subseteq e.map
          BY <1>2, <2>5, <5>1, <5>2, <5>5 DEF Collects
        <5>7. a.at <= now
          BY <5>1 DEF PacketsOf, DeliveryInv
        <5> QED
          BY <1>10, <5>6, <5>7
      <4> QED
        BY <4>1, <4>2
    <3>4. Collects(incoming.fragments[j], d)'
      <4>1. f.size = SizeOf(d)
        BY <1>2, <1>10, <2>5
      <4> QED
        BY <1>10, <1>11, <3>1, <3>2, <3>3, <4>1 DEF Collects, Full
    <3> QED
      BY <3>2, <3>4
  <2> QED
    BY <2>4, <2>5
<1> QED
  BY <1>15, <1>18

\* fragment_ttl_reap empties only buffers of datagrams it counts as disturbed.
LEMMA WakeupDisturbs ==
  ASSUME DeliveryInv, fragment_wakeup
  PROVE  /\ \A i \in 0..(NFragBuf - 1) : incoming'.fragments[i].map \subseteq 0..(MaxFrags - 1)
         /\ \A d \in UnderWay' \ (disturbed' \cup CameOut') :
              \E i \in 0..(NFragBuf - 1) :
                SeqIdAt(incoming', i) = SeqIdOf(d) /\ Collects(incoming.fragments[i], d)'
<1> DEFINE I == 0..(NFragBuf - 1)
           old(f) == f.defined /\ f.timestamp + FragTtl <= now
           F == [i \in I |-> IF old(incoming.fragments[i]) THEN NoFragment ELSE incoming.fragments[i]]
<1>1. /\ incoming' = [incoming EXCEPT !.fragments = F]
      /\ sent' = sent /\ accepted' = accepted /\ delivered' = delivered
      /\ disturbed' = disturbed \cup {d \in InProgress(accepted) :
                                        \A a \in PacketsOf(d, accepted) : a.at + FragTtl <= now}
  BY DEF fragment_wakeup
<1>2. /\ incoming \in List /\ incoming.fragments \in [I -> Buffer]
      /\ now \in Nat /\ accepted \subseteq [id : Nat, at : Nat] /\ FragTtl \in Nat
      /\ \A i \in I : incoming.fragments[i].map \subseteq 0..(MaxFrags - 1)
  BY DataConstants DEF DeliveryInv, ReassemblyInv, SoundList, List, TypeInv
<1>3. \A i \in I : F[i] = IF old(incoming.fragments[i]) THEN NoFragment ELSE incoming.fragments[i]
  OBVIOUS
<1> HIDE DEF F
<1>4. incoming'.fragments = F /\ incoming'.index = incoming.index /\ incoming'.seq_id = incoming.seq_id
  BY <1>1, <1>2 DEF List
<1>5. \A i \in I : SeqIdAt(incoming', i) = SeqIdAt(incoming, i)
  BY <1>4 DEF SeqIdAt, Behind
<1>6. \A i \in I : incoming'.fragments[i].map \subseteq 0..(MaxFrags - 1)
  <2>1. NoFragment.map = {}
    BY DEF NoFragment
  <2> HIDE DEF old
  <2> QED
    BY <1>2, <1>3, <1>4, <2>1
<1>7. ASSUME NEW d \in UnderWay' \ (disturbed' \cup CameOut')
      PROVE  \E i \in I : SeqIdAt(incoming', i) = SeqIdOf(d) /\ Collects(incoming.fragments[i], d)'
  <2>1. UnderWay' = UnderWay /\ CameOut' = CameOut
    BY <1>1 DEF UnderWay, CameOut, PacketsOf
  <2>2. d \in UnderWay /\ d \notin disturbed /\ d \notin CameOut
    BY <1>1, <1>7, <2>1
  <2>3. PICK i \in I : SeqIdAt(incoming, i) = SeqIdOf(d) /\ Collects(incoming.fragments[i], d)
    BY <2>2 DEF DeliveryInv
  <2>4. Long(Lengths[d]) /\ PacketsOf(d, accepted) # {}
    BY <2>2 DEF UnderWay
  <2>5. d \in InProgress(accepted)
    <3>1. Cardinality(PacketsOf(d, accepted)) < Fragments[d]
      BY <1>2, <2>2, <2>3, SomethingMissing
    <3>2. PICK a \in PacketsOf(d, accepted) : TRUE
      BY <2>4
    <3>3. a \in accepted /\ sent[a.id].d = d
      BY <3>2 DEF PacketsOf
    <3> QED
      BY <2>4, <3>1, <3>3 DEF InProgress
  <2>6. ~old(incoming.fragments[i])
    <3>1. PICK a \in PacketsOf(d, accepted) : ~(a.at + FragTtl <= now)
      BY <1>1, <1>7, <2>5
    <3>2. a.at <= incoming.fragments[i].timestamp /\ a.at \in Nat
      BY <1>2, <2>3, <3>1 DEF Collects, PacketsOf
    <3>3. incoming.fragments[i].timestamp \in Nat
      BY <1>2 DEF Buffer
    <3> QED
      BY <1>2, <3>1, <3>2, <3>3
  <2>7. incoming'.fragments[i] = incoming.fragments[i]
    BY <1>3, <1>4, <2>6
  <2>8. PacketsOf(d, accepted)' = PacketsOf(d, accepted)
    BY <1>1 DEF PacketsOf
  <2>9. Collects(incoming.fragments[i], d)'
    BY <1>1, <2>3, <2>7, <2>8 DEF Collects, Full
  <2> QED
    BY <1>5, <2>3, <2>9
<1> QED
  BY <1>6, <1>7

LEMMA DeliveryInitial == Init => DeliveryInv
<1> SUFFICES ASSUME Init PROVE DeliveryInv
  OBVIOUS
<1>1. ReassemblyInv
  BY ReassemblyInitial
<1>2. Len(sent) = 0 /\ accepted = {} /\ incoming = Emptied(0)
  BY DEF Init
<1>3. SentOnce
  BY <1>2 DEF SentOnce
<1>4. \A i \in 0..(NFragBuf - 1) : incoming.fragments[i].map = {}
  BY <1>2 DEF Emptied, NoFragment
<1>5. UnderWay = {}
  BY <1>2 DEF UnderWay, PacketsOf
<1> QED
  BY <1>1, <1>2, <1>3, <1>4, <1>5 DEF DeliveryInv

LEMMA DeliveryInductive ==
  ASSUME DeliveryInv, IInv', [Next]_vars
  PROVE  DeliveryInv'
<1> DEFINE I == 0..(NFragBuf - 1)
           Collected == \A d \in UnderWay \ (disturbed \cup CameOut) :
                          \E i \in I : SeqIdAt(incoming, i) = SeqIdOf(d) /\ Collects(incoming.fragments[i], d)
           Bounded == \A i \in I : incoming.fragments[i].map \subseteq 0..(MaxFrags - 1)
           Once == (\A a, b \in accepted : a.id = b.id => a = b) /\ \A a \in accepted : a.at <= now
<1>1. TypeInv' /\ repeated' = {}
  BY DEF IInv
<1>2. /\ ReassemblyInv /\ SentOnce /\ Once /\ Bounded /\ Collected
      /\ TypeInv /\ now \in Nat /\ accepted \subseteq [id : Nat, at : Nat] /\ Len(sent) \in Nat
      /\ \A a \in accepted : a.id \in 1..Len(sent)
  BY DEF DeliveryInv, ReassemblyInv, TypeInv
<1>3. ReassemblyInv'
  BY <1>1, <1>2, ReassemblyInductive
<1>4. SUFFICES SentOnce' /\ Once' /\ Bounded' /\ Collected'
  BY <1>3 DEF DeliveryInv
\* The steps that change neither the buffers nor what was accepted.
<1>5. ASSUME accepted' = accepted, incoming' = incoming, delivered' = delivered, disturbed' = disturbed,
             \A a \in accepted : sent'[a.id] = sent[a.id]
      PROVE  Bounded' /\ Collected'
  <2>1. \A d : PacketsOf(d, accepted)' = PacketsOf(d, accepted)
    BY <1>5 DEF PacketsOf
  <2>2. UnderWay' = UnderWay /\ CameOut' = CameOut
    BY <1>5, <2>1 DEF UnderWay, CameOut
  <2>3. \A d, i : Collects(incoming.fragments[i], d) => Collects(incoming.fragments[i], d)'
    <3> SUFFICES ASSUME NEW d, NEW i, Collects(incoming.fragments[i], d)
                 PROVE  Collects(incoming.fragments[i], d)'
      OBVIOUS
    <3>1. \A a \in PacketsOf(d, accepted) : sent'[a.id] = sent[a.id]
      BY <1>5 DEF PacketsOf
    <3> QED
      BY <1>5, <2>1, <3>1 DEF Collects, Full
  <2> QED
    BY <1>2, <1>5, <2>2, <2>3
<1>6. ASSUME fragment_outgoing \/ check_fragment
      PROVE  SentOnce' /\ Once' /\ Bounded' /\ Collected'
  <2>1. SentOnce' /\ Sent
    BY <1>2, <1>6, SenderOnce, SenderKeeps DEF ReassemblyInv
  <2>2. UNCHANGED <<incoming, now, accepted, delivered, disturbed>>
    BY <1>6 DEF fragment_outgoing, check_fragment, history
  <2>3. \A a \in accepted : sent'[a.id] = sent[a.id]
    BY <1>2, <2>1 DEF Sent
  <2>4. Once'
    BY <1>2, <2>2
  <2>5. Bounded' /\ Collected'
    <3> HIDE DEF Bounded, Collected
    <3> QED
      BY <1>5, <2>2, <2>3
  <2> QED
    BY <2>1, <2>4, <2>5
<1>7. ASSUME NEW id \in 1..Len(sent), process_incoming_link(id),
             packet_id_test(packet_id_reap_test(rec, now), id)
      PROVE  SentOnce' /\ Once' /\ Bounded' /\ Collected'
  <2> DEFINE m == sent[id]
             r == fragment_incoming(m)
             Z == [id |-> id, at |-> now]
  <2>1. /\ out' = out /\ sent' = sent /\ now' = now /\ accepted' = accepted \cup {Z}
        /\ incoming' = r.list /\ delivered' = delivered \cup r.datagram
        /\ repeated' = repeated \cup {a.id : a \in {b \in accepted : b.id = id}}
        /\ disturbed' = IF m.type = "WHOLE" THEN disturbed ELSE disturbed \cup Broken(m.d, accepted')
    BY <1>7 DEF process_incoming_link
  <2>2. \A a \in accepted : a.id # id
    BY <1>1, <2>1
  <2>3. SentOnce'
    BY <1>2, <2>1 DEF SentOnce
  <2>4. Z.id = id /\ Z.at = now
    OBVIOUS
  <2> HIDE DEF r, Z
  <2>5. Once'
    BY <1>2, <2>1, <2>2, <2>4
  <2>6. CASE m.type = "WHOLE"
    <3>1. Proper(m)
      BY <1>2 DEF ReassemblyInv, SenderInv
    <3>2. ~Long(Lengths[m.d])
      BY <2>6, <3>1 DEF Proper
    <3>3. incoming' = incoming /\ disturbed' = disturbed
      BY <2>1, <2>6 DEF r, fragment_incoming
    <3>4. \A d : Long(Lengths[d]) => PacketsOf(d, accepted)' = PacketsOf(d, accepted)
      BY <2>1, <2>4, <3>2 DEF PacketsOf
    <3>5. Bounded'
      BY <1>2, <3>3
    <3>6. ASSUME NEW d \in UnderWay' \ (disturbed' \cup CameOut')
          PROVE  \E i \in I : SeqIdAt(incoming', i) = SeqIdOf(d) /\ Collects(incoming.fragments[i], d)'
      <4>1. Long(Lengths[d]) /\ d \in UnderWay
        BY <3>4, <3>6 DEF UnderWay
      <4>2. d \notin disturbed /\ d \notin CameOut
        BY <2>1, <3>3, <3>6 DEF CameOut
      <4>3. PICK i \in I : SeqIdAt(incoming, i) = SeqIdOf(d) /\ Collects(incoming.fragments[i], d)
        BY <1>2, <4>1, <4>2
      <4>4. Collects(incoming.fragments[i], d)'
        BY <2>1, <3>3, <3>4, <4>1, <4>3 DEF Collects, Full
      <4> QED
        BY <3>3, <4>3, <4>4
    <3> QED
      BY <2>3, <2>5, <3>5, <3>6
  <2>7. CASE m.type # "WHOLE"
    <3>1. /\ accepted' = accepted \cup {[id |-> id, at |-> now]}
          /\ incoming' = fragment_incoming(sent[id]).list
          /\ delivered' = delivered \cup fragment_incoming(sent[id]).datagram
          /\ disturbed' = disturbed \cup Broken(sent[id].d, accepted')
      BY <2>1, <2>7 DEF Z, r
    <3>2. Bounded' /\ Collected'
      BY <2>1, <2>2, <2>7, <3>1, FragmentArrives
    <3> QED
      BY <2>3, <2>5, <3>2
  <2> QED
    BY <2>6, <2>7
<1>8. ASSUME NEW id \in 1..Len(sent), process_incoming_link(id),
             ~packet_id_test(packet_id_reap_test(rec, now), id)
      PROVE  SentOnce' /\ Once' /\ Bounded' /\ Collected'
  <2>1. UNCHANGED <<out, sent, incoming, now, accepted, delivered, disturbed>>
    BY <1>8 DEF process_incoming_link, history
  <2>2. SentOnce' /\ Once'
    BY <1>2, <2>1 DEF SentOnce
  <2>3. Bounded' /\ Collected'
    <3> HIDE DEF Bounded, Collected
    <3> QED
      BY <1>5, <2>1
  <2> QED
    BY <2>2, <2>3
<1>9. CASE fragment_wakeup
  <2>1. UNCHANGED <<out, sent, now, accepted>>
    BY <1>9 DEF fragment_wakeup
  <2>2. SentOnce' /\ Once'
    BY <1>2, <2>1 DEF SentOnce
  <2>3. Bounded' /\ Collected'
    BY <1>9, WakeupDisturbs
  <2> QED
    BY <2>2, <2>3
<1>10. CASE Tick \/ UNCHANGED vars
  <2>1. /\ UNCHANGED <<out, sent, incoming, accepted, delivered, disturbed>>
        /\ now' = now \/ now' = now + 1
    BY <1>10 DEF Tick, vars, history
  <2>2. SentOnce' /\ Once'
    BY <1>2, <2>1 DEF SentOnce
  <2>3. Bounded' /\ Collected'
    <3> HIDE DEF Bounded, Collected
    <3> QED
      BY <1>5, <2>1
  <2> QED
    BY <2>2, <2>3
<1> HIDE DEF Once, Bounded, Collected
<1> QED
  BY <1>6, <1>7, <1>8, <1>9, <1>10 DEF Next

\* No fragmented datagram gets lost inside the receiver: when all its fragments
\* were accepted, in whatever order and with whatever else in between, a piece
\* of it has come out, unless the window moved away over it, an older datagram
\* made the window start anew or the reassembly timed out.
THEOREM Reassembled == Spec => []ReassembledUnlessDisturbed
<1>1. DeliveryInv /\ IInv' /\ [Next]_vars => DeliveryInv'
  BY DeliveryInductive
<1> QED
  BY <1>1, DeliveryInitial, NothingLost, IInvHolds, PTL DEF Spec

\* Datagram d came out complete, if all its fragments were accepted, nothing
\* disturbed it and no fragment of a datagram with its sequence id came in.
Intact(d) ==
  (/\ Long(Lengths[d]) /\ Cardinality(PacketsOf(d, accepted)) = Fragments[d]
   /\ d \notin disturbed /\ \A a \in accepted : sent[a.id].d = d \/ ~Alike(d, sent[a.id].d))
  => \E v \in delivered : Complete(v, d)

\* What the fragmenting layer promises the tunnel, both sides of it together: a
\* datagram whose fragments all passed the replay check leaves the tun device
\* whole, however the packets were repeated, delayed and reordered.
THEOREM WholeOut == Spec => [](\A d \in 1..Len(Lengths) : Intact(d))
<1>1. ASSUME OneDatagram, ReassembledUnlessDisturbed, NEW d \in 1..Len(Lengths) PROVE Intact(d)
  <2> SUFFICES ASSUME Long(Lengths[d]), Cardinality(PacketsOf(d, accepted)) = Fragments[d],
                      d \notin disturbed, \A a \in accepted : sent[a.id].d = d \/ ~Alike(d, sent[a.id].d)
               PROVE  \E v \in delivered : Complete(v, d)
    BY DEF Intact
  <2>1. PICK v \in delivered : \E i \in DOMAIN v : v[i] = d
    BY <1>1 DEF ReassembledUnlessDisturbed
  <2>2. PICK i \in DOMAIN v : v[i] = d
    BY <2>1
  <2>3. Complete(v, d) \/ \E a \in accepted : sent[a.id].d # d /\ Alike(d, sent[a.id].d)
    BY <1>1, <2>2 DEF OneDatagram
  <2> QED
    BY <2>3
<1>2. OneDatagram /\ ReassembledUnlessDisturbed => \A d \in 1..Len(Lengths) : Intact(d)
  BY <1>1
<1> QED
  BY <1>2, Reassembly, Reassembled, PTL
-----------------------------------------------------------------------------
(***************************************************************************)
(* The control channel.                                                    *)
(***************************************************************************)

\* Packet ids p's side has received, and those it has not given up yet.
Received(k) == 0..(k.recPid - 1) \cup {e.pid : e \in k.held}
Unacked(k) == {e.pid : e \in k.send}

Entry == [pid : Nat, op : {"RESET", "CONTROL"}, data : Nat, due : BOOLEAN]
Held == [pid : Nat, data : Nat]
Message == [op : {"RESET", "CONTROL", "ACK"}, pid : Nat, data : Nat, acks : Seq(Nat)]
KeyState ==
  [state : {S_ERROR} \cup (S_INITIAL..S_NORMAL_OP), pid : Nat, send : SUBSET Entry,
   recPid : Nat, held : SUBSET Held, ack : Seq(Nat), in : Seq(Nat), out : Seq(Nat),
   keyWritten : BOOLEAN, linked : BOOLEAN, woken : BOOLEAN]

\* The records are numbered, so a stream is known by its length.
Counting(s) == \A i \in 1..Len(s) : s[i] = i

\* Sending: packet i carries record i (0 is the reset), there is one entry for
\* a packet, and no packet is SendSize or more ahead of one that is kept.
Sending(p, k) ==
  /\ Counting(k.out) /\ Len(k.out) <= AllRecords(p)
  /\ k.state = S_INITIAL => k.pid = 0 /\ Len(k.out) = 0
  /\ k.state # S_INITIAL => k.pid = Len(k.out) + 1
  /\ \A e \in k.send : e.pid < k.pid /\ e.data = e.pid /\ k.pid <= e.pid + SendSize
  /\ \A e, f \in k.send : e.pid = f.pid => e = f

\* Receiving: everything before recPid went into the TLS object, what is held
\* comes after, and only what was received is acknowledged.
Receiving(p, k) ==
  /\ Counting(k.in) /\ Len(k.in) = (IF k.recPid = 0 THEN 0 ELSE k.recPid - 1)
  /\ \A e \in k.held : e.pid >= k.recPid /\ e.data = e.pid
  /\ \A i \in 1..Len(k.ack) : k.ack[i] \in Received(k)
  /\ \A x \in Received(k) : x <= AllRecords(Other(p))

\* Keys: who has the other's key, and what the server's last record tells.
Keyed(p, k) ==
  /\ k.state >= (IF server(p) THEN S_SENT_KEY ELSE S_GOT_KEY) => Len(k.in) = AllRecords(Other(p))
  /\ (server(p) /\ Len(k.out) = AllRecords(p)) => Len(k.in) = AllRecords(Other(p))

Local(p, k) == k \in KeyState /\ Sending(p, k) /\ Receiving(p, k) /\ Keyed(p, k)

\* k sends to l: what l received was sent, and what k gave up l received.
Matching(k, l) ==
  /\ \A x \in Received(l) : x < k.pid
  /\ \A x \in 0..(k.pid - 1) : x \in Unacked(k) \cup Received(l)

\* A packet that the peer with state k put on the network.
Genuine(m, k) ==
  /\ m \in Message
  /\ m.op # "ACK" => m.pid < k.pid /\ m.data = m.pid
  /\ \A i \in 1..Len(m.acks) : m.acks[i] \in Received(k)

ControlTypes ==
  /\ ks \in [Peers -> KeyState]
  /\ net \in [Peers -> Seq(Message)]
  /\ call = NoCall \/ call \in [peer : Peers, busy : BOOLEAN]

\* The inductive invariant.
ControlInv ==
  /\ ControlTypes
  /\ \A p \in Peers : Local(p, ks[p])
  /\ \A p \in Peers : Matching(ks[p], ks[Other(p)])
  /\ \A p \in Peers : \A i \in 1..Len(net[p]) : Genuine(net[p][i], ks[Other(p)])


\* Every set of naturals has a least element.
LEMMA LeastNat ==
  ASSUME NEW S, S \subseteq Nat, S # {}
  PROVE  \E n \in S : \A m \in S : n <= m
<1> DEFINE R == OpToRel(<, Nat)
<1>1. IsWellFoundedOn(R, Nat)
  BY NatLessThanWellFounded
<1>2. PICK n \in S : \A m \in S : <<m, n>> \notin R
  <2> HIDE DEF R
  <2> QED
    BY <1>1, WFMin
<1>3. \A m \in S : ~(m < n)
  BY <1>2 DEF OpToRel
<1> QED
  BY <1>3

LEMMA PeerFacts ==
  /\ Peers = {"client", "server"}
  /\ \A p \in Peers : Other(p) \in Peers /\ Other(p) # p /\ Other(Other(p)) = p
BY DEF Peers, Other

\* The packet ids of a negotiation: none comes near the wrap-around.
LEMMA Limits ==
  ASSUME NEW p \in Peers
  PROVE  /\ AllRecords(p) \in Nat \ {0}
         /\ PidMod \in Nat /\ Half \in Nat /\ PidMod = 2 * Half
         /\ AllRecords(p) + SendSize + RecSize + 1 <= Half
         /\ SendSize \in Nat \ {0} /\ RecSize \in Nat /\ SendSize <= RecSize
<1>1. PidMod \in Nat /\ Half \in Nat /\ PidMod = 2 * Half
  BY ControlConstants DEF Half
<1>2. \A i \in 1..Len(FlightEnd) :
        FlightEnd[i] \in Nat \ {0} /\ FlightEnd[i] + SendSize + RecSize + 1 <= Half
  <2> SUFFICES ASSUME NEW i \in 1..Len(FlightEnd)
               PROVE  FlightEnd[i] \in Nat \ {0} /\ FlightEnd[i] + SendSize + RecSize + 1 <= Half
    OBVIOUS
  <2>1. FlightEnd[i] \in Nat \ {0}
    BY ControlConstants
  <2>2. 2 * (FlightEnd[i] + SendSize + RecSize + 1) <= 2 * Half
    BY <1>1, PidsDoNotWrap
  <2> QED
    BY <1>1, <2>1, <2>2, ControlConstants
<1>3. Len(FlightEnd) - 1 \in 1..Len(FlightEnd) /\ Len(FlightEnd) \in 1..Len(FlightEnd)
  BY ControlConstants
<1> QED
  BY <1>1, <1>2, <1>3, ControlConstants DEF AllRecords

LEMMA LimitsOther ==
  ASSUME NEW p \in Peers
  PROVE  /\ Other(p) \in Peers /\ AllRecords(Other(p)) \in Nat \ {0}
         /\ PidMod \in Nat /\ Half \in Nat /\ PidMod = 2 * Half
         /\ AllRecords(Other(p)) + SendSize + RecSize + 1 <= Half
         /\ SendSize \in Nat \ {0} /\ RecSize \in Nat
<1>1. Other(p) \in Peers
  BY PeerFacts
<1> QED
  BY <1>1, Limits

\* Far from the wrap-around the comparisons of ids are those of numbers.
LEMMA UintSmall ==
  ASSUME NEW n \in Nat, PidMod \in Nat, n < PidMod
  PROVE  Uint(n) = n
BY DEF Uint

LEMMA PidMin ==
  ASSUME NEW a \in Nat, NEW b \in Nat, Half \in Nat, PidMod = 2 * Half, a < Half, b < Half
  PROVE  reliable_pid_min(a, b) <=> a < b
<1>1. CASE a >= b
  BY <1>1 DEF reliable_pid_min, reliable_pid_in_range1
<1>2. CASE a < b
  <2>1. Uint(a + Half) = a + Half /\ Uint(b + Half) = b + Half
    BY UintSmall
  <2>2. (a + Half) - (b + Half) = a - b
    OBVIOUS
  <2>3. Uint(a - b) = a - b + PidMod
    BY <1>2 DEF Uint
  <2>4. a - b + PidMod >= Half
    BY <1>2
  <2> QED
    BY <1>2, <2>1, <2>2, <2>3, <2>4 DEF reliable_pid_min, reliable_pid_in_range1
<1> QED
  BY <1>1, <1>2

LEMMA PidInWindow ==
  ASSUME NEW a \in Nat, NEW b \in Nat, NEW n \in Nat, PidMod \in Nat, b + n < PidMod
  PROVE  reliable_pid_in_range2(a, b, n) <=> a < b + n
BY UintSmall DEF reliable_pid_in_range2

\* Min_id finds the entry with the lowest id.
LEMMA MinId ==
  ASSUME NEW p \in Peers, NEW S, S # {}, \A e \in S : e.pid \in Nat /\ e.pid < Half,
         \A e, f \in S : e.pid = f.pid => e = f
  PROVE  Min_id(S) \in S /\ \A f \in S : Min_id(S).pid <= f.pid
<1> DEFINE P == {e.pid : e \in S}
           M(e) == \A f \in S \ {e} : reliable_pid_min(e.pid, f.pid)
<1>1. PICK n \in P : \A m \in P : n <= m
  <2>1. P \subseteq Nat /\ P # {}
    OBVIOUS
  <2> QED
    BY <2>1, LeastNat
<1>2. PICK e \in S : e.pid = n
  BY <1>1
<1>3. \A f, g \in S : reliable_pid_min(f.pid, g.pid) <=> f.pid < g.pid
  BY Limits, PidMin
<1>4. M(e)
  BY <1>1, <1>2, <1>3
<1>5. Min_id(S) \in S /\ M(Min_id(S))
  BY <1>4 DEF Min_id
<1>6. \A f \in S \ {Min_id(S)} : Min_id(S).pid < f.pid
  BY <1>3, <1>5
<1> QED
  BY <1>5, <1>6

\* What the parts of a turn do to the state k of a peer: it may send more and
\* take more in; what it received, and what is not acknowledged, stays.
Grows(k, l) ==
  /\ k.pid <= l.pid
  /\ Received(l) = Received(k)
  /\ Unacked(k) \subseteq Unacked(l)
  /\ \A x \in k.pid..(l.pid - 1) : x \in Unacked(l)
  /\ Len(k.out) <= Len(l.out) /\ Len(k.in) <= Len(l.in)

LEMMA GrowsTransitive ==
  ASSUME NEW k \in KeyState, NEW l \in KeyState, NEW m \in KeyState, Grows(k, l), Grows(l, m)
  PROVE  Grows(k, m)
<1>1. k.pid \in Nat /\ l.pid \in Nat /\ m.pid \in Nat
  BY DEF KeyState
<1>2. /\ Len(k.in) \in Nat /\ Len(l.in) \in Nat /\ Len(m.in) \in Nat
      /\ Len(k.out) \in Nat /\ Len(l.out) \in Nat /\ Len(m.out) \in Nat
  BY DEF KeyState
<1>3. \A x \in k.pid..(m.pid - 1) : x \in k.pid..(l.pid - 1) \/ x \in l.pid..(m.pid - 1)
  BY <1>1
<1>4. \A x \in k.pid..(m.pid - 1) : x \in Unacked(m)
  BY <1>3 DEF Grows
<1>5. k.pid <= m.pid /\ Len(k.out) <= Len(m.out) /\ Len(k.in) <= Len(m.in)
  BY <1>1, <1>2 DEF Grows
<1>6. Received(m) = Received(k) /\ Unacked(k) \subseteq Unacked(m)
  BY DEF Grows
<1> QED
  BY <1>4, <1>5, <1>6 DEF Grows

\* A change of the state and of flags alone.
LEMMA StateOnly ==
  ASSUME NEW p \in Peers, NEW k, Local(p, k), NEW l \in KeyState,
         k.state = S_INITIAL <=> l.state = S_INITIAL,
         l.state >= (IF server(p) THEN S_SENT_KEY ELSE S_GOT_KEY) => Len(k.in) = AllRecords(Other(p)),
         l.pid = k.pid, l.send = k.send, l.recPid = k.recPid, l.held = k.held,
         l.ack = k.ack, l.in = k.in, l.out = k.out
  PROVE  Local(p, l) /\ Grows(k, l)
<1>1. k \in KeyState /\ Sending(p, k) /\ Receiving(p, k) /\ Keyed(p, k)
  BY DEF Local
<1>3. Received(l) = Received(k) /\ Unacked(l) = Unacked(k)
  BY DEF Received, Unacked
<1>4. k.pid \in Nat /\ Len(k.out) \in Nat /\ Len(k.in) \in Nat
  BY <1>1 DEF KeyState
<1>5. Grows(k, l)
  BY <1>3, <1>4 DEF Grows
<1>6. Sending(p, l)
  BY <1>1 DEF Sending
<1>7. Receiving(p, l)
  BY <1>1, <1>3 DEF Receiving
<1>8. Keyed(p, l)
  BY <1>1 DEF Keyed
<1> QED
  BY <1>5, <1>6, <1>7, <1>8 DEF Local

\* A new packet: its id is the next one, and it fits into the window.
LEMMA MarkActive ==
  ASSUME NEW p \in Peers, NEW k, Local(p, k), reliable_get_buf_output_sequenced(k),
         k.pid <= AllRecords(p), NEW op \in {"RESET", "CONTROL"}
  PROVE  LET l == reliable_mark_active_outgoing(k, op, k.pid)
         IN /\ l \in KeyState /\ l.pid = k.pid + 1
            /\ l.recPid = k.recPid /\ l.held = k.held /\ l.ack = k.ack
            /\ l.in = k.in /\ l.out = k.out /\ l.state = k.state
            /\ l.send \in SUBSET Entry /\ Unacked(l) = Unacked(k) \cup {k.pid}
            /\ \A e \in l.send : e.pid < l.pid /\ e.data = e.pid /\ l.pid <= e.pid + SendSize
            /\ \A e, f \in l.send : e.pid = f.pid => e = f
<1> DEFINE n == [pid |-> k.pid, op |-> op, data |-> k.pid, due |-> TRUE]
           l == reliable_mark_active_outgoing(k, op, k.pid)
<1>1. k \in KeyState /\ Sending(p, k)
  BY DEF Local
<1>2. k.pid \in Nat /\ k.send \in SUBSET Entry
  BY <1>1 DEF KeyState
<1>3. Uint(k.pid + 1) = k.pid + 1
  BY <1>2, Limits, UintSmall
<1>5. n \in Entry /\ n.pid = k.pid /\ n.data = k.pid
  BY <1>2 DEF Entry
<1>4. /\ l \in KeyState /\ l.pid = k.pid + 1 /\ l.send = k.send \cup {n}
      /\ l.recPid = k.recPid /\ l.held = k.held /\ l.ack = k.ack
      /\ l.in = k.in /\ l.out = k.out /\ l.state = k.state
  <2>1. l = [k EXCEPT !.pid = k.pid + 1, !.send = k.send \cup {n}]
    BY <1>1, <1>3 DEF reliable_mark_active_outgoing, KeyState
  <2> HIDE DEF l, n
  <2>2. k.send \cup {n} \in SUBSET Entry /\ k.pid + 1 \in Nat
    BY <1>2, <1>5
  <2>3. l \in KeyState
    BY <1>1, <2>1, <2>2 DEF KeyState
  <2> QED
    BY <1>1, <2>1, <2>3 DEF KeyState
<1>6. \A e \in k.send : e.pid \in Nat /\ e.pid < k.pid /\ e.data = e.pid
  BY <1>1, <1>2 DEF Sending, Entry
<1>7. ASSUME NEW e \in k.send PROVE k.pid < e.pid + SendSize
  <2> DEFINE f == Min_id(k.send)
  <2>1. \A g \in k.send : g.pid \in Nat /\ g.pid < Half
    BY <1>2, <1>6, Limits
  <2>2. f \in k.send /\ f.pid <= e.pid
    BY <1>1, <2>1, MinId DEF Sending
  <2>3. reliable_pid_in_range1(k.pid, f.pid, SendSize)
    BY <1>7 DEF reliable_get_buf_output_sequenced
  <2>4. k.pid - f.pid < SendSize
    BY <1>2, <1>6, <2>2, <2>3 DEF reliable_pid_in_range1
  <2> QED
    BY <1>2, <1>6, <2>2, <2>4, Limits
<1> HIDE DEF l, n
<1>8. \A e \in l.send : e.pid < l.pid /\ e.data = e.pid /\ l.pid <= e.pid + SendSize
  <2>1. \A e \in k.send : e.pid < l.pid /\ l.pid <= e.pid + SendSize
    BY <1>2, <1>4, <1>6, <1>7, Limits
  <2>2. n.pid < l.pid /\ n.data = n.pid /\ l.pid <= n.pid + SendSize
    BY <1>2, <1>4, <1>5, Limits
  <2> QED
    BY <1>4, <1>6, <2>1, <2>2
<1>9. \A e, f \in l.send : e.pid = f.pid => e = f
  <2>1. \A e \in k.send : e.pid # n.pid
    BY <1>2, <1>5, <1>6
  <2> QED
    BY <1>1, <1>4, <2>1 DEF Sending
<1>10. Unacked(l) = Unacked(k) \cup {k.pid}
  BY <1>4, <1>5 DEF Unacked
<1>11. l.send \in SUBSET Entry
  BY <1>2, <1>4, <1>5
<1> QED
  BY <1>4, <1>8, <1>9, <1>10, <1>11 DEF l

\* The reset packet is packet 0; there is always a buffer for it.
LEMMA StartKeeps ==
  ASSUME NEW p \in Peers, NEW k, Local(p, k)
  PROVE  Local(p, Start(k)) /\ Grows(k, Start(k)) /\ Start(k).state # S_INITIAL
<1>1. k \in KeyState /\ Sending(p, k) /\ Receiving(p, k) /\ Keyed(p, k)
  BY DEF Local
<1>g. k.pid \in Nat /\ Len(k.out) \in Nat /\ Len(k.in) \in Nat
  BY <1>1 DEF KeyState
<1>2. CASE k.state # S_INITIAL
  <2>1. Grows(k, k)
    BY <1>g DEF Grows
  <2> QED
    BY <1>2, <2>1 DEF Start
<1>3. CASE k.state = S_INITIAL
  <2> DEFINE r == reliable_mark_active_outgoing(k, "RESET", 0)
             l == [r EXCEPT !.state = S_PRE_START]
  <2>1. k.pid = 0 /\ Len(k.out) = 0
    BY <1>1, <1>3 DEF Sending
  <2>2. k.send = {}
    <3>1. \A e \in k.send : e.pid \in Nat
      BY <1>1 DEF KeyState, Entry
    <3> QED
      BY <1>1, <2>1, <3>1 DEF Sending
  <2>3. reliable_get_buf_output_sequenced(k)
    BY <2>2, FS_EmptySet, Limits DEF reliable_get_buf_output_sequenced
  <2>4. Start(k) = l
    BY <1>3, <2>3 DEF Start
  <2>5. /\ r \in KeyState /\ r.pid = k.pid + 1
        /\ r.recPid = k.recPid /\ r.held = k.held /\ r.ack = k.ack
        /\ r.in = k.in /\ r.out = k.out
        /\ r.send \in SUBSET Entry /\ Unacked(r) = Unacked(k) \cup {k.pid}
        /\ \A e \in r.send : e.pid < r.pid /\ e.data = e.pid /\ r.pid <= e.pid + SendSize
        /\ \A e, f \in r.send : e.pid = f.pid => e = f
    <3>1. k.pid <= AllRecords(p)
      BY <2>1, Limits
    <3>2. r = reliable_mark_active_outgoing(k, "RESET", k.pid)
      BY <2>1
    <3> HIDE DEF r
    <3> QED
      BY <2>3, <3>1, <3>2, MarkActive
  <2> HIDE DEF r
  <2>6. /\ l.state = S_PRE_START /\ l.pid = r.pid /\ l.send = r.send
        /\ l.recPid = k.recPid /\ l.held = k.held
        /\ l.ack = k.ack /\ l.in = k.in /\ l.out = k.out
    BY <2>5 DEF KeyState
  <2>7. l \in KeyState
    <3>1. S_PRE_START \in {S_ERROR} \cup (S_INITIAL..S_NORMAL_OP)
      BY DEF S_ERROR, S_PRE_START, S_NORMAL_OP, S_INITIAL
    <3> QED
      BY <2>5, <3>1 DEF KeyState
  <2> HIDE DEF l
  <2>8. Received(l) = Received(k) /\ Unacked(l) = Unacked(k) \cup {0}
    BY <2>1, <2>5, <2>6 DEF Received, Unacked
  <2>9. Grows(k, l)
    BY <1>g, <2>1, <2>5, <2>6, <2>8 DEF Grows
  <2>10. Sending(p, l)
    BY <1>1, <2>1, <2>5, <2>6 DEF Sending, S_INITIAL, S_PRE_START
  <2>11. Receiving(p, l)
    BY <1>1, <2>6, <2>8 DEF Receiving
  <2>12. Keyed(p, l)
    BY <1>1, <2>6 DEF Keyed, S_PRE_START, S_SENT_KEY, S_GOT_KEY
  <2> QED
    BY <2>4, <2>6, <2>7, <2>9, <2>10, <2>11, <2>12 DEF Local, S_INITIAL, S_PRE_START
<1> QED
  BY <1>2, <1>3

LEMMA GrowsReflexive ==
  ASSUME NEW k \in KeyState PROVE Grows(k, k)
<1>1. k.pid \in Nat /\ Len(k.out) \in Nat /\ Len(k.in) \in Nat
  BY DEF KeyState
<1> QED
  BY <1>1 DEF Grows

\* The state is all that changes when it is set to itself or to another one.
LEMMA StateSet ==
  ASSUME NEW p \in Peers, NEW k, Local(p, k), k.state # S_INITIAL,
         NEW s \in {S_ERROR} \cup (S_PRE_START..S_NORMAL_OP),
         s >= (IF server(p) THEN S_SENT_KEY ELSE S_GOT_KEY) => Len(k.in) = AllRecords(Other(p))
  PROVE  LET l == [k EXCEPT !.state = s]
         IN l.state = s /\ Local(p, l) /\ Grows(k, l)
<1> DEFINE l == [k EXCEPT !.state = s]
<1>1. k \in KeyState
  BY DEF Local
<1>2. s \in {S_ERROR} \cup (S_INITIAL..S_NORMAL_OP) /\ s # S_INITIAL
  BY DEF S_ERROR, S_PRE_START, S_NORMAL_OP, S_INITIAL
<1>3. /\ l \in KeyState /\ l.state = s /\ l.pid = k.pid /\ l.send = k.send /\ l.recPid = k.recPid
      /\ l.held = k.held /\ l.ack = k.ack /\ l.in = k.in /\ l.out = k.out
  BY <1>1, <1>2 DEF KeyState
<1> HIDE DEF l
<1>4. Local(p, l) /\ Grows(k, l)
  BY <1>2, <1>3, StateOnly
<1> QED
  BY <1>3, <1>4 DEF l

LEMMA WindowKeeps ==
  ASSUME NEW p \in Peers, NEW k, Local(p, k), k.state # S_INITIAL
  PROVE  LET l == HandshakeWindow(p, k) IN Local(p, l) /\ Grows(k, l) /\ l.state # S_INITIAL
<1> DEFINE s == IF k.state < S_ACTIVE THEN S_ERROR ELSE S_NORMAL_OP
<1>1. CASE p \notin expired
  BY <1>1, GrowsReflexive DEF HandshakeWindow, Local
<1>2. CASE p \in expired
  <2>1. HandshakeWindow(p, k) = [k EXCEPT !.state = s]
    BY <1>2 DEF HandshakeWindow
  <2>2. s \in {S_ERROR} \cup (S_PRE_START..S_NORMAL_OP) /\ s # S_INITIAL
    BY DEF S_ERROR, S_PRE_START, S_NORMAL_OP, S_INITIAL
  <2>3. k.state \in Int /\ Keyed(p, k)
    BY DEF Local, KeyState, S_ERROR, S_INITIAL, S_NORMAL_OP
  <2>4. s >= (IF server(p) THEN S_SENT_KEY ELSE S_GOT_KEY) => Len(k.in) = AllRecords(Other(p))
    <3>1. CASE k.state < S_ACTIVE
      BY <3>1 DEF S_SENT_KEY, S_GOT_KEY, S_ERROR
    <3>2. CASE ~(k.state < S_ACTIVE)
      <4>1. k.state >= S_SENT_KEY /\ k.state >= S_GOT_KEY
        BY <2>3, <3>2 DEF S_ACTIVE, S_SENT_KEY, S_GOT_KEY
      <4> QED
        BY <2>3, <4>1 DEF Keyed
    <3> QED
      BY <3>1, <3>2
  <2> HIDE DEF s
  <2> QED
    BY <2>1, <2>2, <2>4, StateSet
<1> QED
  BY <1>1, <1>2

LEMMA SyncedKeeps ==
  ASSUME NEW p \in Peers, NEW k, Local(p, k), k.state # S_INITIAL
  PROVE  LET l == Synced(p, k) IN Local(p, l) /\ Grows(k, l) /\ l.state # S_INITIAL
<1> DEFINE s == CASE k.state = S_PRE_START -> S_START
                  [] k.state = (IF server(p) THEN S_SENT_KEY ELSE S_GOT_KEY) -> S_ACTIVE
                  [] OTHER -> k.state
<1>1. CASE ~FULL_SYNC(k)
  BY <1>1, GrowsReflexive DEF Synced, Local
<1>2. CASE FULL_SYNC(k)
  <2>1. Synced(p, k) = [k EXCEPT !.state = s]
    BY <1>2 DEF Synced
  <2>2. k.state \in {S_ERROR} \cup (S_PRE_START..S_NORMAL_OP)
    BY DEF Local, KeyState, S_ERROR, S_INITIAL, S_NORMAL_OP, S_PRE_START
  <2>3. s \in {S_ERROR} \cup (S_PRE_START..S_NORMAL_OP) /\ s # S_INITIAL
    BY <2>2 DEF S_ERROR, S_PRE_START, S_START, S_SENT_KEY, S_GOT_KEY, S_ACTIVE, S_NORMAL_OP, S_INITIAL
  <2>4. s >= (IF server(p) THEN S_SENT_KEY ELSE S_GOT_KEY) => Len(k.in) = AllRecords(Other(p))
    BY <2>2 DEF Local, Keyed, S_ERROR, S_PRE_START, S_START, S_SENT_KEY, S_GOT_KEY, S_ACTIVE, S_NORMAL_OP
  <2> HIDE DEF s
  <2> QED
    BY <2>1, <2>3, <2>4, StateSet
<1> QED
  BY <1>1, <1>2

LEMMA SendKeyKeeps ==
  ASSUME NEW p \in Peers, NEW k, Local(p, k), k.state # S_INITIAL
  PROVE  LET l == SendKey(p, k) IN Local(p, l) /\ Grows(k, l) /\ l.state # S_INITIAL
<1>1. CASE k.state # (IF server(p) THEN S_GOT_KEY ELSE S_START)
  BY <1>1, GrowsReflexive DEF SendKey, Local
<1>2. CASE k.state = (IF server(p) THEN S_GOT_KEY ELSE S_START)
  <2>1. SendKey(p, k) = [k EXCEPT !.state = S_SENT_KEY, !.keyWritten = TRUE]
    BY <1>2 DEF SendKey
  <2>2. S_SENT_KEY \in {S_ERROR} \cup (S_PRE_START..S_NORMAL_OP) /\ S_SENT_KEY # S_INITIAL
    BY DEF S_PRE_START, S_SENT_KEY, S_NORMAL_OP, S_INITIAL
  <2>3. S_SENT_KEY >= (IF server(p) THEN S_SENT_KEY ELSE S_GOT_KEY) => Len(k.in) = AllRecords(Other(p))
    BY <1>2 DEF Local, Keyed, S_SENT_KEY, S_GOT_KEY
  <2> DEFINE l == [k EXCEPT !.state = S_SENT_KEY, !.keyWritten = TRUE]
  <2>4. k \in KeyState /\ S_SENT_KEY \in {S_ERROR} \cup (S_INITIAL..S_NORMAL_OP)
    BY DEF Local, S_SENT_KEY, S_INITIAL, S_NORMAL_OP
  <2>5. /\ l \in KeyState /\ l.state = S_SENT_KEY /\ l.pid = k.pid /\ l.send = k.send
        /\ l.recPid = k.recPid /\ l.held = k.held /\ l.ack = k.ack /\ l.in = k.in /\ l.out = k.out
    BY <2>4 DEF KeyState
  <2> HIDE DEF l
  <2>6. Local(p, l) /\ Grows(k, l)
    BY <2>2, <2>3, <2>5, StateOnly
  <2> QED
    BY <2>1, <2>2, <2>5, <2>6 DEF l
<1> QED
  BY <1>1, <1>2

LEMMA ReceiveKeyKeeps ==
  ASSUME NEW p \in Peers, NEW k, Local(p, k), k.state # S_INITIAL
  PROVE  LET l == ReceiveKey(p, k) IN Local(p, l) /\ Grows(k, l) /\ l.state # S_INITIAL
<1> DEFINE G == /\ key_state_read_plaintext(p, k)
                /\ k.state = (IF server(p) THEN S_START ELSE S_SENT_KEY)
<1>1. CASE ~G
  BY <1>1, GrowsReflexive DEF ReceiveKey, Local
<1>2. CASE G
  <2>1. ReceiveKey(p, k) = [k EXCEPT !.state = S_GOT_KEY]
    BY <1>2 DEF ReceiveKey
  <2>2. S_GOT_KEY \in {S_ERROR} \cup (S_PRE_START..S_NORMAL_OP) /\ S_GOT_KEY # S_INITIAL
    BY DEF S_PRE_START, S_GOT_KEY, S_NORMAL_OP, S_INITIAL
  <2>3. Len(k.in) = AllRecords(Other(p))
    BY <1>2 DEF key_state_read_plaintext
  <2>4. LET l == [k EXCEPT !.state = S_GOT_KEY]
        IN l.state = S_GOT_KEY /\ Local(p, l) /\ Grows(k, l)
    BY <2>2, <2>3, StateSet
  <2> QED
    BY <2>1, <2>2, <2>4
<1> QED
  BY <1>1, <1>2

\* The next packet goes into the TLS object; the packets received stay the same.
LEMMA IncomingKeeps ==
  ASSUME NEW p \in Peers, NEW k, Local(p, k), k.state # S_INITIAL
  PROVE  LET l == Incoming(k) IN Local(p, l) /\ Grows(k, l) /\ l.state # S_INITIAL
<1> DEFINE next == {e \in k.held : e.pid = k.recPid}
<1>1. k \in KeyState /\ Sending(p, k) /\ Receiving(p, k) /\ Keyed(p, k)
  BY DEF Local
<1>2. CASE next = {}
  BY <1>1, <1>2, GrowsReflexive DEF Incoming
<1>3. CASE next # {}
  <2> DEFINE e == CHOOSE e \in next : TRUE
             in2 == IF e.data = 0 THEN k.in ELSE Append(k.in, e.data)
             held2 == k.held \ {e}
             rec2 == Uint(e.pid + 1)
             l == [k EXCEPT !.held = held2, !.recPid = rec2, !.in = in2]
  <2>1. Incoming(k) = l
    BY <1>3 DEF Incoming
  <2>2. e \in k.held /\ e.pid = k.recPid
    BY <1>3
  <2> HIDE DEF e
  <2>3. /\ k.recPid \in Nat /\ k.in \in Seq(Nat) /\ Len(k.in) \in Nat /\ Len(k.out) \in Nat
        /\ k.pid \in Nat /\ k.held \in SUBSET Held
    BY <1>1 DEF KeyState
  <2>4. /\ e.data = k.recPid /\ k.recPid \in Received(k) /\ k.recPid <= AllRecords(Other(p))
    BY <1>1, <2>2 DEF Receiving, Received
  <2>5. rec2 = k.recPid + 1
    <3> DEFINE all == AllRecords(Other(p))
    <3>1. /\ all \in Nat /\ PidMod \in Nat /\ Half \in Nat /\ PidMod = 2 * Half
          /\ SendSize \in Nat \ {0} /\ RecSize \in Nat /\ all + SendSize + RecSize + 1 <= Half
      BY LimitsOther
    <3>2. k.recPid <= all
      BY <2>4
    <3> HIDE DEF all
    <3>3. k.recPid + 1 < PidMod /\ k.recPid + 1 \in Nat
      BY <2>3, <3>1, <3>2
    <3> QED
      BY <2>2, <3>1, <3>3, UintSmall
  <2>6. in2 \in Seq(Nat) /\ Len(in2) = k.recPid /\ Counting(in2) /\ Len(k.in) <= Len(in2)
    <3>1. CASE k.recPid = 0
      BY <1>1, <2>3, <2>4, <3>1 DEF Receiving
    <3>2. CASE k.recPid # 0
      <4>1. in2 = Append(k.in, k.recPid) /\ Len(k.in) = k.recPid - 1 /\ Counting(k.in)
        BY <1>1, <2>4, <3>2 DEF Receiving
      <4>2. Len(in2) = k.recPid /\ in2 \in Seq(Nat)
        BY <2>3, <4>1
      <4>3. \A i \in 1..Len(in2) : in2[i] = i
        BY <2>3, <4>1, <4>2 DEF Counting
      <4> QED
        BY <2>3, <4>1, <4>2, <4>3 DEF Counting
    <3> QED
      BY <3>1, <3>2
  <2>7. held2 \in SUBSET Held
    BY <2>3
  <2>8. \A f \in held2 : f.pid \in Nat /\ f.pid > k.recPid /\ f.data = f.pid
    <3>1. \A f \in k.held : f.pid \in Nat /\ f.pid >= k.recPid /\ f.data = f.pid
      BY <1>1, <2>3 DEF Receiving, Held
    <3>2. \A f \in k.held : f.pid = k.recPid => f = e
      BY <2>2, <2>3, <2>4, <3>1 DEF Held
    <3> QED
      BY <2>3, <3>1, <3>2
  <2> HIDE DEF in2, held2, rec2
  <2>9. /\ l \in KeyState /\ l.state = k.state /\ l.pid = k.pid /\ l.send = k.send
        /\ l.recPid = k.recPid + 1 /\ l.held = held2 /\ l.ack = k.ack /\ l.in = in2 /\ l.out = k.out
    <3>0. rec2 \in Nat /\ in2 \in Seq(Nat) /\ held2 \in SUBSET Held /\ k \in KeyState
      BY <1>1, <2>3, <2>5, <2>6, <2>7
    <3>1. l \in KeyState
      BY <3>0 DEF KeyState
    <3> QED
      BY <1>1, <2>5, <3>1 DEF KeyState
  <2> HIDE DEF l
  <2>10. Received(l) = Received(k)
    <3>1. 0..(l.recPid - 1) = 0..(k.recPid - 1) \cup {k.recPid}
      BY <2>3, <2>9
    <3>2. {f.pid : f \in k.held} = {f.pid : f \in l.held} \cup {k.recPid}
      BY <2>2, <2>9 DEF held2
    <3> QED
      BY <3>1, <3>2 DEF Received
  <2>11. Unacked(l) = Unacked(k)
    BY <2>9 DEF Unacked
  <2>12. Grows(k, l)
    BY <2>3, <2>6, <2>9, <2>10, <2>11 DEF Grows
  <2>13. Sending(p, l)
    BY <1>1, <2>9 DEF Sending
  <2>14. Receiving(p, l)
    <3>1. Len(l.in) = (IF l.recPid = 0 THEN 0 ELSE l.recPid - 1) /\ Counting(l.in)
      BY <2>3, <2>6, <2>9
    <3>2. \A f \in l.held : f.pid >= l.recPid /\ f.data = f.pid
      BY <2>3, <2>8, <2>9
    <3> QED
      BY <1>1, <2>9, <2>10, <3>1, <3>2 DEF Receiving
  <2>15. Keyed(p, l)
    <3>1. Len(k.in) # AllRecords(Other(p))
      <4>1. AllRecords(Other(p)) \in Nat \ {0}
        BY LimitsOther
      <4>2. Len(k.in) = (IF k.recPid = 0 THEN 0 ELSE k.recPid - 1)
        BY <1>1 DEF Receiving
      <4> QED
        BY <2>3, <2>4, <4>1, <4>2
    <3> QED
      BY <1>1, <2>9, <3>1 DEF Keyed
  <2> QED
    BY <2>1, <2>9, <2>12, <2>13, <2>14, <2>15 DEF Local
<1> QED
  BY <1>2, <1>3

\* The records of a flight are among all records, and the server's last record
\* comes out when the client's last has gone in.
LEMMA Flights ==
  ASSUME NEW p \in Peers, NEW i \in FlightsOf(p)
  PROVE  /\ i \in 1..Len(FlightEnd) /\ FlightEnd[i] \in Nat /\ FlightEnd[i] <= AllRecords(p)
         /\ (server(p) /\ FlightEnd[i] = AllRecords(p)) =>
              i > 1 /\ FlightEnd[i - 1] = AllRecords(Other(p))
<1> DEFINE N == Len(FlightEnd)
<1>1. N \in Nat /\ N >= 2 /\ N % 2 = 0 /\ \A j \in 1..N : FlightEnd[j] \in Nat
  BY ControlConstants
<1>2. i \in 1..N /\ (i % 2 = 1) = (p = "client")
  BY DEF FlightsOf
<1>3. CASE p = "client"
  <2> DEFINE j == N - 1
  <2>1. j % 2 = 1 /\ j \in 1..N /\ i % 2 = 1 /\ i <= j
    BY <1>1, <1>2, <1>3
  <2>2. AllRecords(p) = FlightEnd[j] /\ ~server(p)
    BY <1>3 DEF AllRecords, server
  <2> HIDE DEF j, N
  <2>3. i < j => FlightEnd[i] < FlightEnd[j]
    BY <1>2, <2>1, ControlConstants DEF N
  <2>4. i = j \/ i < j
    BY <1>1, <1>2, <2>1
  <2> QED
    BY <1>1, <1>2, <2>1, <2>2, <2>3, <2>4 DEF N
<1>4. CASE p = "server"
  <2>1. i % 2 = 0 /\ N \in 1..N
    BY <1>1, <1>2, <1>4
  <2>2. i = N \/ FlightEnd[i] < FlightEnd[N]
    <3>1. i = N \/ i < N
      BY <1>1, <1>2
    <3>2. i % 2 = N % 2
      BY <1>1, <2>1
    <3> HIDE DEF N
    <3> QED
      BY <1>2, <2>1, <3>1, <3>2, ControlConstants DEF N
  <2>3. AllRecords(p) = FlightEnd[N] /\ AllRecords(Other(p)) = FlightEnd[N - 1]
    BY <1>4 DEF AllRecords, Other
  <2> QED
    BY <1>1, <1>2, <2>1, <2>2, <2>3
<1> QED
  BY <1>3, <1>4, PeerFacts

LEMMA OutgoingKeeps ==
  ASSUME NEW p \in Peers, NEW k, Local(p, k), k.state # S_INITIAL
  PROVE  LET l == Outgoing(p, k) IN Local(p, l) /\ Grows(k, l) /\ l.state # S_INITIAL
<1> DEFINE G == /\ k.state >= S_START
                /\ reliable_get_buf_output_sequenced(k)
                /\ key_state_read_ciphertext(p, k)
<1>1. k \in KeyState /\ Sending(p, k) /\ Receiving(p, k) /\ Keyed(p, k)
  BY DEF Local
<1>2. CASE ~G
  BY <1>1, <1>2, GrowsReflexive DEF Outgoing
<1>3. CASE G
  <2> DEFINE n == Len(k.out) + 1
             r == reliable_mark_active_outgoing(k, "CONTROL", n)
             l == [r EXCEPT !.out = Append(@, n)]
  <2>1. Outgoing(p, k) = l
    BY <1>3 DEF Outgoing
  <2>2. k.pid = n /\ k.pid \in Nat /\ k.out \in Seq(Nat) /\ Len(k.out) \in Nat /\ Len(k.in) \in Nat
    BY <1>1 DEF Sending, KeyState
  <2>3. PICK i \in FlightsOf(p) :
          Len(k.out) < FlightEnd[i] /\ Len(k.in) >= (IF i = 1 THEN 0 ELSE FlightEnd[i - 1])
    BY <1>3 DEF key_state_read_ciphertext
  <2>4. n <= FlightEnd[i] /\ n <= AllRecords(p)
    <3>1. FlightEnd[i] \in Nat /\ FlightEnd[i] <= AllRecords(p) /\ AllRecords(p) \in Nat
      BY Flights, Limits
    <3> QED
      BY <2>2, <2>3, <3>1
  <2>5. /\ r \in KeyState /\ r.pid = n + 1
        /\ r.recPid = k.recPid /\ r.held = k.held /\ r.ack = k.ack
        /\ r.in = k.in /\ r.out = k.out /\ r.state = k.state
        /\ Unacked(r) = Unacked(k) \cup {n}
        /\ \A e \in r.send : e.pid < r.pid /\ e.data = e.pid /\ r.pid <= e.pid + SendSize
        /\ \A e, f \in r.send : e.pid = f.pid => e = f
    BY <1>3, <2>2, <2>4, MarkActive
  <2> HIDE DEF r
  <2>6. Append(k.out, n) \in Seq(Nat) /\ Len(Append(k.out, n)) = n /\ Counting(Append(k.out, n))
    BY <1>1, <2>2 DEF Sending, Counting
  <2>7. /\ l \in KeyState /\ l.pid = r.pid /\ l.send = r.send /\ l.recPid = k.recPid /\ l.held = k.held
        /\ l.ack = k.ack /\ l.in = k.in /\ l.out = Append(k.out, n) /\ l.state = k.state
    <3>1. l = [r EXCEPT !.out = Append(k.out, n)]
      BY <2>5
    <3> HIDE DEF l
    <3>2. l \in KeyState
      BY <2>5, <2>6, <3>1 DEF KeyState
    <3> QED
      BY <2>5, <3>1, <3>2 DEF KeyState
  <2> HIDE DEF l, n
  <2>8. Received(l) = Received(k) /\ Unacked(l) = Unacked(k) \cup {n}
    BY <2>5, <2>7 DEF Received, Unacked
  <2>9. Grows(k, l)
    BY <2>2, <2>5, <2>6, <2>7, <2>8 DEF Grows, n
  <2>10. Sending(p, l)
    BY <1>1, <2>4, <2>5, <2>6, <2>7 DEF Sending
  <2>11. Receiving(p, l)
    BY <1>1, <2>7, <2>8 DEF Receiving
  <2>12. Keyed(p, l)
    <3>1. ASSUME server(p), n = AllRecords(p) PROVE Len(k.in) = AllRecords(Other(p))
      <4>1. FlightEnd[i] = AllRecords(p)
        BY <2>4, <3>1, Flights, Limits
      <4>2. Len(k.in) >= AllRecords(Other(p))
        BY <2>3, <3>1, <4>1, Flights
      <4>3. Len(k.in) <= AllRecords(Other(p))
        <5>1. k.recPid \in Nat /\ AllRecords(Other(p)) \in Nat
          BY <1>1, PeerFacts, Limits DEF KeyState
        <5>2. k.recPid # 0 => k.recPid - 1 \in Received(k)
          BY <5>1 DEF Received
        <5> QED
          BY <1>1, <5>1, <5>2 DEF Receiving
      <4> QED
        <5>1. AllRecords(Other(p)) \in Nat
          BY LimitsOther
        <5> QED
          BY <2>2, <4>2, <4>3, <5>1
    <3> QED
      BY <1>1, <2>6, <2>7, <3>1 DEF Keyed
  <2> QED
    BY <2>1, <2>7, <2>9, <2>10, <2>11, <2>12 DEF Local
<1> QED
  BY <1>2, <1>3

\* A turn up to the place where a packet is sent, and the rest of it.
LEMMA FirstPartKeeps ==
  ASSUME NEW p \in Peers, NEW k, Local(p, k)
  PROVE  LET l == FirstPart(p, k) IN Local(p, l) /\ Grows(k, l) /\ l.state # S_INITIAL
<1> DEFINE a == Start(k)
           b == HandshakeWindow(p, a)
           c == Synced(p, b)
<1>1. Local(p, a) /\ Grows(k, a) /\ a.state # S_INITIAL
  BY StartKeeps
<1> HIDE DEF a
<1>2. Local(p, b) /\ Grows(a, b) /\ b.state # S_INITIAL
  BY <1>1, WindowKeeps
<1> HIDE DEF b
<1>3. Local(p, c) /\ Grows(b, c) /\ c.state # S_INITIAL
  BY <1>2, SyncedKeeps
<1> HIDE DEF c
<1>4. k \in KeyState /\ a \in KeyState /\ b \in KeyState /\ c \in KeyState
  BY <1>1, <1>2, <1>3 DEF Local
<1>5. Grows(k, b)
  BY <1>1, <1>2, <1>4, GrowsTransitive
<1>6. Grows(k, c)
  BY <1>3, <1>4, <1>5, GrowsTransitive
<1> QED
  BY <1>3, <1>6 DEF FirstPart, a, b, c

LEMMA RestKeeps ==
  ASSUME NEW p \in Peers, NEW k, Local(p, k), k.state # S_INITIAL
  PROVE  LET l == Rest(p, k) IN Local(p, l) /\ Grows(k, l)
<1> DEFINE a == Incoming(k)
           b == SendKey(p, a)
           c == ReceiveKey(p, b)
           d == Outgoing(p, c)
<1>1. Local(p, a) /\ Grows(k, a) /\ a.state # S_INITIAL
  BY IncomingKeeps
<1> HIDE DEF a
<1>2. Local(p, b) /\ Grows(a, b) /\ b.state # S_INITIAL
  BY <1>1, SendKeyKeeps
<1> HIDE DEF b
<1>3. Local(p, c) /\ Grows(b, c) /\ c.state # S_INITIAL
  BY <1>2, ReceiveKeyKeeps
<1> HIDE DEF c
<1>4. Local(p, d) /\ Grows(c, d)
  BY <1>3, OutgoingKeeps
<1> HIDE DEF d
<1>5. k \in KeyState /\ a \in KeyState /\ b \in KeyState /\ c \in KeyState /\ d \in KeyState
  BY <1>1, <1>2, <1>3, <1>4 DEF Local
<1>6. Grows(k, b)
  BY <1>1, <1>2, <1>5, GrowsTransitive
<1>7. Grows(k, c)
  BY <1>3, <1>5, <1>6, GrowsTransitive
<1>8. Grows(k, d)
  BY <1>4, <1>5, <1>7, GrowsTransitive
<1> QED
  BY <1>4, <1>8 DEF Rest, a, b, c, d

\* Acknowledgements that go out, and those that are kept, were there before.
LEMMA Acks ==
  ASSUME NEW k \in KeyState, NEW max \in Nat, NEW S, \A j \in 1..Len(k.ack) : k.ack[j] \in S
  PROVE  /\ Taken(k, max) \in Seq(Nat) /\ Kept(k, max) \in Seq(Nat)
         /\ \A i \in 1..Len(Taken(k, max)) : Taken(k, max)[i] \in S
         /\ \A i \in 1..Len(Kept(k, max)) : Kept(k, max)[i] \in S
<1> DEFINE n == Min({max, Len(k.ack)})
<1>1. k.ack \in Seq(Nat) /\ Len(k.ack) \in Nat
  BY DEF KeyState
<1>2. n \in Nat /\ n <= Len(k.ack)
  <2>1. \E x \in {max, Len(k.ack)} : \A y \in {max, Len(k.ack)} : x <= y
    BY <1>1
  <2>2. n \in {max, Len(k.ack)} /\ \A y \in {max, Len(k.ack)} : n <= y
    BY <2>1 DEF Min
  <2> QED
    BY <1>1, <2>2
<1> HIDE DEF n
<1>3. /\ Taken(k, max) = SubSeq(k.ack, 1, n)
      /\ Kept(k, max) = SubSeq(k.ack, n + 1, Len(k.ack))
  BY DEF Taken, Kept, n
<1>4. /\ SubSeq(k.ack, 1, n) \in Seq(Nat) /\ Len(SubSeq(k.ack, 1, n)) = n
      /\ \A i \in 1..n : SubSeq(k.ack, 1, n)[i] = k.ack[i]
  BY <1>1, <1>2
<1>5. /\ SubSeq(k.ack, n + 1, Len(k.ack)) \in Seq(Nat)
      /\ Len(SubSeq(k.ack, n + 1, Len(k.ack))) = Len(k.ack) - n
      /\ \A i \in 1..(Len(k.ack) - n) : SubSeq(k.ack, n + 1, Len(k.ack))[i] = k.ack[n + i]
  <2> DEFINE s == k.ack
             m == n + 1
  <2>1. s \in Seq(Nat) /\ m \in 1..(Len(s) + 1) /\ Len(s) \in Nat
    BY <1>1, <1>2
  <2> HIDE DEF s
  <2>2. /\ SubSeq(s, m, Len(s)) \in Seq(Nat)
        /\ Len(SubSeq(s, m, Len(s))) = Len(s) + 1 - m
        /\ \A i \in 1..(Len(s) + 1 - m) : SubSeq(s, m, Len(s))[i] = s[m + i - 1]
    <3> HIDE DEF m
    <3> QED
      BY <2>1
  <2>3. Len(s) + 1 - m = Len(s) - n /\ \A i \in 1..(Len(s) - n) : m + i - 1 = n + i
    BY <1>2, <2>1
  <2> QED
    BY <2>2, <2>3 DEF s
<1>6. \A i \in 1..(Len(k.ack) - n) : n + i \in 1..Len(k.ack)
  BY <1>1, <1>2
<1>7. \A i \in 1..n : i \in 1..Len(k.ack)
  BY <1>1, <1>2
<1> QED
  BY <1>3, <1>4, <1>5, <1>6, <1>7

\* Marking an entry changes neither which packets are kept nor their contents.
LEMMA Marked ==
  ASSUME NEW p \in Peers, NEW k, Local(p, k), NEW e \in k.send, NEW due \in BOOLEAN
  PROVE  LET f == [e EXCEPT !.due = due]
             s == (k.send \ {e}) \cup {f}
         IN /\ s \in SUBSET Entry /\ {g.pid : g \in s} = Unacked(k)
            /\ \A g \in s : g.pid < k.pid /\ g.data = g.pid /\ k.pid <= g.pid + SendSize
            /\ \A g, h \in s : g.pid = h.pid => g = h
<1> DEFINE f == [e EXCEPT !.due = due]
           s == (k.send \ {e}) \cup {f}
<1>1. k \in KeyState /\ Sending(p, k)
  BY DEF Local
<1>2. k.send \in SUBSET Entry /\ e \in Entry
  BY <1>1 DEF KeyState
<1>3. f \in Entry /\ f.pid = e.pid /\ f.data = e.data
  BY <1>2 DEF Entry
<1> HIDE DEF f
<1>4. \A g \in k.send : g.pid < k.pid /\ g.data = g.pid /\ k.pid <= g.pid + SendSize
  BY <1>1 DEF Sending
<1>5. \A g, h \in k.send : g.pid = h.pid => g = h
  BY <1>1 DEF Sending
<1>6. {g.pid : g \in s} = Unacked(k)
  BY <1>3 DEF Unacked
<1>7. \A g, h \in s : g.pid = h.pid => g = h
  BY <1>3, <1>5
<1>8. \A g \in s : g.pid < k.pid /\ g.data = g.pid /\ k.pid <= g.pid + SendSize
  BY <1>3, <1>4
<1>9. s \in SUBSET Entry
  BY <1>2, <1>3
<1> QED
  BY <1>6, <1>7, <1>8, <1>9 DEF f

\* A change of the entries' marks and of the acknowledgements to send.
LEMMA BuffersOnly ==
  ASSUME NEW p \in Peers, NEW k, Local(p, k), NEW l \in KeyState,
         l.state = k.state, l.pid = k.pid, l.recPid = k.recPid, l.held = k.held,
         l.in = k.in, l.out = k.out, Unacked(l) = Unacked(k),
         \A g \in l.send : g.pid < k.pid /\ g.data = g.pid /\ k.pid <= g.pid + SendSize,
         \A g, h \in l.send : g.pid = h.pid => g = h,
         \A i \in 1..Len(l.ack) : l.ack[i] \in Received(k)
  PROVE  Local(p, l) /\ Grows(k, l)
<1>1. k \in KeyState /\ Sending(p, k) /\ Receiving(p, k) /\ Keyed(p, k)
  BY DEF Local
<1>2. Received(l) = Received(k)
  BY DEF Received
<1>3. k.pid \in Nat /\ Len(k.out) \in Nat /\ Len(k.in) \in Nat
  BY <1>1 DEF KeyState
<1>4. Grows(k, l)
  BY <1>2, <1>3 DEF Grows
<1>5. Sending(p, l)
  BY <1>1 DEF Sending
<1>6. Receiving(p, l)
  BY <1>1, <1>2 DEF Receiving
<1>7. Keyed(p, l)
  BY <1>1 DEF Keyed
<1> QED
  BY <1>4, <1>5, <1>6, <1>7 DEF Local

\* What a call puts on the link is genuine.
LEMMA SendKeeps ==
  ASSUME NEW p \in Peers, NEW k, Local(p, k), Due(k) # {}
  PROVE  LET r == reliable_send(k)
         IN /\ Local(p, r.k) /\ Grows(k, r.k)
            /\ r.out \in Seq(Message) /\ \A i \in 1..Len(r.out) : Genuine(r.out[i], r.k)
<1> DEFINE e == Min_id(Due(k))
           s == (k.send \ {e}) \cup {[e EXCEPT !.due = FALSE]}
           l == [k EXCEPT !.send = s, !.ack = Kept(k, AckMax)]
           m == [op |-> e.op, pid |-> e.pid, data |-> e.data, acks |-> Taken(k, AckMax)]
<1>1. k \in KeyState /\ Sending(p, k) /\ Receiving(p, k)
  BY DEF Local
<1>2. reliable_send(k) = [k |-> l, out |-> <<m>>]
  BY DEF reliable_send
<1>3. e \in k.send
  <2>1. \A f \in k.send : f.pid \in Nat /\ f.pid < k.pid
    BY <1>1 DEF KeyState, Entry, Sending
  <2>2. k.pid \in Nat /\ k.pid <= Len(k.out) + 1 /\ Len(k.out) \in Nat /\ Len(k.out) <= AllRecords(p)
    BY <1>1 DEF KeyState, Sending
  <2>3. \A f \in Due(k) : f.pid \in Nat /\ f.pid < Half
    BY <2>1, <2>2, Limits DEF Due
  <2>4. \A f, g \in Due(k) : f.pid = g.pid => f = g
    BY <1>1 DEF Due, Sending
  <2>5. Min_id(Due(k)) \in Due(k)
    BY <2>3, <2>4, MinId
  <2> QED
    BY <2>5 DEF Due
<1> HIDE DEF e
<1>4. /\ s \in SUBSET Entry /\ {g.pid : g \in s} = Unacked(k)
      /\ \A g \in s : g.pid < k.pid /\ g.data = g.pid /\ k.pid <= g.pid + SendSize
      /\ \A g, h \in s : g.pid = h.pid => g = h
  BY <1>3, Marked
<1> HIDE DEF s
<1>5. /\ Taken(k, AckMax) \in Seq(Nat) /\ Kept(k, AckMax) \in Seq(Nat)
      /\ \A i \in 1..Len(Taken(k, AckMax)) : Taken(k, AckMax)[i] \in Received(k)
      /\ \A i \in 1..Len(Kept(k, AckMax)) : Kept(k, AckMax)[i] \in Received(k)
  <2>1. AckMax \in Nat
    BY ControlConstants
  <2>2. \A j \in 1..Len(k.ack) : k.ack[j] \in Received(k)
    BY <1>1 DEF Receiving
  <2>3. k \in KeyState
    BY <1>1
  <2> QED
    BY <2>1, <2>2, <2>3, Acks
<1>6. /\ l \in KeyState /\ l.state = k.state /\ l.pid = k.pid /\ l.recPid = k.recPid /\ l.held = k.held
      /\ l.in = k.in /\ l.out = k.out /\ l.send = s /\ l.ack = Kept(k, AckMax)
  <2>1. l \in KeyState
    BY <1>1, <1>4, <1>5 DEF KeyState
  <2> QED
    BY <1>1, <2>1 DEF KeyState
<1> HIDE DEF l
<1>7. Unacked(l) = Unacked(k) /\ Received(l) = Received(k)
  BY <1>4, <1>6 DEF Unacked, Received
<1>8. Local(p, l) /\ Grows(k, l)
  BY <1>4, <1>5, <1>6, <1>7, BuffersOnly
<1>9. m \in Message
  <2>1. e.pid \in Nat /\ e.data \in Nat /\ e.op \in {"RESET", "CONTROL"}
    BY <1>1, <1>3 DEF KeyState, Entry
  <2> QED
    BY <1>5, <2>1 DEF Message
<1>10. m.pid < l.pid /\ m.data = m.pid
  BY <1>1, <1>3, <1>6 DEF Sending
<1>11. m.acks = Taken(k, AckMax)
  OBVIOUS
<1> HIDE DEF m
<1>12. Genuine(m, l)
  BY <1>5, <1>7, <1>9, <1>10, <1>11 DEF Genuine
<1>13. <<m>> \in Seq(Message) /\ Len(<<m>>) = 1 /\ <<m>>[1] = m
  BY <1>9
<1> QED
  BY <1>2, <1>8, <1>12, <1>13

LEMMA DedicatedAckKeeps ==
  ASSUME NEW p \in Peers, NEW k, Local(p, k)
  PROVE  LET r == dedicated_ack(k)
         IN /\ Local(p, r.k) /\ Grows(k, r.k)
            /\ r.out \in Seq(Message) /\ \A i \in 1..Len(r.out) : Genuine(r.out[i], r.k)
<1> DEFINE l == [k EXCEPT !.ack = Kept(k, AckSize)]
           m == [op |-> "ACK", pid |-> 0, data |-> 0, acks |-> Taken(k, AckSize)]
<1>1. k \in KeyState /\ Sending(p, k) /\ Receiving(p, k)
  BY DEF Local
<1>2. dedicated_ack(k) = [k |-> l, out |-> <<m>>]
  BY DEF dedicated_ack
<1>3. /\ Taken(k, AckSize) \in Seq(Nat) /\ Kept(k, AckSize) \in Seq(Nat)
      /\ \A i \in 1..Len(Taken(k, AckSize)) : Taken(k, AckSize)[i] \in Received(k)
      /\ \A i \in 1..Len(Kept(k, AckSize)) : Kept(k, AckSize)[i] \in Received(k)
  <2>1. AckSize \in Nat
    BY ControlConstants
  <2>2. \A j \in 1..Len(k.ack) : k.ack[j] \in Received(k)
    BY <1>1 DEF Receiving
  <2>3. k \in KeyState
    BY <1>1
  <2> QED
    BY <2>1, <2>2, <2>3, Acks
<1>4. /\ l \in KeyState /\ l.state = k.state /\ l.pid = k.pid /\ l.recPid = k.recPid /\ l.held = k.held
      /\ l.in = k.in /\ l.out = k.out /\ l.send = k.send /\ l.ack = Kept(k, AckSize)
  <2>1. l \in KeyState
    BY <1>1, <1>3 DEF KeyState
  <2> QED
    BY <1>1, <2>1 DEF KeyState
<1> HIDE DEF l
<1>5. Unacked(l) = Unacked(k) /\ Received(l) = Received(k)
  BY <1>4 DEF Unacked, Received
<1>6. Local(p, l) /\ Grows(k, l)
  <2>1. /\ \A g \in l.send : g.pid < k.pid /\ g.data = g.pid /\ k.pid <= g.pid + SendSize
        /\ \A g, h \in l.send : g.pid = h.pid => g = h
    BY <1>1, <1>4 DEF Sending
  <2> QED
    BY <1>3, <1>4, <1>5, <2>1, BuffersOnly
<1>7. m \in Message /\ m.op = "ACK" /\ m.acks = Taken(k, AckSize)
  BY <1>3 DEF Message
<1> HIDE DEF m
<1>8. Genuine(m, l)
  BY <1>3, <1>5, <1>7 DEF Genuine
<1>9. <<m>> \in Seq(Message) /\ Len(<<m>>) = 1 /\ <<m>>[1] = m
  BY <1>7
<1> QED
  BY <1>2, <1>6, <1>8, <1>9

\* What a peer sent stays genuine while its state grows.
LEMMA GenuineGrows ==
  ASSUME NEW k \in KeyState, NEW l \in KeyState, k.pid <= l.pid,
         Received(k) \subseteq Received(l), NEW m, Genuine(m, k)
  PROVE  Genuine(m, l)
<1>1. k.pid \in Nat /\ l.pid \in Nat /\ m \in Message /\ m.pid \in Nat
  BY DEF KeyState, Genuine, Message
<1>2. m.op # "ACK" => m.pid < l.pid /\ m.data = m.pid
  BY <1>1 DEF Genuine
<1>3. \A i \in 1..Len(m.acks) : m.acks[i] \in Received(l)
  BY DEF Genuine
<1> QED
  BY <1>1, <1>2, <1>3 DEF Genuine

\* The invariant in one sentence per peer, to be shown of a new state.
LEMMA InvariantOf ==
  ASSUME NEW p \in Peers, NEW k, NEW l, Local(p, k), Local(Other(p), l),
         Matching(k, l), Matching(l, k),
         ks' \in [Peers -> KeyState], ks'[p] = k, ks'[Other(p)] = l,
         net' \in [Peers -> Seq(Message)],
         \A i \in 1..Len(net'[p]) : Genuine(net'[p][i], l),
         \A i \in 1..Len(net'[Other(p)]) : Genuine(net'[Other(p)][i], k),
         call' = NoCall \/ call' \in [peer : Peers, busy : BOOLEAN]
  PROVE  ControlInv'
<1>1. \A q \in Peers : q = p \/ q = Other(p)
  BY DEF Peers, Other
<1>2. Other(Other(p)) = p
  BY PeerFacts
<1>3. ControlTypes'
  BY DEF ControlTypes
<1>4. \A q \in Peers : Local(q, ks'[q])
  BY <1>1
<1>5. \A q \in Peers : Matching(ks'[q], ks'[Other(q)])
  BY <1>1, <1>2
<1>6. \A q \in Peers : \A i \in 1..Len(net'[q]) : Genuine(net'[q][i], ks'[Other(q)])
  BY <1>1, <1>2
<1> QED
  BY <1>3, <1>4, <1>5, <1>6 DEF ControlInv

\* The invariant, peer by peer.
LEMMA InvariantAt ==
  ASSUME ControlInv, NEW p \in Peers
  PROVE  /\ ks \in [Peers -> KeyState] /\ net \in [Peers -> Seq(Message)]
         /\ call = NoCall \/ call \in [peer : Peers, busy : BOOLEAN]
         /\ Other(p) \in Peers /\ Other(p) # p /\ Other(Other(p)) = p
         /\ ks[p] \in KeyState /\ ks[Other(p)] \in KeyState
         /\ net[p] \in Seq(Message) /\ net[Other(p)] \in Seq(Message)
         /\ Local(p, ks[p]) /\ Local(Other(p), ks[Other(p)])
         /\ Matching(ks[p], ks[Other(p)]) /\ Matching(ks[Other(p)], ks[p])
         /\ \A i \in 1..Len(net[p]) : Genuine(net[p][i], ks[Other(p)])
         /\ \A i \in 1..Len(net[Other(p)]) : Genuine(net[Other(p)][i], ks[p])
<1>1. Other(p) \in Peers /\ Other(p) # p /\ Other(Other(p)) = p
  BY PeerFacts
<1>2. ControlTypes
  BY DEF ControlInv
<1>3. /\ ks \in [Peers -> KeyState] /\ net \in [Peers -> Seq(Message)]
      /\ call = NoCall \/ call \in [peer : Peers, busy : BOOLEAN]
  BY <1>2 DEF ControlTypes
<1>4. /\ ks[p] \in KeyState /\ ks[Other(p)] \in KeyState
      /\ net[p] \in Seq(Message) /\ net[Other(p)] \in Seq(Message)
  BY <1>1, <1>3
<1>5. /\ Local(p, ks[p]) /\ Local(Other(p), ks[Other(p)])
      /\ Matching(ks[p], ks[Other(p)]) /\ Matching(ks[Other(p)], ks[p])
  BY <1>1 DEF ControlInv
<1>6. /\ \A i \in 1..Len(net[p]) : Genuine(net[p][i], ks[Other(p)])
      /\ \A i \in 1..Len(net[Other(p)]) : Genuine(net[Other(p)][i], ks[p])
  BY <1>1 DEF ControlInv
<1> QED
  BY <1>1, <1>3, <1>4, <1>5, <1>6

\* A peer that grows still matches the other one, in both directions.
LEMMA MatchingGrows ==
  ASSUME NEW k \in KeyState, NEW k2 \in KeyState, NEW l \in KeyState, Grows(k, k2),
         Matching(k, l), Matching(l, k)
  PROVE  Matching(k2, l) /\ Matching(l, k2)
<1>1. k.pid \in Nat /\ k2.pid \in Nat /\ k.pid <= k2.pid /\ Received(k2) = Received(k)
  BY DEF KeyState, Grows
<1>2. Matching(l, k2)
  BY <1>1 DEF Matching
<1>3. Received(l) \subseteq Int
  <2>1. l.recPid \in Nat /\ l.held \in SUBSET Held
    BY DEF KeyState
  <2>2. \A e \in l.held : e.pid \in Nat
    BY <2>1 DEF Held
  <2> QED
    BY <2>1, <2>2 DEF Received
<1>4. \A x \in Received(l) : x < k2.pid
  BY <1>1, <1>3 DEF Matching
<1>5. \A x \in 0..(k2.pid - 1) : x \in 0..(k.pid - 1) \/ x \in k.pid..(k2.pid - 1)
  BY <1>1
<1>6. \A x \in 0..(k2.pid - 1) : x \in Unacked(k2) \cup Received(l)
  BY <1>5 DEF Matching, Grows
<1> QED
  BY <1>2, <1>4, <1>6 DEF Matching

\* What a step of p may do to the streams.
Advances(p) ==
  /\ ks' = [ks EXCEPT ![p] = ks'[p]]
  /\ Len(ks[p].out) <= Len(ks'[p].out) /\ Len(ks[p].in) <= Len(ks'[p].in)

\* A step in which a peer grows and puts genuine packets on the network.
LEMMA PeerStep ==
  ASSUME ControlInv, NEW p \in Peers, NEW l, Local(p, l), Grows(ks[p], l),
         NEW packets \in Seq(Message), \A i \in 1..Len(packets) : Genuine(packets[i], l),
         ks' = [ks EXCEPT ![p] = l],
         net' = [net EXCEPT ![Other(p)] = net[Other(p)] \o packets],
         call' = NoCall \/ call' \in [peer : Peers, busy : BOOLEAN]
  PROVE  ControlInv' /\ Advances(p)
<1> DEFINE k == ks[p]
           o == ks[Other(p)]
           s == net[Other(p)]
<1>1. /\ ks \in [Peers -> KeyState] /\ net \in [Peers -> Seq(Message)]
      /\ Other(p) \in Peers /\ Other(p) # p
      /\ k \in KeyState /\ o \in KeyState /\ s \in Seq(Message)
      /\ Local(Other(p), o) /\ Matching(k, o) /\ Matching(o, k)
      /\ \A i \in 1..Len(net[p]) : Genuine(net[p][i], o)
      /\ \A i \in 1..Len(s) : Genuine(s[i], k)
  BY InvariantAt
<1>2. l \in KeyState
  BY DEF Local
<1>3. /\ ks' \in [Peers -> KeyState] /\ ks'[p] = l /\ ks'[Other(p)] = o
  BY <1>1, <1>2
<1>4. s \o packets \in Seq(Message)
  BY <1>1
<1>5. net' \in [Peers -> Seq(Message)] /\ net'[p] = net[p] /\ net'[Other(p)] = s \o packets
  BY <1>1, <1>4
<1>6. Matching(l, o) /\ Matching(o, l)
  BY <1>1, <1>2, MatchingGrows
<1> HIDE DEF s, k, o
<1>7. \A i \in 1..Len(s) : Genuine(s[i], l)
  <2>1. k.pid <= l.pid /\ Received(k) \subseteq Received(l)
    BY DEF Grows, k
  <2> QED
    BY <1>1, <1>2, <2>1, GenuineGrows
<1>8. \A i \in 1..Len(s \o packets) : Genuine((s \o packets)[i], l)
  <2> SUFFICES ASSUME NEW i \in 1..Len(s \o packets) PROVE Genuine((s \o packets)[i], l)
    OBVIOUS
  <2>1. Len(s) \in Nat /\ Len(packets) \in Nat /\ i \in 1..(Len(s) + Len(packets))
    BY <1>1
  <2>2. CASE i <= Len(s)
    <3>1. i \in 1..Len(s) /\ (s \o packets)[i] = s[i]
      BY <1>1, <2>1, <2>2
    <3> QED
      BY <1>7, <3>1
  <2>3. CASE i > Len(s)
    <3>1. i - Len(s) \in 1..Len(packets) /\ (s \o packets)[i] = packets[i - Len(s)]
      BY <1>1, <2>1, <2>3
    <3> QED
      BY <3>1
  <2> QED
    BY <2>1, <2>2, <2>3
<1>9. ControlInv'
  BY <1>1, <1>3, <1>5, <1>6, <1>8, InvariantOf
<1>10. Advances(p)
  BY <1>3 DEF Advances, Grows
<1> QED
  BY <1>9, <1>10

\* One turn of tls_process.
LEMMA TurnKeeps ==
  ASSUME ControlInv, NEW p \in Peers, NEW busy \in BOOLEAN, Turn(p, busy)
  PROVE  ControlInv' /\ Advances(p)
<1> DEFINE k == [ks[p] EXCEPT !.woken = FALSE]
           a == FirstPart(p, k)
           b == Rest(p, a)
           sends == ~busy /\ Due(a) # {}
           noOut == <<>>
<1>1. ks[p] \in KeyState /\ Local(p, ks[p]) /\ net[Other(p)] \in Seq(Message)
  BY InvariantAt
<1>n. net \in [Peers -> Seq(Message)] /\ Other(p) \in Peers
  BY InvariantAt
<1>2. k \in KeyState /\ Local(p, k) /\ Grows(ks[p], k)
  <2>1. /\ k \in KeyState /\ k.state = ks[p].state /\ k.pid = ks[p].pid /\ k.send = ks[p].send
        /\ k.recPid = ks[p].recPid /\ k.held = ks[p].held /\ k.ack = ks[p].ack
        /\ k.in = ks[p].in /\ k.out = ks[p].out
    BY <1>1 DEF KeyState
  <2> HIDE DEF k
  <2>2. ks[p].state >= (IF server(p) THEN S_SENT_KEY ELSE S_GOT_KEY) =>
          Len(ks[p].in) = AllRecords(Other(p))
    BY <1>1 DEF Local, Keyed
  <2>3. Local(p, k) /\ Grows(ks[p], k)
    BY <1>1, <2>1, <2>2, StateOnly
  <2> QED
    BY <2>1, <2>3
<1> HIDE DEF k
<1>3. Local(p, a) /\ Grows(k, a) /\ a.state # S_INITIAL /\ a \in KeyState
  BY <1>2, FirstPartKeeps DEF Local
<1>4. Grows(ks[p], a)
  BY <1>1, <1>2, <1>3, GrowsTransitive
<1> HIDE DEF a
<1>5. Local(p, b) /\ Grows(a, b) /\ b \in KeyState
  BY <1>3, RestKeeps DEF Local
<1>6. Grows(ks[p], b)
  BY <1>1, <1>3, <1>4, <1>5, GrowsTransitive
<1> HIDE DEF b, sends, noOut
<1>7. noOut \in Seq(Message) /\ Len(noOut) = 0 /\ net[Other(p)] \o noOut = net[Other(p)]
  BY <1>1 DEF noOut
<1>8. \/ a.state = S_ERROR /\ Return(p, [k |-> a, out |-> noOut])
      \/ a.state # S_ERROR /\ sends /\ Return(p, reliable_send(a))
      \/ /\ ks' = [ks EXCEPT ![p] = b] /\ call' = [peer |-> p, busy |-> busy]
         /\ UNCHANGED net
      \/ Return(p, [k |-> b, out |-> noOut])
      \/ Return(p, dedicated_ack(b))
  BY DEF Turn, k, a, b, sends, noOut
<1>9. ASSUME NEW l, Local(p, l), Grows(ks[p], l), Return(p, [k |-> l, out |-> noOut])
      PROVE  ControlInv' /\ Advances(p)
  <2>1. /\ ks' = [ks EXCEPT ![p] = l] /\ call' = NoCall
        /\ net' = [net EXCEPT ![Other(p)] = net[Other(p)] \o noOut]
    BY <1>9 DEF Return
  <2>2. \A i \in 1..Len(noOut) : Genuine(noOut[i], l)
    BY <1>7
  <2> QED
    BY <1>7, <1>9, <2>1, <2>2, PeerStep
<1>10. CASE a.state # S_ERROR /\ sends /\ Return(p, reliable_send(a))
  <2> DEFINE r == reliable_send(a)
  <2>1. /\ Local(p, r.k) /\ Grows(a, r.k)
        /\ r.out \in Seq(Message) /\ \A i \in 1..Len(r.out) : Genuine(r.out[i], r.k)
    BY <1>3, <1>10, SendKeeps DEF sends
  <2>2. /\ ks' = [ks EXCEPT ![p] = r.k] /\ call' = NoCall
        /\ net' = [net EXCEPT ![Other(p)] = net[Other(p)] \o r.out]
    BY <1>10 DEF Return
  <2> HIDE DEF r
  <2>3. Grows(ks[p], r.k)
    BY <1>1, <1>3, <1>4, <2>1, GrowsTransitive DEF Local
  <2> QED
    BY <2>1, <2>2, <2>3, PeerStep
<1>11. CASE /\ ks' = [ks EXCEPT ![p] = b] /\ call' = [peer |-> p, busy |-> busy]
            /\ UNCHANGED net
  <2>1. net' = [net EXCEPT ![Other(p)] = net[Other(p)] \o noOut]
    BY <1>7, <1>11, <1>n
  <2>2. call' \in [peer : Peers, busy : BOOLEAN]
    BY <1>11
  <2>3. \A i \in 1..Len(noOut) : Genuine(noOut[i], b)
    BY <1>7
  <2> QED
    BY <1>5, <1>6, <1>7, <1>11, <2>1, <2>2, <2>3, PeerStep
<1>12. CASE Return(p, dedicated_ack(b))
  <2> DEFINE r == dedicated_ack(b)
  <2>1. /\ Local(p, r.k) /\ Grows(b, r.k)
        /\ r.out \in Seq(Message) /\ \A i \in 1..Len(r.out) : Genuine(r.out[i], r.k)
    BY <1>5, DedicatedAckKeeps
  <2>2. /\ ks' = [ks EXCEPT ![p] = r.k] /\ call' = NoCall
        /\ net' = [net EXCEPT ![Other(p)] = net[Other(p)] \o r.out]
    BY <1>12 DEF Return
  <2> HIDE DEF r
  <2>3. Grows(ks[p], r.k)
    BY <1>1, <1>5, <1>6, <2>1, GrowsTransitive DEF Local
  <2> QED
    BY <2>1, <2>2, <2>3, PeerStep
<1> QED
  BY <1>3, <1>4, <1>5, <1>6, <1>8, <1>9, <1>10, <1>11, <1>12

\* tls_pre_decrypt, part by part: the first packet of a session makes the
\* entries due, acknowledged entries go, a packet of the peer is stored.
LEMMA LinkedKeeps ==
  ASSUME NEW p \in Peers, NEW k, Local(p, k)
  PROVE  LET l == Linked(k)
         IN /\ Local(p, l) /\ Grows(k, l) /\ Unacked(l) = Unacked(k) /\ l.pid = k.pid
            /\ l.in = k.in /\ l.out = k.out
<1>1. k \in KeyState /\ Sending(p, k) /\ Receiving(p, k)
  BY DEF Local
<1>2. CASE k.linked
  BY <1>1, <1>2, GrowsReflexive DEF Linked
<1>3. CASE ~k.linked
  <2> DEFINE s == {[e EXCEPT !.due = TRUE] : e \in k.send}
             l == [k EXCEPT !.linked = TRUE, !.send = s]
  <2>1. Linked(k) = l
    BY <1>1, <1>3 DEF Linked, reliable_schedule_now, KeyState
  <2>2. k.send \in SUBSET Entry
    BY <1>1 DEF KeyState
  <2>3. \A e \in k.send : /\ [e EXCEPT !.due = TRUE] \in Entry
                          /\ [e EXCEPT !.due = TRUE].pid = e.pid
                          /\ [e EXCEPT !.due = TRUE].data = e.data
    BY <2>2 DEF Entry
  <2>4. s \in SUBSET Entry
    BY <2>3
  <2>5. \A f \in s : \E e \in k.send : f = [e EXCEPT !.due = TRUE] /\ f.pid = e.pid /\ f.data = e.data
    BY <2>3
  <2>6. \A e \in k.send : \E f \in s : f.pid = e.pid
    BY <2>3
  <2> HIDE DEF s
  <2>7. /\ l \in KeyState /\ l.state = k.state /\ l.pid = k.pid /\ l.recPid = k.recPid
        /\ l.held = k.held /\ l.in = k.in /\ l.out = k.out /\ l.send = s /\ l.ack = k.ack
    <3>1. l \in KeyState
      BY <1>1, <2>4 DEF KeyState
    <3> QED
      BY <1>1, <3>1 DEF KeyState
  <2> HIDE DEF l
  <2>8. Unacked(l) = Unacked(k)
    BY <2>5, <2>6, <2>7 DEF Unacked
  <2>9. \A g \in l.send : g.pid < k.pid /\ g.data = g.pid /\ k.pid <= g.pid + SendSize
    BY <1>1, <2>5, <2>7 DEF Sending
  <2>10. ASSUME NEW g \in l.send, NEW h \in l.send, g.pid = h.pid PROVE g = h
    <3>1. PICK e \in k.send : g = [e EXCEPT !.due = TRUE] /\ g.pid = e.pid
      BY <2>5, <2>7
    <3>2. PICK f \in k.send : h = [f EXCEPT !.due = TRUE] /\ h.pid = f.pid
      BY <2>5, <2>7
    <3>3. e = f
      BY <1>1, <2>10, <3>1, <3>2 DEF Sending
    <3> QED
      BY <3>1, <3>2, <3>3
  <2>11. \A i \in 1..Len(l.ack) : l.ack[i] \in Received(k)
    BY <1>1, <2>7 DEF Receiving
  <2>12. Local(p, l) /\ Grows(k, l)
    BY <2>7, <2>8, <2>9, <2>10, <2>11, BuffersOnly
  <2> QED
    BY <2>1, <2>7, <2>8, <2>12
<1> QED
  BY <1>2, <1>3

LEMMA PurgeKeeps ==
  ASSUME NEW p \in Peers, NEW k, Local(p, k), NEW acks \in Seq(Nat)
  PROVE  LET l == reliable_send_purge(k, acks)
         IN /\ Local(p, l) /\ Received(l) = Received(k) /\ l.pid = k.pid
            /\ l.in = k.in /\ l.out = k.out
            /\ \A x \in Unacked(k) : x \in Unacked(l) \/ \E i \in 1..Len(acks) : acks[i] = x
<1> DEFINE s == {e \in k.send : ~Contains(acks, e.pid)}
           l == [k EXCEPT !.send = s]
<1>1. k \in KeyState /\ Sending(p, k) /\ Receiving(p, k) /\ Keyed(p, k)
  BY DEF Local
<1>2. reliable_send_purge(k, acks) = l
  BY DEF reliable_send_purge
<1>3. s \subseteq k.send
  OBVIOUS
<1>4. \A e \in k.send : e \in s \/ \E i \in 1..Len(acks) : acks[i] = e.pid
  BY DEF Contains
<1> HIDE DEF s
<1>5. /\ l \in KeyState /\ l.state = k.state /\ l.pid = k.pid /\ l.recPid = k.recPid
      /\ l.held = k.held /\ l.in = k.in /\ l.out = k.out /\ l.send = s /\ l.ack = k.ack
  <2>1. s \in SUBSET Entry
    BY <1>1, <1>3 DEF KeyState
  <2>2. l \in KeyState
    BY <1>1, <2>1 DEF KeyState
  <2> QED
    BY <1>1, <2>2 DEF KeyState
<1> HIDE DEF l
<1>6. Received(l) = Received(k)
  BY <1>5 DEF Received
<1>7. \A x \in Unacked(k) : x \in Unacked(l) \/ \E i \in 1..Len(acks) : acks[i] = x
  BY <1>4, <1>5 DEF Unacked
<1>8. Sending(p, l)
  BY <1>1, <1>3, <1>5 DEF Sending
<1>9. Receiving(p, l)
  BY <1>1, <1>5, <1>6 DEF Receiving
<1>10. Keyed(p, l)
  BY <1>1, <1>5 DEF Keyed
<1> QED
  BY <1>2, <1>5, <1>6, <1>7, <1>8, <1>9, <1>10 DEF Local

LEMMA StoredKeeps ==
  ASSUME NEW p \in Peers, NEW k, Local(p, k), NEW m \in Message,
         m.op # "ACK" => m.pid <= AllRecords(Other(p)) /\ m.data = m.pid
  PROVE  LET l == Stored(k, m)
         IN /\ Local(p, l) /\ Received(k) \subseteq Received(l)
            /\ l.pid = k.pid /\ Unacked(l) = Unacked(k)
            /\ l.in = k.in /\ l.out = k.out
            /\ \A x \in Received(l) : x \in Received(k) \/ (m.op # "ACK" /\ x = m.pid)
<1> DEFINE taken == /\ m.op # "ACK"
                    /\ Cardinality(k.held) < RecSize
                    /\ reliable_wont_break_sequentiality(k, m.pid)
           new == reliable_not_replay(k, m.pid)
           h == [pid |-> m.pid, data |-> m.data]
           held2 == IF new THEN k.held \cup {h} ELSE k.held
           a == [k EXCEPT !.held = held2]
           ack2 == IF ~Contains(k.ack, m.pid) /\ Len(k.ack) < AckSize
                   THEN Append(k.ack, m.pid) ELSE k.ack
           l == [k EXCEPT !.held = held2, !.ack = ack2]
<1>1. k \in KeyState /\ Sending(p, k) /\ Receiving(p, k) /\ Keyed(p, k)
  BY DEF Local
<1>2. CASE ~taken
  <2>1. Stored(k, m) = k
    BY <1>2 DEF Stored
  <2> QED
    BY <1>1, <2>1
<1>3. CASE taken
  <2>1. /\ k.held \in SUBSET Held /\ k.recPid \in Nat /\ m.pid \in Nat
        /\ k.ack \in Seq(Nat) /\ m.data = m.pid /\ m.pid <= AllRecords(Other(p))
    BY <1>1, <1>3 DEF KeyState, Message
  <2>2. h \in Held /\ h.pid = m.pid /\ h.data = m.pid
    BY <2>1 DEF Held
  <2>3. held2 \in SUBSET Held
    BY <2>1, <2>2
  <2>4. a \in KeyState /\ a.ack = k.ack
    BY <1>1, <2>3 DEF KeyState
  <2>5. a = IF new THEN [k EXCEPT !.held = @ \cup {h}] ELSE k
    BY <1>1 DEF KeyState
  <2>6. Stored(k, m) = l
    <3>1. Stored(k, m) = reliable_ack_acknowledge_packet_id(a, m.pid)
      <4> HIDE DEF a
      <4> QED
        BY <1>3, <2>5 DEF Stored
    <3>2. reliable_ack_acknowledge_packet_id(a, m.pid) = [a EXCEPT !.ack = ack2]
      <4> HIDE DEF a
      <4> QED
        BY <2>4 DEF reliable_ack_acknowledge_packet_id, KeyState
    <3>3. [a EXCEPT !.ack = ack2] = l
      <4> HIDE DEF held2, ack2
      <4> QED
        BY <1>1 DEF KeyState
    <3> QED
      BY <3>1, <3>2, <3>3
  <2>7. ack2 \in Seq(Nat)
    BY <2>1
  <2>8. /\ k.held \subseteq held2
        /\ \A e \in held2 : e \in k.held \/ (new /\ e = h)
        /\ new => h \in held2
    OBVIOUS
  <2>9. /\ Len(ack2) \in Nat
        /\ \A i \in 1..Len(ack2) : ack2[i] = m.pid \/ \E j \in 1..Len(k.ack) : ack2[i] = k.ack[j]
    <3>1. CASE ack2 = k.ack
      BY <2>1, <3>1
    <3>2. CASE ack2 = Append(k.ack, m.pid)
      <4> HIDE DEF ack2
      <4>1. Len(ack2) = Len(k.ack) + 1 /\ Len(k.ack) \in Nat
        BY <2>1, <3>2
      <4>2. \A i \in 1..Len(k.ack) : ack2[i] = k.ack[i]
        BY <2>1, <3>2
      <4>3. ack2[Len(k.ack) + 1] = m.pid
        BY <2>1, <3>2
      <4>4. \A i \in 1..Len(ack2) : i \in 1..Len(k.ack) \/ i = Len(k.ack) + 1
        BY <4>1
      <4> QED
        BY <4>1, <4>2, <4>3, <4>4
    <3> QED
      BY <3>1, <3>2
  <2>10. k.recPid <= AllRecords(Other(p)) + 1
    <3>1. k.recPid > 0 => k.recPid - 1 \in Received(k)
      BY <2>1 DEF Received
    <3>2. AllRecords(Other(p)) \in Nat
      BY LimitsOther
    <3>3. k.recPid > 0 => k.recPid - 1 <= AllRecords(Other(p))
      BY <1>1, <3>1 DEF Receiving
    <3> QED
      BY <2>1, <3>2, <3>3
  <2>11. reliable_pid_min(m.pid, k.recPid) <=> m.pid < k.recPid
    <3> DEFINE all == AllRecords(Other(p))
    <3>1. /\ all \in Nat /\ Half \in Nat /\ PidMod = 2 * Half
          /\ SendSize \in Nat \ {0} /\ RecSize \in Nat /\ all + SendSize + RecSize + 1 <= Half
      BY LimitsOther
    <3>2. m.pid <= all /\ k.recPid <= all + 1
      BY <2>1, <2>10
    <3> HIDE DEF all
    <3>3. m.pid < Half /\ k.recPid < Half
      BY <2>1, <3>1, <3>2
    <3> QED
      BY <2>1, <3>1, <3>3, PidMin
  <2>12. new => m.pid >= k.recPid
    BY <2>1, <2>11 DEF reliable_not_replay
  <2>13. ~new => m.pid \in Received(k)
    BY <2>1, <2>11 DEF reliable_not_replay, Received
  <2> HIDE DEF held2, ack2, h, new
  <2>14. /\ l \in KeyState /\ l.state = k.state /\ l.pid = k.pid /\ l.recPid = k.recPid
         /\ l.held = held2 /\ l.in = k.in /\ l.out = k.out /\ l.send = k.send /\ l.ack = ack2
    <3>1. l \in KeyState
      BY <1>1, <2>3, <2>7 DEF KeyState
    <3> QED
      BY <1>1, <3>1 DEF KeyState
  <2> HIDE DEF l
  <2>15. Received(k) \subseteq Received(l) /\ m.pid \in Received(l)
    BY <2>2, <2>8, <2>13, <2>14 DEF Received
  <2>16. \A x \in Received(l) : x \in Received(k) \/ x = m.pid
    BY <2>2, <2>8, <2>14 DEF Received
  <2>17. Unacked(l) = Unacked(k)
    BY <2>14 DEF Unacked
  <2>18. Sending(p, l)
    BY <1>1, <2>14 DEF Sending
  <2>19. Receiving(p, l)
    <3>1. \A e \in l.held : e.pid >= k.recPid /\ e.data = e.pid
      BY <1>1, <2>2, <2>8, <2>12, <2>14 DEF Receiving
    <3>2. \A i \in 1..Len(l.ack) : l.ack[i] \in Received(l)
      BY <1>1, <2>9, <2>14, <2>15 DEF Receiving
    <3>3. \A x \in Received(l) : x <= AllRecords(Other(p))
      BY <1>1, <2>1, <2>16 DEF Receiving
    <3>4. Counting(l.in) /\ Len(l.in) = (IF l.recPid = 0 THEN 0 ELSE l.recPid - 1)
      BY <1>1, <2>14 DEF Receiving
    <3> QED
      BY <2>14, <3>1, <3>2, <3>3, <3>4 DEF Receiving
  <2>20. Keyed(p, l)
    BY <1>1, <2>14 DEF Keyed
  <2> QED
    BY <1>3, <2>6, <2>14, <2>15, <2>16, <2>17, <2>18, <2>19, <2>20 DEF Local
<1> QED
  BY <1>2, <1>3

\* A packet arrives: what it acknowledges was received, and what it carries was
\* sent.
LEMMA PreDecryptKeeps ==
  ASSUME ControlInv, NEW p \in Peers, tls_pre_decrypt(p)
  PROVE  ControlInv' /\ Advances(p)
<1> DEFINE k == ks[p]
           o == ks[Other(p)]
           m == Head(net[p])
           t == Tail(net[p])
           a == Linked(k)
           b == reliable_send_purge(a, m.acks)
           c == Stored(b, m)
           d == [c EXCEPT !.woken = TRUE]
           l == IF Routed(k, m) THEN d ELSE k
<1>1. /\ ks \in [Peers -> KeyState] /\ net \in [Peers -> Seq(Message)]
      /\ Other(p) \in Peers /\ Other(p) # p
      /\ k \in KeyState /\ o \in KeyState /\ net[p] \in Seq(Message)
      /\ Local(p, k) /\ Local(Other(p), o) /\ Matching(k, o) /\ Matching(o, k)
      /\ \A i \in 1..Len(net[p]) : Genuine(net[p][i], o)
      /\ \A i \in 1..Len(net[Other(p)]) : Genuine(net[Other(p)][i], k)
      /\ call = NoCall \/ call \in [peer : Peers, busy : BOOLEAN]
  BY InvariantAt
<1>2. net[p] # <<>> /\ ks' = [ks EXCEPT ![p] = l] /\ net' = [net EXCEPT ![p] = t] /\ call' = call
  BY <1>1 DEF tls_pre_decrypt
<1>3. Genuine(m, o) /\ m \in Message
  <2>1. 1 \in 1..Len(net[p]) /\ m = net[p][1]
    BY <1>1, <1>2
  <2> QED
    BY <1>1, <2>1 DEF Genuine
<1>4. t \in Seq(Message) /\ \A i \in 1..Len(t) : Genuine(t[i], o)
  <2> DEFINE s == net[p]
  <2>1. s \in Seq(Message) /\ s # <<>> /\ t = Tail(s) /\ \A i \in 1..Len(s) : Genuine(s[i], o)
    BY <1>1, <1>2
  <2> HIDE DEF s, t, o
  <2>2. t \in Seq(Message) /\ Len(t) = Len(s) - 1 /\ Len(s) \in Nat
    BY <2>1
  <2>3. \A i \in 1..Len(t) : i + 1 \in 1..Len(s) /\ t[i] = s[i + 1]
    BY <2>1, <2>2
  <2> QED
    BY <2>1, <2>2, <2>3
<1> HIDE DEF k, o, m, t
<1>5. Local(p, a) /\ Grows(k, a) /\ Unacked(a) = Unacked(k) /\ a.pid = k.pid /\ a.in = k.in /\ a.out = k.out
  BY <1>1, LinkedKeeps
<1> HIDE DEF a
<1>6. m.acks \in Seq(Nat)
  BY <1>3 DEF Message
<1>7. /\ Local(p, b) /\ Received(b) = Received(a) /\ b.pid = a.pid
      /\ b.in = a.in /\ b.out = a.out
      /\ \A x \in Unacked(a) : x \in Unacked(b) \/ \E i \in 1..Len(m.acks) : m.acks[i] = x
  BY <1>5, <1>6, PurgeKeeps
<1> HIDE DEF b
<1>8. m.op # "ACK" => m.pid <= AllRecords(Other(p)) /\ m.data = m.pid /\ m.pid < o.pid
  <2>1. o.pid \in Nat /\ Len(o.out) \in Nat /\ m.pid \in Nat /\ Sending(Other(p), o)
    BY <1>1, <1>3 DEF KeyState, Message, Local
  <2>2. o.pid <= Len(o.out) + 1 /\ Len(o.out) <= AllRecords(Other(p))
    BY <2>1 DEF Sending
  <2>3. AllRecords(Other(p)) \in Nat
    BY <1>1, Limits
  <2>4. m.op # "ACK" => m.pid < o.pid /\ m.data = m.pid
    BY <1>3 DEF Genuine
  <2> QED
    BY <2>1, <2>2, <2>3, <2>4
<1>9. /\ Local(p, c) /\ Received(b) \subseteq Received(c)
      /\ c.pid = b.pid /\ Unacked(c) = Unacked(b)
      /\ c.in = b.in /\ c.out = b.out
      /\ \A x \in Received(c) : x \in Received(b) \/ (m.op # "ACK" /\ x = m.pid)
  BY <1>3, <1>7, <1>8, StoredKeeps
<1> HIDE DEF c
<1>10. /\ Local(p, d) /\ Received(d) = Received(c) /\ Unacked(d) = Unacked(c)
       /\ d.pid = c.pid /\ d.in = c.in /\ d.out = c.out
  <2>1. c \in KeyState /\ Keyed(p, c)
    BY <1>9 DEF Local
  <2>2. /\ d \in KeyState /\ d.state = c.state /\ d.pid = c.pid /\ d.send = c.send
        /\ d.recPid = c.recPid /\ d.held = c.held /\ d.ack = c.ack /\ d.in = c.in /\ d.out = c.out
    BY <2>1 DEF KeyState
  <2> HIDE DEF d
  <2>3. c.state >= (IF server(p) THEN S_SENT_KEY ELSE S_GOT_KEY) => Len(c.in) = AllRecords(Other(p))
    BY <2>1 DEF Keyed
  <2>4. Local(p, d)
    BY <1>9, <2>2, <2>3, StateOnly
  <2> QED
    BY <2>2, <2>4 DEF Received, Unacked
<1> HIDE DEF d
<1>11. /\ Local(p, l) /\ Received(k) \subseteq Received(l)
       /\ l.pid = k.pid /\ l.in = k.in /\ l.out = k.out
       /\ \A x \in Received(l) : x \in Received(k) \/ (m.op # "ACK" /\ x = m.pid)
       /\ \A x \in Unacked(k) : x \in Unacked(l) \/ \E i \in 1..Len(m.acks) : m.acks[i] = x
  <2>1. Received(a) = Received(k)
    BY <1>5 DEF Grows
  <2>2. CASE Routed(k, m)
    <3>1. l = d
      BY <2>2
    <3> HIDE DEF l
    <3> QED
      BY <1>5, <1>7, <1>9, <1>10, <2>1, <3>1
  <2>3. CASE ~Routed(k, m)
    <3>1. l = k
      BY <2>3
    <3> HIDE DEF l
    <3> QED
      BY <1>1, <3>1
  <2> QED
    BY <2>2, <2>3
<1> HIDE DEF l
<1>12. Matching(l, o)
  <2>1. \A x \in Received(o) : x < l.pid
    BY <1>1, <1>11 DEF Matching
  <2>2. \A i \in 1..Len(m.acks) : m.acks[i] \in Received(o)
    BY <1>3 DEF Genuine
  <2>3. \A x \in 0..(l.pid - 1) : x \in Unacked(l) \cup Received(o)
    <3>1. \A x \in 0..(k.pid - 1) : x \in Unacked(k) \cup Received(o)
      BY <1>1 DEF Matching
    <3>2. \A x \in Unacked(k) : x \in Unacked(l) \cup Received(o)
      BY <1>11, <2>2
    <3> QED
      BY <1>11, <3>1, <3>2
  <2> QED
    BY <2>1, <2>3 DEF Matching
<1>13. Matching(o, l)
  <2>1. \A x \in Received(l) : x < o.pid
    BY <1>1, <1>8, <1>11 DEF Matching
  <2>2. \A x \in 0..(o.pid - 1) : x \in Unacked(o) \cup Received(l)
    BY <1>1, <1>11 DEF Matching
  <2> QED
    BY <2>1, <2>2 DEF Matching
<1>14. l \in KeyState /\ k.pid \in Nat
  BY <1>1, <1>11 DEF Local, KeyState
<1>15. \A i \in 1..Len(net[Other(p)]) : Genuine(net[Other(p)][i], l)
  <2>1. k.pid <= l.pid
    BY <1>11, <1>14
  <2> QED
    BY <1>1, <1>11, <1>14, <2>1, GenuineGrows
<1>16. /\ ks' \in [Peers -> KeyState] /\ ks'[p] = l /\ ks'[Other(p)] = o
       /\ net' \in [Peers -> Seq(Message)] /\ net'[p] = t /\ net'[Other(p)] = net[Other(p)]
  <2>1. /\ ks' \in [Peers -> KeyState] /\ ks'[p] = l /\ ks'[Other(p)] = o
    BY <1>1, <1>2, <1>14 DEF o
  <2>2. /\ net' \in [Peers -> Seq(Message)] /\ net'[p] = t /\ net'[Other(p)] = net[Other(p)]
    BY <1>1, <1>2, <1>4
  <2> QED
    BY <2>1, <2>2
<1>17. ControlInv'
  <2>1. call' = NoCall \/ call' \in [peer : Peers, busy : BOOLEAN]
    BY <1>1, <1>2
  <2> QED
    BY <1>1, <1>4, <1>11, <1>12, <1>13, <1>15, <1>16, <2>1, InvariantOf
<1>18. Advances(p)
  <2>1. k \in KeyState
    BY <1>1
  <2>2. Len(k.in) \in Nat /\ Len(k.out) \in Nat
    BY <2>1 DEF KeyState
  <2> QED
    BY <1>2, <1>11, <1>16, <2>2 DEF Advances, k
<1> QED
  BY <1>17, <1>18

\* A retry falls due.
LEMMA NextTryKeeps ==
  ASSUME ControlInv, NEW p \in Peers, NextTry(p)
  PROVE  ControlInv' /\ Advances(p)
<1> DEFINE k == ks[p]
           noOut == <<>>
<1>1. /\ ks \in [Peers -> KeyState] /\ net \in [Peers -> Seq(Message)] /\ Other(p) \in Peers
      /\ k \in KeyState /\ Local(p, k) /\ net[Other(p)] \in Seq(Message)
      /\ call = NoCall \/ call \in [peer : Peers, busy : BOOLEAN]
  BY InvariantAt
<1>2. PICK e \in k.send :
        ks' = [ks EXCEPT ![p].send = (@ \ {e}) \cup {[e EXCEPT !.due = TRUE]}]
  BY DEF NextTry
<1> DEFINE s == (k.send \ {e}) \cup {[e EXCEPT !.due = TRUE]}
           l == [k EXCEPT !.send = s]
<1>3. ks' = [ks EXCEPT ![p] = l]
  BY <1>1, <1>2
<1>4. /\ s \in SUBSET Entry /\ {g.pid : g \in s} = Unacked(k)
      /\ \A g \in s : g.pid < k.pid /\ g.data = g.pid /\ k.pid <= g.pid + SendSize
      /\ \A g, h \in s : g.pid = h.pid => g = h
  BY <1>1, Marked
<1> HIDE DEF s, k
<1>5. /\ l \in KeyState /\ l.state = k.state /\ l.pid = k.pid /\ l.recPid = k.recPid
      /\ l.held = k.held /\ l.in = k.in /\ l.out = k.out /\ l.send = s /\ l.ack = k.ack
  <2>1. k \in KeyState
    BY <1>1
  <2>2. l \in KeyState
    BY <1>4, <2>1 DEF KeyState
  <2> QED
    BY <2>1, <2>2 DEF KeyState
<1> HIDE DEF l
<1>6. Unacked(l) = Unacked(k)
  BY <1>4, <1>5 DEF Unacked
<1>7. \A i \in 1..Len(l.ack) : l.ack[i] \in Received(k)
  BY <1>1, <1>5 DEF Local, Receiving
<1>8. Local(p, l) /\ Grows(k, l)
  BY <1>1, <1>4, <1>5, <1>6, <1>7, BuffersOnly
<1> HIDE DEF noOut
<1>9. noOut \in Seq(Message) /\ Len(noOut) = 0 /\ net[Other(p)] \o noOut = net[Other(p)]
  BY <1>1 DEF noOut
<1>10. \A i \in 1..Len(noOut) : Genuine(noOut[i], l)
  BY <1>9
<1>11. net' = net /\ call' = call
  BY DEF NextTry
<1>12. net' = [net EXCEPT ![Other(p)] = net[Other(p)] \o noOut]
  BY <1>1, <1>9, <1>11
<1>13. call' = NoCall \/ call' \in [peer : Peers, busy : BOOLEAN]
  BY <1>1, <1>11
<1> QED
  BY <1>3, <1>8, <1>9, <1>10, <1>12, <1>13, PeerStep DEF k

\* The network rearranges what is under way; it invents nothing.
LEMMA NetworkKeeps ==
  ASSUME ControlInv, NEW p \in Peers, Network(p)
  PROVE  ControlInv' /\ UNCHANGED ks
<1> DEFINE s == net[p]
           o == ks[Other(p)]
<1>1. /\ ks \in [Peers -> KeyState] /\ net \in [Peers -> Seq(Message)]
      /\ Other(p) \in Peers /\ Other(p) # p /\ s \in Seq(Message)
      /\ Local(p, ks[p]) /\ Local(Other(p), o) /\ Matching(ks[p], o) /\ Matching(o, ks[p])
      /\ \A i \in 1..Len(s) : Genuine(s[i], o)
      /\ \A i \in 1..Len(net[Other(p)]) : Genuine(net[Other(p)][i], ks[p])
      /\ call = NoCall \/ call \in [peer : Peers, busy : BOOLEAN]
  BY InvariantAt
<1>2. /\ s # <<>>
      /\ Fault(p, Tail(s)) \/ Fault(p, Append(s, Head(s))) \/ Fault(p, Append(Tail(s), Head(s)))
  <2>1. Len(s) > 1 => s # <<>>
    BY <1>1
  <2> QED
    BY <2>1 DEF Network, Lose, Repeat, Overtake
<1>3. ASSUME NEW t \in Seq(Message), Fault(p, t), \A i \in 1..Len(t) : \E j \in 1..Len(s) : t[i] = s[j]
      PROVE  ControlInv' /\ UNCHANGED ks
  <2>1. ks' = ks /\ call' = call /\ net' = [net EXCEPT ![p] = t]
    BY <1>3 DEF Fault
  <2>2. net' \in [Peers -> Seq(Message)] /\ net'[p] = t /\ net'[Other(p)] = net[Other(p)]
    BY <1>1, <2>1
  <2>3. \A i \in 1..Len(t) : Genuine(t[i], o)
    BY <1>1, <1>3
  <2>4. ControlInv'
    BY <1>1, <2>1, <2>2, <2>3, InvariantOf
  <2> QED
    BY <2>1, <2>4
<1> HIDE DEF s
<1>4. /\ Tail(s) \in Seq(Message) /\ Len(Tail(s)) = Len(s) - 1 /\ Len(s) \in Nat \ {0}
      /\ \A i \in 1..(Len(s) - 1) : i + 1 \in 1..Len(s) /\ Tail(s)[i] = s[i + 1]
      /\ Head(s) \in Message /\ Head(s) = s[1] /\ 1 \in 1..Len(s)
  <2>1. s # <<>> /\ s \in Seq(Message)
    BY <1>1, <1>2
  <2>2. Len(s) \in Nat \ {0} /\ Head(s) = s[1] /\ 1 \in 1..Len(s)
    BY <2>1
  <2>3. Head(s) \in Message
    BY <2>1, <2>2
  <2>4. Tail(s) \in Seq(Message) /\ Len(Tail(s)) = Len(s) - 1
    BY <2>1
  <2>5. \A i \in 1..(Len(s) - 1) : i + 1 \in 1..Len(s) /\ Tail(s)[i] = s[i + 1]
    BY <2>1, <2>2, <2>4
  <2> QED
    BY <2>2, <2>3, <2>4, <2>5
<1>5. ASSUME NEW u \in Seq(Message), \A i \in 1..Len(u) : \E j \in 1..Len(s) : u[i] = s[j]
      PROVE  LET t == Append(u, Head(s))
             IN t \in Seq(Message) /\ \A i \in 1..Len(t) : \E j \in 1..Len(s) : t[i] = s[j]
  <2> DEFINE t == Append(u, Head(s))
  <2>1. t \in Seq(Message) /\ Len(t) = Len(u) + 1 /\ Len(u) \in Nat
    BY <1>4
  <2>2. t[Len(u) + 1] = s[1] /\ \A i \in 1..Len(u) : t[i] = u[i]
    BY <1>4
  <2> HIDE DEF t
  <2>3. \A i \in 1..Len(t) : i \in 1..Len(u) \/ i = Len(u) + 1
    BY <2>1
  <2>4. \A i \in 1..Len(t) : \E j \in 1..Len(s) : t[i] = s[j]
    BY <1>4, <1>5, <2>2, <2>3
  <2> QED
    BY <2>1, <2>4 DEF t
<1>6. \A i \in 1..Len(Tail(s)) : \E j \in 1..Len(s) : Tail(s)[i] = s[j]
  BY <1>4
<1>7. \A i \in 1..Len(s) : \E j \in 1..Len(s) : s[i] = s[j]
  OBVIOUS
<1>8. CASE Fault(p, Tail(s))
  BY <1>3, <1>4, <1>6, <1>8
<1>9. CASE Fault(p, Append(s, Head(s)))
  BY <1>1, <1>3, <1>5, <1>7, <1>9
<1>10. CASE Fault(p, Append(Tail(s), Head(s)))
  BY <1>3, <1>4, <1>5, <1>6, <1>10
<1> QED
  BY <1>2, <1>8, <1>9, <1>10

LEMMA ControlInitial == ControlInit => ControlInv
<1> SUFFICES ASSUME ControlInit PROVE ControlInv
  OBVIOUS
<1> DEFINE k == key_state_init
<1>1. /\ k.state = S_INITIAL /\ k.pid = 0 /\ k.send = {} /\ k.recPid = 0 /\ k.held = {}
      /\ k.ack = <<>> /\ k.in = <<>> /\ k.out = <<>> /\ k.keyWritten = FALSE
  BY DEF key_state_init
<1>2. k \in KeyState
  <2>1. S_INITIAL \in {S_ERROR} \cup (S_INITIAL..S_NORMAL_OP)
    BY DEF S_INITIAL, S_NORMAL_OP
  <2>2. <<>> \in Seq(Nat)
    OBVIOUS
  <2> QED
    BY <2>1, <2>2 DEF key_state_init, KeyState
<1> HIDE DEF k
<1>3. Received(k) = {} /\ Unacked(k) = {} /\ Len(k.in) = 0 /\ Len(k.out) = 0 /\ Len(k.ack) = 0
  BY <1>1 DEF Received, Unacked
<1>4. \A p \in Peers : Local(p, k)
  <2> SUFFICES ASSUME NEW p \in Peers PROVE Local(p, k)
    OBVIOUS
  <2>1. AllRecords(p) \in Nat \ {0} /\ AllRecords(Other(p)) \in Nat \ {0}
    BY PeerFacts, Limits
  <2>2. Sending(p, k)
    BY <1>1, <1>3, <2>1 DEF Sending, Counting
  <2>3. Receiving(p, k)
    BY <1>1, <1>3, <2>1 DEF Receiving, Counting
  <2>4. Keyed(p, k)
    BY <1>1, <1>3, <2>1 DEF Keyed, S_INITIAL, S_SENT_KEY, S_GOT_KEY
  <2> QED
    BY <1>2, <2>2, <2>3, <2>4 DEF Local
<1>5. Matching(k, k)
  BY <1>1, <1>3 DEF Matching
<1>6. \A p \in Peers : ks[p] = k /\ ks[Other(p)] = k /\ net[p] = <<>>
  BY PeerFacts DEF ControlInit, k
<1>7. ControlTypes
  <2>1. <<>> \in Seq(Message)
    OBVIOUS
  <2> QED
    BY <1>2, <2>1 DEF ControlTypes, ControlInit, k
<1>8. \A p \in Peers : Local(p, ks[p])
  BY <1>4, <1>6
<1>9. \A p \in Peers : Matching(ks[p], ks[Other(p)])
  BY <1>5, <1>6
<1>10. \A p \in Peers : \A i \in 1..Len(net[p]) : Genuine(net[p][i], ks[Other(p)])
  BY <1>6
<1> QED
  BY <1>7, <1>8, <1>9, <1>10 DEF ControlInv

\* A step of the channel: the invariant is kept, and one peer's streams grow.
LEMMA ControlStep ==
  ASSUME ControlInv, ControlNext
  PROVE  ControlInv' /\ (UNCHANGED ks \/ \E p \in Peers : Advances(p))
<1>1. PICK p \in Peers : \/ tls_process(p) \/ tls_pre_decrypt(p)
                         \/ NextTry(p) \/ WindowPasses(p) \/ Network(p)
  BY DEF ControlNext
<1>2. CASE tls_process(p)
  <2>1. PICK busy \in BOOLEAN : Turn(p, busy)
    <3>1. CASE \E b \in BOOLEAN : Begin(p, b)
      BY <3>1 DEF Begin
    <3>2. CASE Continue(p)
      <4>1. call = NoCall \/ call \in [peer : Peers, busy : BOOLEAN]
        BY InvariantAt
      <4>2. call.busy \in BOOLEAN
        <5>1. CASE call = NoCall
          BY <5>1, Zenon DEF NoCall
        <5>2. CASE call \in [peer : Peers, busy : BOOLEAN]
          BY <5>2
        <5> QED
          BY <4>1, <5>1, <5>2
      <4> QED
        BY <3>2, <4>2 DEF Continue
    <3> QED
      BY <1>2, <3>1, <3>2 DEF tls_process
  <2> QED
    BY <2>1, TurnKeeps
<1>3. CASE tls_pre_decrypt(p)
  BY <1>3, PreDecryptKeeps
<1>4. CASE NextTry(p)
  BY <1>4, NextTryKeeps
<1>5. CASE WindowPasses(p)
  BY <1>5 DEF WindowPasses, ControlInv, ControlTypes
<1>6. CASE Network(p)
  BY <1>6, NetworkKeeps
<1> QED
  BY <1>1, <1>2, <1>3, <1>4, <1>5, <1>6

LEMMA ControlInvariant == ControlSpec => []ControlInv
<1>1. ControlInv /\ [ControlNext]_controlVars => ControlInv'
  <2>1. ASSUME ControlInv, UNCHANGED controlVars PROVE ControlInv'
    BY <2>1 DEF controlVars, ControlInv, ControlTypes
  <2> QED
    BY <2>1, ControlStep
<1> QED
  BY <1>1, ControlInitial, PTL DEF ControlSpec

\* What a peer has received went into its TLS object or is held.
LEMMA ReceivedIsGot ==
  ASSUME NEW p \in Peers, Local(p, ks[p])
  PROVE  Received(ks[p]) \subseteq Got(p)
<1> DEFINE k == ks[p]
<1>1. k \in KeyState /\ Receiving(p, k)
  BY DEF Local
<1>2. k.recPid \in Nat /\ k.held \in SUBSET Held /\ k.in \in Seq(Nat)
  BY <1>1 DEF KeyState
<1>3. \A e \in k.held : e.pid \in {f.data : f \in k.held}
  BY <1>1 DEF Receiving
<1> SUFFICES ASSUME NEW x \in Received(k) PROVE x \in Got(p)
  OBVIOUS
<1>4. CASE x \in {e.pid : e \in k.held}
  BY <1>3, <1>4 DEF Got
<1>5. CASE x \in 0..(k.recPid - 1) /\ x = 0
  BY <1>2, <1>5 DEF Got
<1>6. CASE x \in 0..(k.recPid - 1) /\ x # 0
  <2>1. x \in 1..Len(k.in)
    BY <1>1, <1>2, <1>6 DEF Receiving
  <2>2. k.in[x] = x
    BY <1>1, <2>1 DEF Receiving, Counting
  <2>3. x \in Range(k.in)
    <3>1. DOMAIN k.in = 1..Len(k.in)
      BY <1>2
    <3> QED
      BY <2>1, <2>2, <3>1 DEF Range
  <2> QED
    BY <2>3 DEF Got
<1> QED
  BY <1>4, <1>5, <1>6 DEF Received

\* A packet leaves send_reliable only when the peer's rec_reliable or TLS
\* object has it (ReleasedIsReceived), for all sizes of the buffers, all
\* negotiations and all behaviours of the network: what is acknowledged was
\* received (Genuine), and received packets are not forgotten.
THEOREM Released == ControlSpec => []ReleasedIsReceived
<1>1. ControlInv => ReleasedIsReceived
  <2> SUFFICES ASSUME ControlInv, NEW p \in Peers
               PROVE  Made(p) \subseteq {e.data : e \in ks[p].send} \cup Got(Other(p))
    BY DEF ReleasedIsReceived
  <2> DEFINE k == ks[p]
             o == ks[Other(p)]
  <2>1. k \in KeyState /\ Local(p, k) /\ Local(Other(p), o) /\ Matching(k, o) /\ Other(p) \in Peers
    BY InvariantAt
  <2>2. Sending(p, k)
    BY <2>1 DEF Local
  <2>3. k.pid \in Nat /\ k.out \in Seq(Nat) /\ Len(k.out) \in Nat
    <3>1. k \in KeyState
      BY <2>1
    <3> QED
      BY <3>1 DEF KeyState
  <2>4. \A x \in Made(p) : x \in 0..(k.pid - 1)
    <3> SUFFICES ASSUME NEW x \in Made(p) PROVE x \in 0..(k.pid - 1)
      OBVIOUS
    <3>1. CASE x \in Range(k.out)
      <4>1. PICK i \in 1..Len(k.out) : x = k.out[i]
        BY <2>3, <3>1 DEF Range
      <4>2. x = i
        BY <2>2, <4>1 DEF Sending, Counting
      <4>3. k.state # S_INITIAL
        BY <2>2, <2>3, <4>1 DEF Sending
      <4>4. k.pid = Len(k.out) + 1
        BY <2>2, <4>3 DEF Sending
      <4> QED
        BY <2>3, <4>1, <4>2, <4>4
    <3>2. CASE x \notin Range(k.out)
      <4>1. x = 0 /\ k.state # S_INITIAL
        BY <3>2 DEF Made
      <4>2. k.pid = Len(k.out) + 1
        BY <2>2, <4>1 DEF Sending
      <4> QED
        BY <2>3, <4>1, <4>2
    <3> QED
      BY <3>1, <3>2
  <2>5. Unacked(k) \subseteq {e.data : e \in k.send}
    BY <2>2 DEF Sending, Unacked
  <2>6. Received(o) \subseteq Got(Other(p))
    BY <2>1, ReceivedIsGot
  <2> QED
    BY <2>1, <2>4, <2>5, <2>6 DEF Matching
<1> QED
  BY <1>1, ControlInvariant, PTL

\* A peer that uses the new key has the other's, and a client's server has the
\* client's (ActiveIsKeyed): the server's last record, which the client needs for
\* S_GOT_KEY, is not made before the client's last record went in.
THEOREM Keys == ControlSpec => []ActiveIsKeyed
<1>1. ControlInv => ActiveIsKeyed
  <2> SUFFICES ASSUME ControlInv PROVE ActiveIsKeyed
    OBVIOUS
  <2>1. ASSUME NEW p \in Peers, ks[p].state >= S_ACTIVE PROVE Len(ks[p].in) = AllRecords(Other(p))
    <3>1. ks[p] \in KeyState /\ Keyed(p, ks[p])
      BY InvariantAt DEF Local
    <3>2. ks[p].state \in Int
      BY <3>1 DEF KeyState, S_ERROR, S_INITIAL, S_NORMAL_OP
    <3> QED
      BY <2>1, <3>1, <3>2 DEF Keyed, S_ACTIVE, S_SENT_KEY, S_GOT_KEY
  <2>2. ASSUME ks["client"].state >= S_ACTIVE PROVE Records("client") \subseteq Got("server")
    <3> DEFINE c == ks["client"]
               s == ks["server"]
    <3>1. "client" \in Peers /\ "server" \in Peers /\ Other("client") = "server" /\ Other("server") = "client"
      BY DEF Peers, Other
    <3>2. /\ c \in KeyState /\ Local("client", c) /\ s \in KeyState /\ Local("server", s)
          /\ Matching(s, c)
      BY <3>1, InvariantAt
    <3>3. Receiving("client", c) /\ Sending("server", s) /\ Keyed("server", s) /\ Receiving("server", s)
      BY <3>2 DEF Local
    <3>4. AllRecords("server") \in Nat \ {0} /\ AllRecords("client") \in Nat \ {0}
      BY <3>1, Limits
    <3>5. Len(c.in) = AllRecords("server")
      BY <2>1, <2>2, <3>1
    <3>6. c.recPid \in Nat /\ s.recPid \in Nat /\ s.pid \in Nat /\ Len(s.out) \in Nat
      <4>1. c \in KeyState /\ s \in KeyState
        BY <3>2
      <4> HIDE DEF c, s
      <4> QED
        BY <4>1 DEF KeyState
    <3>7. AllRecords("server") \in 0..(c.recPid - 1)
      BY <3>3, <3>4, <3>5, <3>6 DEF Receiving
    <3>8. AllRecords("server") < s.pid
      BY <3>2, <3>7 DEF Matching, Received
    <3>9. Len(s.out) = AllRecords("server")
      BY <3>3, <3>4, <3>6, <3>8 DEF Sending
    <3>10. Len(s.in) = AllRecords("client")
      BY <3>1, <3>3, <3>9 DEF Keyed, server
    <3>11. Records("client") \subseteq 0..(s.recPid - 1)
      BY <3>3, <3>4, <3>6, <3>10 DEF Records, Receiving
    <3>12. Received(s) \subseteq Got("server")
      BY <3>1, <3>2, ReceivedIsGot
    <3> QED
      BY <3>11, <3>12 DEF Received
  <2> QED
    BY <2>1, <2>2 DEF ActiveIsKeyed
<1> QED
  BY <1>1, ControlInvariant, PTL

\* While the next packet in order is missing, rec_reliable takes every packet
\* that is still needed (NeededIsAccepted): the missing packet holds the sender's
\* window in place, and the receiver's is as large.
THEOREM Accepted == ControlSpec => []NeededIsAccepted
<1>1. ControlInv => NeededIsAccepted
  <2> SUFFICES ASSUME ControlInv, NEW p \in Peers, NEW m \in Range(net[p]), m.op # "ACK",
                      reliable_not_replay(ks[p], m.pid),
                      \A e \in ks[p].held : e.pid # ks[p].recPid
               PROVE  /\ Cardinality(ks[p].held) < RecSize
                      /\ reliable_wont_break_sequentiality(ks[p], m.pid)
    BY DEF NeededIsAccepted
  <2> DEFINE k == ks[p]
             o == ks[Other(p)]
             r == k.recPid
             all == AllRecords(Other(p))
  <2>1. /\ k \in KeyState /\ o \in KeyState /\ Local(p, k) /\ Local(Other(p), o)
        /\ Matching(o, k) /\ Other(p) \in Peers /\ net[p] \in Seq(Message)
        /\ \A i \in 1..Len(net[p]) : Genuine(net[p][i], o)
    BY InvariantAt
  <2>2. Genuine(m, o) /\ m \in Message
    <3>1. PICK i \in 1..Len(net[p]) : m = net[p][i]
      BY <2>1 DEF Range
    <3> QED
      BY <2>1, <3>1 DEF Genuine
  <2>3. Sending(Other(p), o) /\ Receiving(p, k)
    BY <2>1 DEF Local
  <2>4. k \in KeyState /\ o \in KeyState
    BY <2>1
  <2>5. r \in Nat /\ k.held \in SUBSET Held /\ o.pid \in Nat /\ Len(o.out) \in Nat
    <3> HIDE DEF k, o
    <3> QED
      BY <2>4 DEF KeyState
  <2>6. m.pid \in Nat /\ m.pid < o.pid
    BY <2>2 DEF Genuine, Message
  <2>7. /\ all \in Nat /\ Half \in Nat /\ PidMod = 2 * Half
        /\ SendSize \in Nat \ {0} /\ RecSize \in Nat /\ SendSize <= RecSize
        /\ all + SendSize + RecSize + 1 <= Half
    BY <2>1, Limits
  <2>8. o.pid <= all + 1
    <3>1. o.pid <= Len(o.out) + 1 /\ Len(o.out) <= all
      BY <2>3, <2>5 DEF Sending
    <3> DEFINE x == o.pid
               y == Len(o.out)
    <3>2. x \in Nat /\ y \in Nat /\ x <= y + 1 /\ y <= all
      BY <2>5, <3>1
    <3> HIDE DEF all, x, y
    <3>3. x <= all + 1
      BY <2>7, <3>2
    <3> QED
      BY <3>3 DEF x
  <2>9. r <= o.pid
    <3>1. r > 0 => r - 1 \in Received(k)
      BY <2>5 DEF Received
    <3> QED
      BY <2>1, <2>5, <3>1 DEF Matching
  <2> HIDE DEF all
  <2>10. m.pid >= r
    <3>1. m.pid < Half /\ r < Half
      BY <2>5, <2>6, <2>7, <2>8, <2>9
    <3>2. reliable_pid_min(m.pid, r) <=> m.pid < r
      BY <2>5, <2>6, <2>7, <3>1, PidMin
    <3> QED
      BY <2>5, <2>6, <3>2 DEF reliable_not_replay
  <2>11. o.pid <= r + SendSize
    <3>1. r \in 0..(o.pid - 1)
      BY <2>5, <2>6, <2>10
    <3>2. r \notin Received(k)
      BY <2>5 DEF Received
    <3>3. r \in Unacked(o)
      BY <2>1, <3>1, <3>2 DEF Matching
    <3>4. PICK e \in o.send : e.pid = r
      BY <3>3 DEF Unacked
    <3> QED
      BY <2>3, <3>4 DEF Sending
  <2>12. reliable_wont_break_sequentiality(k, m.pid)
    <3>1. m.pid < r + RecSize /\ r + RecSize < PidMod /\ PidMod \in Nat
      <4> DEFINE x == o.pid
                 y == m.pid
      <4>1. /\ x \in Nat /\ y \in Nat /\ r \in Nat /\ y < x /\ r <= x
            /\ x <= all + 1 /\ x <= r + SendSize
        BY <2>5, <2>6, <2>8, <2>9, <2>11
      <4> HIDE DEF r, x, y
      <4>2. y < r + RecSize /\ r + RecSize < PidMod /\ PidMod \in Nat
        BY <2>7, <4>1
      <4> QED
        BY <4>2 DEF y
    <3> QED
      BY <2>5, <2>6, <2>7, <3>1, PidInWindow DEF reliable_wont_break_sequentiality
  <2>13. Cardinality(k.held) < RecSize
    <3> DEFINE f == [e \in k.held |-> e.pid]
               T == (r + 1)..(o.pid - 1)
    <3>1. \A e \in k.held : e.pid \in Nat /\ e.pid >= r /\ e.pid # r /\ e.pid < o.pid
      <4>1. \A e \in k.held : e.pid \in Received(k)
        BY DEF Received
      <4>2. \A e \in k.held : e.pid < o.pid
        BY <2>1, <4>1 DEF Matching
      <4>3. \A e \in k.held : e.pid \in Nat
        BY <2>5 DEF Held
      <4> QED
        BY <2>3, <4>2, <4>3 DEF Receiving
    <3>2. f \in [k.held -> T]
      BY <2>5, <3>1
    <3>3. \A e, g \in k.held : e.pid = g.pid => e = g
      <4>1. \A e \in k.held : e = [pid |-> e.pid, data |-> e.data] /\ e.data = e.pid
        BY <2>3, <2>5 DEF Held, Receiving
      <4> QED
        BY <4>1
    <3>4. f \in Injection(k.held, T)
      BY <3>2, <3>3 DEF Injection, IsInjective
    <3>5. IsFiniteSet(T) /\ Cardinality(T) \in Nat /\ Cardinality(T) < RecSize
      <4> DEFINE a == r + 1
                 b == o.pid - 1
      <4>1. a \in Int /\ b \in Int /\ b - a + 1 < RecSize /\ 0 < RecSize
        BY <2>5, <2>7, <2>11
      <4> HIDE DEF a, b
      <4>2. IsFiniteSet(a..b) /\ Cardinality(a..b) = IF a > b THEN 0 ELSE b - a + 1
        BY <4>1, FS_Interval
      <4>3. Cardinality(a..b) \in Nat /\ Cardinality(a..b) < RecSize
        BY <2>7, <4>1, <4>2
      <4> QED
        BY <4>2, <4>3 DEF a, b
    <3> HIDE DEF T, f
    <3>6. Cardinality(k.held) <= Cardinality(T) /\ IsFiniteSet(k.held)
      BY <3>4, <3>5, FS_Injection
    <3>7. Cardinality(k.held) \in Nat
      BY <3>6, FS_CardinalityType
    <3> QED
      BY <2>7, <3>5, <3>6, <3>7
  <2> QED
    BY <2>12, <2>13
<1> QED
  BY <1>1, ControlInvariant, PTL

\* A stream that counts is a prefix of every longer one.
LEMMA CountingPrefix ==
  ASSUME NEW s \in Seq(Nat), NEW t \in Seq(Nat), Counting(s), Counting(t), Len(s) <= Len(t)
  PROVE  Stream!IsPrefix(s, t)
<1>1. SubSeq(s, 1, Len(s)) = SubSeq(t, 1, Len(s))
  <2> DEFINE n == Len(s)
  <2>1. n \in Nat /\ Len(t) \in Nat
    OBVIOUS
  <2>2. SubSeq(s, 1, n) = [i \in 1..n |-> s[i]]
    OBVIOUS
  <2>3. SubSeq(t, 1, n) = [i \in 1..n |-> t[i]]
    BY <2>1
  <2>4. \A i \in 1..n : s[i] = t[i]
    BY <2>1 DEF Counting
  <2> QED
    BY <2>2, <2>3, <2>4
<1> QED
  BY <1>1 DEF Stream!IsPrefix

\* What a peer has taken of the other's stream was produced before.
LEMMA TakenWasSent ==
  ASSUME NEW p \in Peers, NEW k, NEW o, Local(p, k), Local(Other(p), o), Matching(o, k)
  PROVE  Len(k.in) <= Len(o.out)
<1>1. k \in KeyState /\ Receiving(p, k) /\ o \in KeyState /\ Sending(Other(p), o)
  BY DEF Local
<1>2. k.recPid \in Nat /\ o.pid \in Nat /\ Len(o.out) \in Nat /\ Len(k.in) \in Nat
  BY <1>1 DEF KeyState
<1>3. CASE k.recPid = 0
  BY <1>1, <1>2, <1>3 DEF Receiving
<1>4. CASE k.recPid > 0
  <2>1. k.recPid - 1 < o.pid
    BY <1>2, <1>4 DEF Matching, Received
  <2>2. o.pid <= Len(o.out) + 1
    BY <1>1, <1>2 DEF Sending
  <2> QED
    BY <1>1, <1>2, <1>4, <2>1, <2>2 DEF Receiving
<1> QED
  BY <1>2, <1>3, <1>4

\* The reliability layer implements the two streams (ImplementsStream): every
\* step of the channel is a step of ReliableStream or leaves the streams alone.
THEOREM Refinement == ControlSpec => ImplementsStream
<1> DEFINE made == [p \in Peers |-> ks[p].out]
           consumed == [p \in Peers |-> ks[p].in]
<1>1. ControlInit => Stream!Init
  BY DEF ControlInit, key_state_init, Stream!Init
<1>2. ASSUME ControlInv, ControlInv', NEW p \in Peers, Advances(p)
      PROVE  Stream!Exchange(p)
  <2> DEFINE k == ks[p]
             l == ks'[p]
             o == ks[Other(p)]
  <2>1. /\ ks \in [Peers -> KeyState] /\ k \in KeyState /\ Local(p, k)
        /\ Other(p) \in Peers /\ Other(p) # p /\ o \in KeyState /\ Local(Other(p), o)
    BY <1>2, InvariantAt
  <2>2. \A q \in Peers : q # p => ks'[q] = ks[q]
    BY <1>2, <2>1 DEF Advances
  <2>3. l \in KeyState /\ Local(p, l) /\ Matching(o, l)
    <3>1. Local(p, l)
      BY <1>2 DEF ControlInv
    <3>2. Matching(ks'[Other(p)], ks'[Other(Other(p))])
      BY <1>2, <2>1 DEF ControlInv
    <3>3. Other(Other(p)) = p
      BY PeerFacts
    <3> QED
      BY <2>1, <2>2, <3>1, <3>2, <3>3 DEF Local
  <2>4. /\ Counting(k.out) /\ Counting(k.in) /\ Counting(l.out) /\ Counting(l.in) /\ Counting(o.out)
    BY <2>1, <2>3 DEF Local, Sending, Receiving
  <2>5. /\ k.out \in Seq(Nat) /\ k.in \in Seq(Nat) /\ l.out \in Seq(Nat) /\ l.in \in Seq(Nat)
        /\ o.out \in Seq(Nat)
    <3>1. k \in KeyState /\ l \in KeyState /\ o \in KeyState
      BY <2>1, <2>3
    <3> HIDE DEF k, l, o
    <3> QED
      BY <3>1 DEF KeyState
  <2>6. Len(l.in) <= Len(o.out)
    BY <2>1, <2>3, TakenWasSent
  <2>7. Len(k.out) <= Len(l.out) /\ Len(k.in) <= Len(l.in)
    BY <1>2 DEF Advances
  <2>8. /\ Stream!IsPrefix(k.out, l.out) /\ Stream!IsPrefix(k.in, l.in)
        /\ Stream!IsPrefix(l.in, o.out)
    <3> HIDE DEF k, l, o
    <3> QED
      BY <2>4, <2>5, <2>6, <2>7, CountingPrefix
  <2>9. /\ made[p] = k.out /\ made'[p] = l.out /\ consumed[p] = k.in /\ consumed'[p] = l.in
        /\ made[Other(p)] = o.out
    BY <2>1
  <2>10. \A q \in Peers \ {p} : made'[q] = made[q] /\ consumed'[q] = consumed[q]
    BY <2>2
  <2> QED
    BY <2>8, <2>9, <2>10 DEF Stream!Exchange
<1>3. ControlInv /\ ControlInv' /\ [ControlNext]_controlVars => [Stream!Next]_<<made, consumed>>
  <2> SUFFICES ASSUME ControlInv, ControlInv', [ControlNext]_controlVars
               PROVE  [Stream!Next]_<<made, consumed>>
    OBVIOUS
  <2>1. CASE UNCHANGED ks
    BY <2>1
  <2>2. CASE \E p \in Peers : Advances(p)
    BY <1>2, <2>2 DEF Stream!Next
  <2>3. UNCHANGED ks \/ \E p \in Peers : Advances(p)
    BY ControlStep DEF controlVars
  <2> QED
    BY <2>1, <2>2, <2>3
<1> QED
  BY <1>1, <1>3, ControlInvariant, PTL DEF ControlSpec, ImplementsStream, Stream!Spec
=============================================================================
