---------------------------- MODULE DataChannel -----------------------------
(***************************************************************************)
(* One direction of OpenVPN's UDP data channel under one key: the sender   *)
(* reads datagrams from its tun device, breaks those that are too long     *)
(* into fragments (fragment.c) and numbers what it encrypts (packet_id.c); *)
(* the receiver drops replays and joins the fragments in a window of       *)
(* NFragBuf buffers.  The network loses, repeats and reorders as it likes. *)
(***************************************************************************)
EXTENDS ReplayWindow, Integers, FiniteSets

CONSTANTS
  NFragBuf,    \* N_FRAG_BUF
  NSeqId,      \* N_SEQ_ID
  MaxFrags,    \* MAX_FRAGS
  FragTtl,     \* FRAG_TTL_SEC
  Payload,     \* PAYLOAD_SIZE_DYNAMIC: a longer datagram is fragmented
  Lengths,     \* lengths of the datagrams the tun device delivers, in order
  FirstSeqId,  \* the random initial outgoing_seq_id
  Epoch,       \* the clock when the key is taken into use
  MaxTime      \* bound: the clock stops here

ASSUME DataConstants ==
  /\ NFragBuf \in Nat \ {0} /\ NSeqId \in Nat /\ 2 * NFragBuf <= NSeqId
  /\ MaxFrags \in Nat \ {0} /\ FragTtl \in Nat \ {0}
  /\ Payload \in Nat /\ Payload >= 4
  /\ Lengths \in Seq(Nat \ {0}) /\ FirstSeqId \in 0..(NSeqId - 1)
  /\ Epoch \in Nat /\ Epoch > EXPIRED /\ MaxTime \in Nat /\ MaxTime >= Epoch

VARIABLES
  out,        \* fragment_master, outgoing: [d, seq_id, frag_id, left, size]
  sent,       \* sent[id]: the packet that was encrypted with packet id id
  rec,        \* packet_id_rec of the receiver
  incoming,   \* fragment_list of the receiver
  now,
  accepted,   \* history: accepted[id] is when packet id was accepted
  repeated,   \* history: the packet ids that were accepted again
  delivered,  \* history: what came out, the origin of each of its pieces
  disturbed   \* history: datagrams the window or the clock broke up

history == <<accepted, repeated, delivered, disturbed>>
vars == <<out, sent, rec, incoming, now, history>>

-----------------------------------------------------------------------------
(* integer.h                                                               *)

Abs(n) == IF n < 0 THEN -n ELSE n
Least(a, b) == IF a < b THEN a ELSE b

modulo_subtract(x, y, mod) ==
  LET d1 == x - y
      d2 == (IF x > y THEN -mod ELSE mod) + d1
  IN IF Abs(d1) > Abs(d2) THEN d2 ELSE d1

modulo_add(x, y, mod) ==
  LET sum == x + y
  IN IF sum >= mod THEN sum - mod ELSE IF sum < 0 THEN sum + mod ELSE sum

-----------------------------------------------------------------------------
(* The sender.                                                             *)

Round(n) == n - (n % 4)
CeilDiv(a, b) == (a + b - 1) \div b

\* (mutant) Fragments of equal size, rounded down.
optimal_fragment_size_down(len, max) == Round(len \div CeilDiv(len, Round(max)))

optimal_fragment_size(len, max) ==
  LET aligned == Round(max)
      div == len \div aligned
      mod == len % aligned
  IN IF div > 0 /\ mod > 0 /\ mod < (aligned * 3) \div 4
     THEN Least(aligned, Round(max - (max - mod) \div (div + 1) + 3))
     ELSE aligned

\* Is a datagram of this length fragmented, and does it pass?
Long(len) == len > Payload
TooLong(len) == Long(len) /\ len > optimal_fragment_size(len, Payload) * MaxFrags

\* The packet with the next fragment of o, and what remains.
fragment_ready_to_send(o) ==
  [packet |-> [type |-> IF o.left <= o.size THEN "LAST" ELSE "NOTLAST",
               seq_id |-> o.seq_id, frag_id |-> o.frag_id, size |-> o.size, d |-> o.d],
   out |-> [o EXCEPT !.frag_id = @ + 1, !.left = @ - Least(@, o.size)]]

whole(d) == [type |-> "WHOLE", seq_id |-> 0, frag_id |-> 0, size |-> 0, d |-> d]

\* encrypt_sign: the packet gets the next packet id (packet_id_alloc_outgoing).
encrypt_sign(packet) == sent' = Append(sent, packet)

Send(o) == LET r == fragment_ready_to_send(o)
           IN encrypt_sign(r.packet) /\ out' = r.out

\* io_wait reads from the tun device only while no fragment is left to send.
fragment_outgoing ==
  /\ out.left = 0 /\ out.d < Len(Lengths)
  /\ LET d == out.d + 1
         len == Lengths[d]
     IN CASE ~Long(len)  -> encrypt_sign(whole(d)) /\ out' = [out EXCEPT !.d = d]
          [] TooLong(len) -> out' = [out EXCEPT !.d = d] /\ UNCHANGED sent
          [] OTHER -> Send([d |-> d, seq_id |-> modulo_add(out.seq_id, 1, NSeqId),
                            frag_id |-> 0, left |-> len,
                            size |-> optimal_fragment_size(len, Payload)])
  /\ UNCHANGED <<rec, incoming, now, history>>

check_fragment ==
  /\ out.left > 0
  /\ Send(out)
  /\ UNCHANGED <<rec, incoming, now, history>>

-----------------------------------------------------------------------------
(* The receiver.                                                           *)

\* A buffer that is not defined; what it held before is never read again.
NoFragment == [defined |-> FALSE, size |-> 0, map |-> {}, pieces |-> <<>>, timestamp |-> 0]

\* Buffers index, index - 1, ... stand for seq_id, seq_id - 1, ...; a newer
\* seq_id moves the window on, one too far away in either direction empties it.
Emptied(seq_id) ==
  [index |-> 0, seq_id |-> seq_id,
   fragments |-> [i \in 0..(NFragBuf - 1) |-> NoFragment]]

Moved(l, diff) ==
  LET fresh == {modulo_add(l.index, k, NFragBuf) : k \in 1..diff}
  IN [index |-> modulo_add(l.index, diff, NFragBuf),
      seq_id |-> modulo_add(l.seq_id, diff, NSeqId),
      fragments |-> [i \in 0..(NFragBuf - 1) |->
                       IF i \in fresh THEN NoFragment ELSE l.fragments[i]]]

\* (mutant) The buffers the window moves over keep what they hold.
fragment_list_get_buf_dirty(l, seq_id) ==
  LET diff == modulo_subtract(seq_id, l.seq_id, NSeqId)
  IN CASE Abs(diff) >= NFragBuf -> [list |-> Emptied(seq_id), at |-> 0]
       [] diff \in 0..(NFragBuf - 1) ->
            [list |-> [Moved(l, diff) EXCEPT !.fragments = l.fragments],
             at |-> Moved(l, diff).index]
       [] OTHER -> [list |-> l, at |-> modulo_add(l.index, diff, NFragBuf)]

\* (mutant) The distance is not taken around the circle.
fragment_list_get_buf_straight(l, seq_id) ==
  LET diff == seq_id - l.seq_id
  IN CASE Abs(diff) >= NFragBuf -> [list |-> Emptied(seq_id), at |-> 0]
       [] diff \in 0..(NFragBuf - 1) -> [list |-> Moved(l, diff), at |-> Moved(l, diff).index]
       [] OTHER -> [list |-> l, at |-> modulo_add(l.index, diff, NFragBuf)]

fragment_list_get_buf(l, seq_id) ==
  LET diff == modulo_subtract(seq_id, l.seq_id, NSeqId)
  IN CASE Abs(diff) >= NFragBuf -> [list |-> Emptied(seq_id), at |-> 0]
       [] diff \in 0..(NFragBuf - 1) -> [list |-> Moved(l, diff), at |-> Moved(l, diff).index]
       [] OTHER -> [list |-> l, at |-> modulo_add(l.index, diff, NFragBuf)]

\* A fragment joins its buffer; another size means another datagram.
Joined(f, m) ==
  LET g == IF f.defined /\ f.size = m.size THEN f
           ELSE [NoFragment EXCEPT !.defined = TRUE, !.size = m.size]
  IN [g EXCEPT !.map = @ \cup (IF m.type = "LAST" THEN m.frag_id..(MaxFrags - 1) ELSE {m.frag_id}),
               !.pieces = [i \in DOMAIN @ \cup {m.frag_id} |->
                             IF i = m.frag_id THEN m.d ELSE @[i]],
               !.timestamp = now]

Full(f) == f.map = 0..(MaxFrags - 1)

\* What comes out of fragment_incoming, as a set of at most one datagram:
\* the origin of its pieces by their number.
fragment_incoming(m) ==
  IF m.type = "WHOLE"
  THEN [list |-> incoming, datagram |-> {[i \in {0} |-> m.d]}]
  ELSE LET b == fragment_list_get_buf(incoming, m.seq_id)
           f == Joined(b.list.fragments[b.at], m)
       IN [list |-> [b.list EXCEPT !.fragments[b.at] = IF Full(f) THEN NoFragment ELSE f],
           datagram |-> IF Full(f) THEN {f.pieces} ELSE {}]

\* History helpers: the fragments of a datagram, its place among the ones
\* that are fragmented, and how far the receiver has got with it.
Fragments == [d \in 1..Len(Lengths) |->
                CeilDiv(Lengths[d], optimal_fragment_size(Lengths[d], Payload))]
Ord == [d \in 1..Len(Lengths) |->
          Cardinality({e \in 1..d : Long(Lengths[e]) /\ ~TooLong(Lengths[e])})]
PacketsOf(d, acc) == {a \in acc : sent[a.id].d = d}
InProgress(acc) == {d \in {sent[a.id].d : a \in acc} :
                      /\ Long(Lengths[d])
                      /\ Cardinality(PacketsOf(d, acc)) < Fragments[d]}

\* Datagrams whose reassembly a fragment of d may interrupt: d is older, or
\* too many datagrams younger.
Broken(d, acc) == {e \in InProgress(acc) : Ord[d] - Ord[e] \notin 0..(NFragBuf - 1)}

\* openvpn_decrypt, then fragment_incoming, on a packet the network delivers.
process_incoming_link(id) ==
  LET p == packet_id_reap_test(rec, now)
      m == sent[id]
      r == fragment_incoming(m)
      acc == accepted \cup {[id |-> id, at |-> now]}
  IN \/ /\ packet_id_test(p, id)
        /\ rec' = packet_id_add(p, id, now)
        /\ incoming' = r.list
        /\ accepted' = acc
        /\ repeated' = repeated \cup {a.id : a \in {b \in accepted : b.id = id}}
        /\ delivered' = delivered \cup r.datagram
        /\ disturbed' = IF m.type = "WHOLE" THEN disturbed ELSE disturbed \cup Broken(m.d, acc)
        /\ UNCHANGED <<out, sent, now>>
     \/ /\ ~packet_id_test(p, id)
        /\ rec' = p
        /\ UNCHANGED <<out, sent, incoming, now, history>>

\* fragment_ttl_reap, every FRAG_WAKEUP_INTERVAL seconds.
fragment_wakeup ==
  LET old(f) == f.defined /\ f.timestamp + FragTtl <= now
  IN /\ \E i \in 0..(NFragBuf - 1) : old(incoming.fragments[i])
     /\ incoming' = [incoming EXCEPT !.fragments =
                       [i \in 0..(NFragBuf - 1) |-> IF old(@[i]) THEN NoFragment ELSE @[i]]]
     /\ disturbed' = disturbed \cup {d \in InProgress(accepted) :
                       \A a \in PacketsOf(d, accepted) : a.at + FragTtl <= now}
     /\ UNCHANGED <<out, sent, rec, now, accepted, repeated, delivered>>

\* update_time
Tick == /\ now < MaxTime /\ now' = now + 1
        /\ UNCHANGED <<out, sent, rec, incoming, history>>

-----------------------------------------------------------------------------
\* fragment_init, packet_id_init
Init ==
  /\ out = [d |-> 0, seq_id |-> FirstSeqId, frag_id |-> 0, left |-> 0, size |-> 0]
  /\ sent = <<>>
  /\ rec = packet_id_init
  /\ incoming = Emptied(0)
  /\ now = Epoch
  /\ accepted = {} /\ repeated = {} /\ delivered = {} /\ disturbed = {}

Next == \/ fragment_outgoing
        \/ check_fragment
        \/ \E id \in 1..Len(sent) : process_incoming_link(id)
        \/ fragment_wakeup
        \/ Tick

Spec == Init /\ [][Next]_vars

-----------------------------------------------------------------------------
(* Properties.                                                             *)

\* No packet is accepted twice, however often and late the network repeats
\* it, whatever the window forgets when it moves, starts anew or is reaped.
AcceptedOnce == repeated = {}

\* The replay window of UDP does not cost packets it need not: one that was not
\* accepted, is less than SeqBacktrack behind, and behind nothing that came
\* in more than TimeBacktrack ago, would be accepted.
LatePacketsPass ==
  \A id \in 1..Len(sent) :
    (/\ SeqBacktrack # 0
     /\ \A a \in accepted : a.id # id
     /\ id + SeqBacktrack > rec.id
     /\ TimeBacktrack = 0 \/ \A a \in accepted : a.id > id => a.at + TimeBacktrack >= now)
    => packet_id_test(packet_id_reap_test(rec, now), id)

\* What comes out of reassembly is one datagram, complete, unless a fragment of
\* another datagram with the same sequence id was accepted, too: one with a
\* multiple of NSeqId fragmented datagrams between them.
Alike(d, e) == Long(Lengths[d]) /\ Long(Lengths[e]) /\ (Ord[d] - Ord[e]) % NSeqId = 0
Complete(v, d) ==
  /\ DOMAIN v = 0..(IF Long(Lengths[d]) THEN Fragments[d] - 1 ELSE 0)
  /\ \A j \in DOMAIN v : v[j] = d
OneDatagram ==
  \A v \in delivered : \A i \in DOMAIN v :
    \/ Complete(v, v[i])
    \/ /\ \A j \in DOMAIN v : Alike(v[i], v[j])
       /\ \E a \in accepted : sent[a.id].d # v[i] /\ Alike(v[i], sent[a.id].d)

\* A datagram all of whose fragments were accepted came out, wherever the
\* window was when the first one arrived, unless the fragment of an older
\* datagram, or of one NFragBuf or more younger, arrived in between, the
\* reassembly timed out, or a piece of it went into a mixture.
ReassembledUnlessDisturbed ==
  \A d \in 1..Len(Lengths) \ disturbed :
    (Long(Lengths[d]) /\ Cardinality(PacketsOf(d, accepted)) = Fragments[d])
    => \E v \in delivered : \E i \in DOMAIN v : v[i] = d

\* optimal_fragment_size may make fragments smaller, never more of them, and
\* its result is a size the header can carry (a multiple of 4) and the link
\* takes: checked for all small sizes (and thus once, before anything is sent).
FragmentCountKept ==
  sent = <<>> /\ now = Epoch =>
    \A max \in 4..48 : \A len \in (max + 1)..(4 * max) :
      LET size == optimal_fragment_size(len, max)
      IN /\ size % 4 = 0 /\ size \in 1..max
         /\ CeilDiv(len, size) = CeilDiv(len, Round(max))
=============================================================================
