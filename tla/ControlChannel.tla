--------------------------- MODULE ControlChannel ---------------------------
(***************************************************************************)
(* OpenVPN's TLS control channel while one key is negotiated: the client   *)
(* and the server each run tls_pre_decrypt on every packet that arrives    *)
(* and tls_process whenever the event loop gets there; between them is     *)
(* UDP.  On each side send_reliable keeps what was not acknowledged yet,   *)
(* rec_reliable what arrived out of order, rec_ack what is still to be     *)
(* acknowledged, and the TLS object (external) turns the peer's records    *)
(* into its own.  One TLS session per side, packet ids of PidMod values.   *)
(***************************************************************************)
EXTENDS Integers, Sequences, SequencesExt, FiniteSets, FiniteSetsExt

CONSTANTS SendSize,   \* TLS_RELIABLE_N_SEND_BUFFERS
          RecSize,    \* TLS_RELIABLE_N_REC_BUFFERS
          AckSize,    \* RELIABLE_ACK_SIZE
          AckMax,     \* CONTROL_SEND_ACK_MAX
          PidMod,     \* number of packet ids, 2^32
          FlightEnd,  \* FlightEnd[i]: records its sender has made with TLS
                      \* flight i; the odd flights are the client's
          MaxFaults   \* bound: lost, repeated, overtaken packets, early timers

ASSUME ControlConstants ==
  /\ SendSize \in Nat \ {0} /\ RecSize \in Nat /\ SendSize <= RecSize
  /\ AckSize \in Nat \ {0} /\ AckMax \in 1..AckSize
  /\ PidMod \in Nat /\ PidMod % 2 = 0
  /\ FlightEnd \in Seq(Nat) /\ Len(FlightEnd) >= 2 /\ Len(FlightEnd) % 2 = 0
  /\ \A i \in 1..Len(FlightEnd) : FlightEnd[i] > 0
  /\ \A i, j \in 1..Len(FlightEnd) : i < j /\ i % 2 = j % 2 => FlightEnd[i] < FlightEnd[j]
  /\ MaxFaults \in Nat

\* A negotiation has a few dozen records, and packet ids of 32 bits.
ASSUME PidsDoNotWrap ==
  \A i \in 1..Len(FlightEnd) : 2 * (FlightEnd[i] + SendSize + RecSize + 1) <= PidMod

Peers == {"client", "server"}
Other(p) == IF p = "client" THEN "server" ELSE "client"

VARIABLES
  ks,      \* ks[p]: key_state of p (the primary key of its active session)
  net,     \* net[p]: packets on their way to p
  expired, \* peers whose handshake window has passed
  call,    \* the call of tls_process that is between two turns of its loop
  faults

controlVars == <<ks, net, expired, call, faults>>

NoCall == [peer |-> "none", busy |-> FALSE]

S_ERROR     == -1
S_INITIAL   == 1
S_PRE_START == 2
S_START     == 3
S_SENT_KEY  == 4
S_GOT_KEY   == 5
S_ACTIVE    == 6
S_NORMAL_OP == 7

-----------------------------------------------------------------------------
(* Packet ids: unsigned integers that wrap around.                         *)

Half == PidMod \div 2
Uint(n) == n % PidMod

\* test - base < extent
reliable_pid_in_range1(test, base, extent) ==
  IF test >= base THEN test - base < extent
                  ELSE Uint(Uint(test + Half) - Uint(base + Half)) < extent

\* test < base + extent
reliable_pid_in_range2(test, base, extent) ==
  IF Uint(base + extent) >= base
  THEN test < Uint(base + extent)
  ELSE Uint(test + Half) < Uint(Uint(base + Half) + extent)

reliable_pid_min(p1, p2) == ~reliable_pid_in_range1(p1, p2, Half)

-----------------------------------------------------------------------------
(* struct reliable: a set of active entries.  An entry of send_reliable    *)
(* carries "due" for now >= next_try.                                      *)

Min_id(entries) == CHOOSE e \in entries :
                     \A f \in entries \ {e} : reliable_pid_min(e.pid, f.pid)

\* Is there a buffer for the next outgoing packet, and may it be used?
reliable_get_buf_output_sequenced(k) ==
  /\ k.send = {} \/ reliable_pid_in_range1(k.pid, Min_id(k.send).pid, SendSize)
  /\ Cardinality(k.send) < SendSize

reliable_mark_active_outgoing(k, op, data) ==
  [k EXCEPT !.pid = Uint(@ + 1),
            !.send = @ \cup {[pid |-> k.pid, op |-> op, data |-> data, due |-> TRUE]}]

reliable_not_replay(k, pid) ==
  /\ ~reliable_pid_min(pid, k.recPid)
  /\ \A e \in k.held : e.pid # pid

\* (mutant) The receiver's window is one short of the sender's.
ShortWindow(k, pid) == reliable_pid_in_range2(pid, k.recPid, SendSize - 1)

reliable_wont_break_sequentiality(k, pid) ==
  reliable_pid_in_range2(pid, k.recPid, RecSize)

reliable_ack_acknowledge_packet_id(k, pid) ==
  IF ~Contains(k.ack, pid) /\ Len(k.ack) < AckSize
  THEN [k EXCEPT !.ack = Append(@, pid)] ELSE k

\* (mutant) An acknowledgement stands for all packets before it, too.
CumulativePurge(k, acks) ==
  [k EXCEPT !.send = {e \in @ : \A i \in DOMAIN acks : e.pid > acks[i]}]

reliable_send_purge(k, acks) ==
  [k EXCEPT !.send = {e \in @ : ~Contains(acks, e.pid)}]

reliable_schedule_now(k) ==
  [k EXCEPT !.send = {[e EXCEPT !.due = TRUE] : e \in @}]

\* reliable_send and write_control_auth: the due packet with the lowest id
\* goes out and takes up to AckMax acknowledgements with it.
Due(k) == {e \in k.send : e.due}
Taken(k, max) == SubSeq(k.ack, 1, Min({max, Len(k.ack)}))
Kept(k, max)  == SubSeq(k.ack, Min({max, Len(k.ack)}) + 1, Len(k.ack))

reliable_send(k) ==
  LET e == Min_id(Due(k))
  IN [k |-> [k EXCEPT !.send = (@ \ {e}) \cup {[e EXCEPT !.due = FALSE]},
                      !.ack = Kept(k, AckMax)],
      out |-> <<[op |-> e.op, pid |-> e.pid, data |-> e.data, acks |-> Taken(k, AckMax)]>>]

dedicated_ack(k) ==
  [k |-> [k EXCEPT !.ack = Kept(k, AckSize)],
   out |-> <<[op |-> "ACK", pid |-> 0, data |-> 0, acks |-> Taken(k, AckSize)]>>]

FULL_SYNC(k) == k.send = {} /\ k.ack = <<>>

-----------------------------------------------------------------------------
(* The TLS objects.  A peer's records are numbered from 1; those of flight *)
(* i come out when all flights before i went in, those of its last flight  *)
(* carry the key and need it to be written first.  Record 0 is the empty   *)
(* payload of the reset packet, which does not reach the TLS object.       *)

FlightsOf(p) == {i \in 1..Len(FlightEnd) : (i % 2 = 1) = (p = "client")}
AllRecords(p) == FlightEnd[IF p = "client" THEN Len(FlightEnd) - 1 ELSE Len(FlightEnd)]

key_state_read_ciphertext(p, k) ==
  \E i \in FlightsOf(p) :
    /\ Len(k.out) >= (IF i <= 2 THEN 0 ELSE FlightEnd[i - 2])
    /\ Len(k.out) < FlightEnd[i]
    /\ Len(k.in) >= (IF i = 1 THEN 0 ELSE FlightEnd[i - 1])
    /\ FlightEnd[i] = AllRecords(p) => k.keyWritten

key_state_read_plaintext(p, k) == Len(k.in) = AllRecords(Other(p))

-----------------------------------------------------------------------------
(* tls_process                                                             *)

server(p) == p = "server"

\* The parts of one turn of the loop before it sends: the initial packet,
\* the handshake window, and the two waits for acknowledgements.
Start(k) ==
  IF k.state = S_INITIAL /\ reliable_get_buf_output_sequenced(k)
  THEN [reliable_mark_active_outgoing(k, "RESET", 0) EXCEPT !.state = S_PRE_START]
  ELSE k

HandshakeWindow(p, k) ==
  IF p \notin expired THEN k
  ELSE [k EXCEPT !.state = IF @ < S_ACTIVE THEN S_ERROR ELSE S_NORMAL_OP]

\* (mutant) Both sides wait in S_SENT_KEY.
SyncedAfterSending(p, k) ==
  IF ~FULL_SYNC(k) THEN k
  ELSE [k EXCEPT !.state = CASE @ = S_PRE_START -> S_START
                             [] @ = S_SENT_KEY -> S_ACTIVE
                             [] OTHER -> @]

Synced(p, k) ==
  IF ~FULL_SYNC(k) THEN k
  ELSE [k EXCEPT !.state =
         CASE @ = S_PRE_START -> S_START
           [] @ = (IF server(p) THEN S_SENT_KEY ELSE S_GOT_KEY) -> S_ACTIVE
           [] OTHER -> @]

\* (mutant) The lowest packet goes in, whether or not it is the next one.
IncomingLowest(k) ==
  IF k.held = {} THEN k
  ELSE LET e == Min_id(k.held)
       IN [k EXCEPT !.held = @ \ {e}, !.recPid = Uint(e.pid + 1),
                    !.in = IF e.data = 0 THEN @ ELSE Append(@, e.data)]

\* The parts after it: one record into the TLS object, the keys, one out.
Incoming(k) ==
  LET next == {e \in k.held : e.pid = k.recPid}
  IN IF next = {} THEN k
     ELSE LET e == CHOOSE e \in next : TRUE
          IN [k EXCEPT !.held = @ \ {e}, !.recPid = Uint(e.pid + 1),
                       !.in = IF e.data = 0 THEN @ ELSE Append(@, e.data)]

SendKey(p, k) ==
  IF k.state = (IF server(p) THEN S_GOT_KEY ELSE S_START)
  THEN [k EXCEPT !.state = S_SENT_KEY, !.keyWritten = TRUE] ELSE k

ReceiveKey(p, k) ==
  IF /\ key_state_read_plaintext(p, k)
     /\ k.state = (IF server(p) THEN S_START ELSE S_SENT_KEY)
  THEN [k EXCEPT !.state = S_GOT_KEY] ELSE k

Outgoing(p, k) ==
  IF /\ k.state >= S_START
     /\ reliable_get_buf_output_sequenced(k)
     /\ key_state_read_ciphertext(p, k)
  THEN LET n == Len(k.out) + 1
       IN [reliable_mark_active_outgoing(k, "CONTROL", n) EXCEPT !.out = Append(@, n)]
  ELSE k

\* One turn of the loop, up to the place where a packet is sent, and the rest.
FirstPart(p, k) == Synced(p, HandshakeWindow(p, Start(k)))
Rest(p, k) == Outgoing(p, ReceiveKey(p, SendKey(p, Incoming(k))))

\* The call returns, with at most one packet for the link.
Return(p, r) ==
  /\ ks' = [ks EXCEPT ![p] = r.k]
  /\ net' = [net EXCEPT ![Other(p)] = @ \o r.out]
  /\ call' = NoCall

\* A turn of p's call.  The loop ends with an error, with a packet sent, or when
\* nothing changes; then what is left to acknowledge is sent by itself.  "busy"
\* is a link that still has a data packet to send.
Turn(p, busy) ==
  LET k == [ks[p] EXCEPT !.woken = FALSE]
      a == FirstPart(p, k)
      b == Rest(p, a)
      sends == ~busy /\ Due(a) # {}
  IN \/ a.state = S_ERROR /\ Return(p, [k |-> a, out |-> <<>>])
     \/ a.state # S_ERROR /\ sends /\ Return(p, reliable_send(a))
     \/ /\ a.state # S_ERROR /\ ~sends /\ b # k
        /\ ks' = [ks EXCEPT ![p] = b] /\ call' = [peer |-> p, busy |-> busy]
        /\ UNCHANGED net
     \/ /\ a.state # S_ERROR /\ ~sends /\ b = k
        /\ Return(p, IF busy \/ b.ack = <<>> THEN [k |-> b, out |-> <<>>] ELSE dedicated_ack(b))

\* The event loop calls tls_process.  A server has no address to answer before
\* it is linked.
Begin(p, busy) ==
  /\ call = NoCall
  /\ server(p) => ks[p].linked
  /\ ks[p].state # S_ERROR
  /\ Turn(p, busy)
  /\ IF busy THEN faults < MaxFaults /\ faults' = faults + 1 ELSE faults' = faults
  /\ UNCHANGED expired

\* The call goes on.  Only p's own timers, which every turn reads again, can
\* tell in which turn of the call they expired: whatever else happens, happens
\* before or after the call.
Continue(p) ==
  /\ call.peer = p
  /\ Turn(p, call.busy)
  /\ UNCHANGED <<expired, faults>>

tls_process(p) == (\E busy \in BOOLEAN : Begin(p, busy)) \/ Continue(p)

-----------------------------------------------------------------------------
(* tls_pre_decrypt                                                         *)

\* A reset packet of the unknown peer opens the session; everything else
\* from an unknown peer cannot be routed.
Routed(k, m) == k.linked \/ m.op = "RESET"

Linked(k) == IF k.linked THEN k
             ELSE reliable_schedule_now([k EXCEPT !.linked = TRUE])

\* (mutant) Only what is new is acknowledged.
StoredOnceAcked(k, m) ==
  IF /\ m.op # "ACK"
     /\ Cardinality(k.held) < RecSize
     /\ reliable_wont_break_sequentiality(k, m.pid)
     /\ reliable_not_replay(k, m.pid)
  THEN reliable_ack_acknowledge_packet_id(
         [k EXCEPT !.held = @ \cup {[pid |-> m.pid, data |-> m.data]}], m.pid)
  ELSE k

Stored(k, m) ==
  IF /\ m.op # "ACK"
     /\ Cardinality(k.held) < RecSize
     /\ reliable_wont_break_sequentiality(k, m.pid)
  THEN reliable_ack_acknowledge_packet_id(
         IF reliable_not_replay(k, m.pid)
         THEN [k EXCEPT !.held = @ \cup {[pid |-> m.pid, data |-> m.data]}] ELSE k,
         m.pid)
  ELSE k

tls_pre_decrypt(p) ==
  /\ call = NoCall
  /\ net[p] # <<>>
  /\ ~ks[p].woken /\ ks[p].state # S_ERROR
  /\ LET m == Head(net[p])
     IN ks' = [ks EXCEPT ![p] =
                 IF Routed(@, m)
                 THEN [Stored(reliable_send_purge(Linked(@), m.acks), m) EXCEPT !.woken = TRUE]
                 ELSE @]
  /\ net' = [net EXCEPT ![p] = Tail(@)]
  /\ UNCHANGED <<expired, call, faults>>

-----------------------------------------------------------------------------
(* Time and the network.                                                   *)

\* next_try of a packet that was sent comes.  While packets are under way
\* that is a retry the peer's answer may still make superfluous.
NextTry(p) ==
  /\ call.peer \in {"none", p}
  /\ \E e \in ks[p].send :
       /\ ~e.due
       /\ ks' = [ks EXCEPT ![p].send = (@ \ {e}) \cup {[e EXCEPT !.due = TRUE]}]
  /\ IF \A q \in Peers : net[q] = <<>> THEN faults' = faults
     ELSE faults < MaxFaults /\ faults' = faults + 1
  /\ UNCHANGED <<net, expired, call>>

\* handshake_window seconds are over.
WindowPasses(p) ==
  /\ call.peer \in {"none", p}
  /\ ks[p].state >= S_PRE_START /\ p \notin expired
  /\ expired' = expired \cup {p}
  /\ UNCHANGED <<ks, net, call, faults>>

Fault(p, packets) ==
  /\ call = NoCall
  /\ faults < MaxFaults /\ faults' = faults + 1
  /\ net' = [net EXCEPT ![p] = packets]
  /\ UNCHANGED <<ks, expired, call>>

Lose(p)     == net[p] # <<>> /\ Fault(p, Tail(net[p]))
Repeat(p)   == net[p] # <<>> /\ Fault(p, Append(net[p], Head(net[p])))
Overtake(p) == Len(net[p]) > 1 /\ Fault(p, Append(Tail(net[p]), Head(net[p])))

-----------------------------------------------------------------------------
\* key_state_init
key_state_init ==
  [state |-> S_INITIAL, pid |-> 0, send |-> {}, recPid |-> 0, held |-> {},
   ack |-> <<>>, in |-> <<>>, out |-> <<>>, keyWritten |-> FALSE,
   linked |-> FALSE, woken |-> FALSE]

ControlInit == /\ ks = [p \in Peers |-> key_state_init]
               /\ net = [p \in Peers |-> <<>>]
               /\ expired = {}
               /\ call = NoCall
               /\ faults = 0

Network(p) == Lose(p) \/ Repeat(p) \/ Overtake(p)

ControlNext == \E p \in Peers :
  \/ tls_process(p) \/ tls_pre_decrypt(p)
  \/ NextTry(p) \/ WindowPasses(p) \/ Network(p)

ControlSpec == ControlInit /\ [][ControlNext]_controlVars

\* What makes a call of tls_process do something, or a packet be read.
Pending(p) ==
  /\ server(p) => ks[p].linked
  /\ ks[p].state # S_ERROR
  /\ \/ call.peer = p \/ ks[p].woken \/ Due(ks[p]) # {} \/ ks[p].ack # <<>>
     \/ Rest(p, FirstPart(p, ks[p])) # ks[p]
Arrived(p) == net[p] # <<>> /\ ~ks[p].woken /\ ks[p].state # S_ERROR

\* The event loops run and packets that are not lost arrive: weak fairness with
\* the enabling conditions written out, so that a call of the other peer, which
\* runs on another machine, holds nobody up.  A timer fires however often its
\* condition comes and goes (strong fairness: the other side's retries do not
\* stop the clock).  The handshake window need not pass first.
FairSpec == ControlSpec /\ \A p \in Peers :
  /\ []<>~Pending(p) \/ []<><<tls_process(p)>>_controlVars
  /\ []<>~Arrived(p) \/ []<><<tls_pre_decrypt(p)>>_controlVars
  /\ SF_controlVars(NextTry(p))

-----------------------------------------------------------------------------
(* Properties.                                                             *)

Records(p) == 1..AllRecords(p)

\* Whatever the network does, each TLS object is fed exactly the records the
\* other one produced, in their order: the reliability layer implements two
\* reliable streams.
Stream == INSTANCE ReliableStream
            WITH sent  <- [p \in Peers |-> ks[p].out],
                 taken <- [p \in Peers |-> ks[p].in]
ImplementsStream == Stream!Spec

\* What p has received of its peer, in order or not; 0 is the reset.
Got(p) == {e.data : e \in ks[p].held} \cup Range(ks[p].in)
            \cup (IF ks[p].recPid = 0 /\ ks[p].in = <<>> THEN {} ELSE {0})
Made(p) == Range(ks[p].out) \cup (IF ks[p].state = S_INITIAL THEN {} ELSE {0})

\* reliable_send_purge gives up a packet only when the peer has it: a packet
\* that is not in send_reliable any more needs no retry, because rec_reliable
\* or the TLS object at the other end holds it.  Late, repeated and
\* overtaking acknowledgements do not change that.
ReleasedIsReceived ==
  \A p \in Peers : Made(p) \subseteq {e.data : e \in ks[p].send} \cup Got(Other(p))

\* A peer that takes the new key into use (S_ACTIVE, tls_pre_encrypt) has the
\* other's key, and a client also knows that the server has its own.  The
\* converse does not hold: a server whose key did not fit into send_reliable
\* at once can find it empty and be S_ACTIVE before the rest was queued.
ActiveIsKeyed ==
  /\ \A p \in Peers : ks[p].state >= S_ACTIVE => Len(ks[p].in) = AllRecords(Other(p))
  /\ ks["client"].state >= S_ACTIVE => Records("client") \subseteq Got("server")

\* rec_reliable never fills up with what came out of order: while the TLS object
\* waits for a packet that has not arrived, no packet under way that is still
\* needed is refused, neither for lack of a buffer nor because it "would
\* de-sequentialize" rec_reliable.  While packets wait there in order that does
\* not hold: they are acknowledged before they are taken out, and if every call
\* finds a retry to send first, the sender's window moves past the receiver's.
NeededIsAccepted ==
  \A p \in Peers : \A m \in Range(net[p]) :
    (/\ m.op # "ACK" /\ reliable_not_replay(ks[p], m.pid)
     /\ \A e \in ks[p].held : e.pid # ks[p].recPid) =>
       /\ Cardinality(ks[p].held) < RecSize
       /\ reliable_wont_break_sequentiality(ks[p], m.pid)

\* Retries overcome finitely many faults: unless a handshake window passes
\* first, both sides get to S_ACTIVE and nobody waits for a lost packet or
\* acknowledgement for ever.
NegotiationCompletes ==
  <>(expired # {} \/ \A p \in Peers : ks[p].state >= S_ACTIVE)
=============================================================================
