--------------------------- MODULE ReliableStream ---------------------------
(***************************************************************************)
(* What OpenVPN's reliability layer promises to the TLS objects on top of  *)
(* it: two independent streams of records.  Each peer may put records at   *)
(* the end of its stream and take the next ones of the other's; nothing is *)
(* lost, repeated, reordered or invented.  A peer's event loop may do      *)
(* several of these in one call.                                           *)
(***************************************************************************)
EXTENDS Naturals, Sequences, SequencesExt

CONSTANTS Peers,    \* the two ends
          Other(_)  \* the peer of a peer

VARIABLES sent,  \* sent[p]: the records p's TLS object produced
          taken  \* taken[p]: the records p's TLS object consumed

Init == /\ sent = [p \in Peers |-> <<>>]
        /\ taken = [p \in Peers |-> <<>>]

\* p produces some records and consumes some that the other end produced.
Exchange(p) ==
  /\ \A q \in Peers \ {p} : sent'[q] = sent[q] /\ taken'[q] = taken[q]
  /\ IsPrefix(sent[p], sent'[p])
  /\ IsPrefix(taken[p], taken'[p])
  /\ IsPrefix(taken'[p], sent[Other(p)])

Next == \E p \in Peers : Exchange(p)

Spec == Init /\ [][Next]_<<sent, taken>>
=============================================================================
