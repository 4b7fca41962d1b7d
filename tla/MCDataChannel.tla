--------------------------- MODULE MCDataChannel ----------------------------
(* TLC instances of DataChannel. *)
EXTENDS DataChannel

\* Datagrams for a payload of 40: two fragments, one too long for three
\* fragments, a whole one, and then fragments again until the sequence ids
\* repeat; the last datagram has three fragments of the size of the first one's.
Traffic == <<80, 44, 130, 30, 44, 44, 120>>
=============================================================================
