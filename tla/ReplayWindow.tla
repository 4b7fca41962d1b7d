---------------------------- MODULE ReplayWindow ----------------------------
(***************************************************************************)
(* OpenVPN's replay protection (packet_id.c) with short packet ids, as the *)
(* TLS data channel uses it: a sequence number per key, which a new key    *)
(* replaces before it wraps.  The receiver's record holds the highest id   *)
(* seen and, newest first, when each of the last SeqBacktrack ids came in. *)
(***************************************************************************)
EXTENDS Naturals, Sequences

CONSTANTS SeqBacktrack,   \* --replay-window n; 0 with TCP
          TimeBacktrack,  \* --replay-window t; 0 is no limit
          ReapInterval    \* SEQ_REAP_INTERVAL

ASSUME ReplayConstants ==
  SeqBacktrack \in Nat /\ TimeBacktrack \in Nat /\ ReapInterval \in Nat

UNSEEN  == 0
EXPIRED == 1

packet_id_init == [id |-> 0, seq_list |-> <<>>, last_reap |-> 0]

\* Everything up to an id that came in TimeBacktrack ago is too old to be
\* accepted; the pass ends where an earlier one got to.
Stale(t, now) == t # UNSEEN /\ t + TimeBacktrack < now
Reaped(list, now) ==
  [i \in 1..Len(list) |->
     IF /\ \A j \in 1..i : list[j] # EXPIRED
        /\ \E j \in 1..i : Stale(list[j], now)
     THEN EXPIRED ELSE list[i]]

\* (mutant) What is too old is forgotten.
packet_id_forget(p, now) ==
  [p EXCEPT !.seq_list = [i \in 1..Len(@) |-> IF Stale(@[i], now) THEN UNSEEN ELSE @[i]],
            !.last_reap = now]

packet_id_reap(p, now) ==
  [p EXCEPT !.seq_list = IF TimeBacktrack = 0 THEN @ ELSE Reaped(@, now),
            !.last_reap = now]

packet_id_reap_test(p, now) ==
  IF p.last_reap + ReapInterval <= now THEN packet_id_reap(p, now) ELSE p

\* (mutant) The window is one too narrow.
packet_id_test_narrow(p, id) ==
  /\ id # 0
  /\ id <= p.id => /\ p.id - id + 1 < Len(p.seq_list)
                   /\ p.seq_list[p.id - id + 1] = UNSEEN

\* May id be accepted?
packet_id_test(p, id) ==
  /\ id # 0
  /\ IF SeqBacktrack # 0
     THEN id <= p.id => /\ p.id - id < Len(p.seq_list)
                        /\ p.seq_list[p.id - id + 1] = UNSEEN
     ELSE p.id = 0 \/ id = p.id + 1

\* The list after k pushes of SEQ_UNSEEN, of which SeqBacktrack fit.
Pushed(list, k) ==
  [i \in 1..(IF Len(list) + k < SeqBacktrack THEN Len(list) + k ELSE SeqBacktrack) |->
     IF i <= k THEN UNSEEN ELSE list[i - k]]

\* id is accepted at time now.  An id beyond the whole window starts it anew.
packet_id_add(p, id, now) ==
  LET anew == \/ p.seq_list = <<>>
              \/ id >= SeqBacktrack /\ id - SeqBacktrack > p.id
      base == IF ~anew THEN p.id
              ELSE IF id > SeqBacktrack THEN id - SeqBacktrack ELSE 0
      top  == IF base < id THEN id ELSE base
      list == Pushed(IF anew THEN <<>> ELSE p.seq_list, top - base)
  IN IF SeqBacktrack = 0 THEN [p EXCEPT !.id = id]
     ELSE [p EXCEPT !.id = top,
                    !.seq_list = IF top - id < Len(list) /\ now > EXPIRED
                                 THEN [list EXCEPT ![top - id + 1] = now] ELSE list]
=============================================================================
