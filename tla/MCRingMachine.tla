---------------------------- MODULE MCRingMachine ----------------------------
(* RingMachine for TLC: a stream of at most MaxHead bytes.                 *)
EXTENDS RingMachine

CONSTANTS MaxHead, MaxWrite

MCCapArg == {-1, 0, 1, 2, 3, 8}

MCNext ==
  \/ \E n \in 0 .. MaxWrite : ring.head + n <= MaxHead /\ DoWrite(n)
  \/ \E before \in -1 .. MaxHead + 1 : DoDiscard(before)

MCSpec == Init /\ [][MCNext]_vars
=============================================================================
