--------------------------- MODULE MCResumeStream ---------------------------
(* ResumeStream for TLC: a stream of at most MaxHead bytes over at most    *)
(* MaxDrops broken connections.                                            *)
EXTENDS ResumeStream

CONSTANTS MaxHead, MaxWrite, MaxDrops

VARIABLE drops  \* the connections broken so far

MCInit == Init /\ drops = 0

MCNext ==
  \/ /\ \/ \E n \in 1 .. MaxWrite : ring.head + n <= MaxHead /\ OnWriteRing(n)
        \/ \E n \in 1 .. Len(wire) : OnRead(n)
        \/ OnWriteCount
        \/ Transmit
        \/ SendCheckpoint
        \/ \E h \in Handler :
             \/ \E peerAck \in reported : CheckpointLoad(h, peerAck)
             \/ CheckpointStore(h)
             \/ CheckpointDiscard(h)
        \/ Resume
     /\ UNCHANGED drops
  \/ drops < MaxDrops /\ Disconnect /\ drops' = drops + 1

MCSpec == MCInit /\ [][MCNext]_<<vars, drops>>

MCFairSpec == MCSpec /\ Fairness

(* Every byte written is read in the end, unless the stream is given up    *)
(* (OnWrite, RetransmitFrom and the checkpoints together).                 *)
EverythingArrives ==
  \A pos \in 1 .. MaxHead : (ring.head >= pos) ~> (recvPos >= pos \/ failed)
=============================================================================
