---------------------------- MODULE ResumeStream ----------------------------
(***************************************************************************)
(* One direction of a resumable stream: the sender's resume.State (ring,   *)
(* SentPos, PeerAckPos), the receiver's RecvPos, and between them the      *)
(* agents and the relay of other repositories, modelled as external from   *)
(* how lib/resume is meant to be driven: bytes travel in order over one    *)
(* connection at a time and are lost with it; checkpoints report RecvPos   *)
(* and may be delayed, repeated or lost; after a reconnect the sender      *)
(* retransmits from the position the receiver reports.                     *)
(*                                                                         *)
(* The writer and the resume of one stream exclude each other (the agent's *)
(* per-stream mutex); checkpoint handlers run concurrently with them and   *)
(* with each other, and the steps of OnWrite and OnCheckpointFromPeer      *)
(* interleave.                                                             *)
(***************************************************************************)
EXTENDS RingBuffer

CONSTANTS
  RingCap,  \* the ringCap given to NewState
  Handler   \* goroutines that handle inbound StreamCheckpoints

ASSUME RingCapAssumption == RingCap \in Int

VARIABLES
  ring,        \* State.Ring of the sender
  sentPos,     \* Counters.SentPos of the sender
  peerAckPos,  \* Counters.PeerAckPos of the sender
  recvPos,     \* Counters.RecvPos of the receiver
  writer,      \* where the sender's Write is, and how many bytes it writes
  handler,     \* handler[h]: where OnCheckpointFromPeer is
  up,          \* a connection carries the stream
  wire,        \* the bytes in flight on it
  reported,    \* the checkpoints sent by the receiver
  delivered,   \* the bytes the application has read (history)
  failed       \* the stream was marked non-resumable

vars == <<ring, sentPos, peerAckPos, recvPos, writer, handler, up, wire, reported, delivered, failed>>

Resting == [st |-> "idle"]

Init ==
  /\ ring = NewRingBuffer(RingCap)
  /\ sentPos = 0
  /\ peerAckPos = 0
  /\ recvPos = 0
  /\ writer = Resting
  /\ handler = [h \in Handler |-> Resting]
  /\ up = TRUE
  /\ wire = << >>
  /\ reported = {}
  /\ delivered = << >>
  /\ failed = FALSE

(* OnWrite, first half: Ring.Write.  An empty write returns at once.       *)
OnWriteRing(n) ==
  /\ writer = Resting
  /\ ~failed
  /\ n > 0
  /\ ring' = Write(ring, Bytes(ring.head, n))
  /\ writer' = [st |-> "count", n |-> n]
  /\ UNCHANGED <<sentPos, peerAckPos, recvPos, handler, up, wire, reported, delivered, failed>>

(* OnWrite, second half: SentPos.Add.                                      *)
OnWriteCount ==
  /\ writer.st = "count"
  /\ sentPos' = sentPos + writer.n
  /\ writer' = [writer EXCEPT !.st = "send"]
  /\ UNCHANGED <<ring, peerAckPos, recvPos, handler, up, wire, reported, delivered, failed>>

(* External: the agent writes the bytes to the connection, if there is one.*)
Transmit ==
  /\ writer.st = "send"
  /\ wire' = IF up THEN wire \o Bytes(sentPos - writer.n, writer.n) ELSE wire
  /\ writer' = Resting
  /\ UNCHANGED <<ring, sentPos, peerAckPos, recvPos, handler, up, reported, delivered, failed>>

(* The application reads n bytes; the agent calls OnRead(n).               *)
OnRead(n) ==
  /\ n \in 1 .. Len(wire)
  /\ delivered' = delivered \o SubSeq(wire, 1, n)
  /\ wire' = SubSeq(wire, n + 1, Len(wire))
  /\ recvPos' = recvPos + n
  /\ UNCHANGED <<ring, sentPos, peerAckPos, writer, handler, up, reported, failed>>

(* External: the receiver's periodic StreamCheckpoint.                     *)
SendCheckpoint ==
  /\ reported' = reported \cup {recvPos}
  /\ UNCHANGED <<ring, sentPos, peerAckPos, recvPos, writer, handler, up, wire, delivered, failed>>

(* OnCheckpointFromPeer: Load PeerAckPos, and return if there is no news.  *)
CheckpointLoad(h, peerAck) ==
  /\ handler[h] = Resting
  /\ peerAck > peerAckPos
  /\ handler' = [handler EXCEPT ![h] = [st |-> "store", ack |-> peerAck]]
  /\ UNCHANGED <<ring, sentPos, peerAckPos, recvPos, writer, up, wire, reported, delivered, failed>>

(* OnCheckpointFromPeer: Store.                                            *)
CheckpointStore(h) ==
  /\ handler[h].st = "store"
  /\ peerAckPos' = handler[h].ack
  /\ handler' = [handler EXCEPT ![h].st = "discard"]
  /\ UNCHANGED <<ring, sentPos, recvPos, writer, up, wire, reported, delivered, failed>>

(* What was sent is discarded, not what was acknowledged.                  *)
DiscardSent(h) ==
  /\ handler[h].st = "discard"
  /\ ring' = Discard(ring, sentPos)
  /\ handler' = [handler EXCEPT ![h] = Resting]
  /\ UNCHANGED <<sentPos, peerAckPos, recvPos, writer, up, wire, reported, delivered, failed>>

(* OnCheckpointFromPeer: Ring.Discard.                                     *)
CheckpointDiscard(h) ==
  /\ handler[h].st = "discard"
  /\ ring' = Discard(ring, handler[h].ack)
  /\ handler' = [handler EXCEPT ![h] = Resting]
  /\ UNCHANGED <<sentPos, peerAckPos, recvPos, writer, up, wire, reported, delivered, failed>>

(* External: the connection breaks; what was in flight is lost.            *)
Disconnect ==
  /\ up
  /\ up' = FALSE
  /\ wire' = << >>
  /\ UNCHANGED <<ring, sentPos, peerAckPos, recvPos, writer, handler, reported, delivered, failed>>

(* Retransmission from the last checkpoint, and none at all.               *)
RetransmitUnacked(peerPos) == BytesFrom(ring, peerAckPos)
RetransmitNone(peerPos) == << >>

RetransmitFrom(peerPos) == BytesFrom(ring, peerPos)

(* The relay pairs the two STREAM_RESUMEs: the sender retransmits from the *)
(* receiver's position, or gives the stream up.                            *)
Resume ==
  /\ ~up
  /\ ~failed
  /\ writer = Resting
  /\ IF RetransmitFrom(recvPos) = ErrBeforeRing
     THEN failed' = TRUE /\ UNCHANGED <<up, wire>>
     ELSE up' = TRUE /\ wire' = RetransmitFrom(recvPos) /\ UNCHANGED failed
  /\ UNCHANGED <<ring, sentPos, peerAckPos, recvPos, writer, handler, reported, delivered>>

Next ==
  \/ \E n \in Nat : OnWriteRing(n) \/ OnRead(n)
  \/ OnWriteCount
  \/ Transmit
  \/ SendCheckpoint
  \/ \E h \in Handler :
       \/ \E peerAck \in reported : CheckpointLoad(h, peerAck)
       \/ CheckpointStore(h)
       \/ CheckpointDiscard(h)
  \/ Disconnect
  \/ Resume

Spec == Init /\ [][Next]_vars

(* The writer's goroutine runs on, data that arrived is read, and a broken *)
(* connection is replaced.                                                 *)
Fairness ==
  /\ WF_vars(OnWriteCount)
  /\ WF_vars(Transmit)
  /\ WF_vars(OnRead(1))
  /\ WF_vars(Resume)

-----------------------------------------------------------------------------
(* The application reads the bytes of the stream in order, each exactly    *)
(* once, across any number of reconnects and retransmissions.              *)
InOrderOnce == delivered = Bytes(0, recvPos)

(* No checkpoint, however late, repeated or racing with another one, frees *)
(* a byte the receiver has not read: the ring lacks an unread byte, and    *)
(* RetransmitFrom fails, only if more is unread than the ring can hold.    *)
KeepsUnread ==
  /\ RingTail(ring) <= recvPos \/ RingTail(ring) <= ring.head - ring.maxCap
  /\ failed => ring.head - recvPos > ring.maxCap
=============================================================================
