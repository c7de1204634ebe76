---------------------------- MODULE ResumeProofs ----------------------------
(***************************************************************************)
(* The resumable stream delivers every byte in order and once, and gives   *)
(* up only on overflow, for every ring capacity, every number of           *)
(* checkpoint handlers and any number of writes, losses and resumes.       *)
(***************************************************************************)
EXTENDS ResumeStream, RingLemmas

(* How much of the stream the writer has handed to the connection.         *)
Offered == IF writer.st = "send" THEN sentPos - writer.n ELSE sentPos

(* The sender: the ring's head runs ahead of SentPos inside OnWrite.       *)
SenderOK ==
  /\ RingOK(ring)
  /\ sentPos \in Nat
  /\ writer = Resting \/ writer \in [st : {"count", "send"}, n : Nat]
  /\ ring.head = IF writer.st = "count" THEN sentPos + writer.n ELSE sentPos
  /\ writer.st = "send" => writer.n <= sentPos

(* The connection: what is in flight joins what was read to what was sent. *)
WireOK ==
  /\ recvPos \in Nat
  /\ Len(wire) \in Nat
  /\ wire = Bytes(recvPos, Len(wire))
  /\ recvPos <= Offered
  /\ up => recvPos + Len(wire) = Offered
  /\ ~up => Len(wire) = 0
  /\ failed => ~up

(* The checkpoints: none is ahead of the reader, wherever it has got to.   *)
AcksOK ==
  /\ reported \subseteq 0 .. recvPos
  /\ handler \in [Handler -> {Resting} \cup [st : {"store", "discard"}, ack : 0 .. recvPos]]

ResumeInv == SenderOK /\ WireOK /\ AcksOK /\ InOrderOnce /\ KeepsUnread

(* NewState on both sides.                                                 *)
LEMMA ResumeInitially == Init => ResumeInv
  <1> SUFFICES ASSUME Init PROVE ResumeInv
    OBVIOUS
  <1>1. RingOK(ring)
    BY NewOK, RingCapAssumption DEF Init
  <1>2. ring.head = 0 /\ RingTail(ring) = 0
    BY DEF Init, RingTail, NewRingBuffer
  <1>3. << >> = Bytes(0, 0) /\ Len(<< >>) = 0
    BY BytesSeq
  <1>4. SenderOK
    BY <1>1, <1>2 DEF Init, SenderOK, Resting
  <1>5. WireOK
    <2>1. Offered = 0
      BY DEF Init, Offered, Resting
    <2>2. recvPos = 0 /\ wire = << >> /\ up /\ ~failed
      BY DEF Init
    <2> QED
      BY <1>3, <2>1, <2>2 DEF WireOK
  <1>6. AcksOK
    BY DEF Init, AcksOK
  <1>7. InOrderOnce
    BY <1>3 DEF Init, InOrderOnce
  <1>8. KeepsUnread
    BY <1>2 DEF Init, KeepsUnread
  <1> QED
    BY <1>4, <1>5, <1>6, <1>7, <1>8 DEF ResumeInv

(* The first half of OnWrite evicts only what a full ring cannot hold.     *)
LEMMA OnWriteRingKeeps ==
  ASSUME ResumeInv, NEW n \in Nat, OnWriteRing(n)
  PROVE  ResumeInv'
  <1>1. RingOK(ring) /\ RingOK(ring') /\ ring'.head = ring.head + n /\ ring'.maxCap = ring.maxCap
    BY WriteOK, ZenonT(60) DEF OnWriteRing, ResumeInv, SenderOK
  <1>2. RingTail(ring') = RingTail(ring) \/ RingTail(ring') = ring'.head - ring'.maxCap
    BY <1>1, WriteEvicts DEF OnWriteRing
  <1>3. RingTail(ring) \in Nat /\ ring.head \in Nat /\ ring.maxCap \in Nat
    BY <1>1, TailNat, Zenon DEF RingOK
  <1>4. SenderOK'
    BY <1>1 DEF OnWriteRing, ResumeInv, SenderOK, Resting
  <1>5. WireOK'
    BY DEF OnWriteRing, ResumeInv, WireOK, Offered, Resting
  <1>6. AcksOK' /\ InOrderOnce'
    BY DEF OnWriteRing, ResumeInv, AcksOK, InOrderOnce
  <1>7. KeepsUnread'
    BY <1>1, <1>2, <1>3 DEF OnWriteRing, ResumeInv, WireOK, KeepsUnread
  <1> QED
    BY <1>4, <1>5, <1>6, <1>7 DEF ResumeInv

(* The second half of OnWrite, and the agent's write to the connection.    *)
LEMMA WriterKeeps ==
  ASSUME ResumeInv, OnWriteCount \/ Transmit
  PROVE  ResumeInv'
  <1>1. CASE OnWriteCount
    <2>1. writer \in [st : {"count", "send"}, n : Nat]
      BY <1>1 DEF OnWriteCount, ResumeInv, SenderOK, Resting
    <2>2. writer'.st = "send" /\ writer'.n = writer.n /\ writer' \in [st : {"count", "send"}, n : Nat]
      BY <1>1, <2>1 DEF OnWriteCount
    <2>3. SenderOK'
      BY <1>1, <2>1, <2>2 DEF OnWriteCount, ResumeInv, SenderOK, Resting
    <2>4. Offered' = Offered
      BY <1>1, <2>1, <2>2 DEF OnWriteCount, ResumeInv, SenderOK, Offered
    <2>5. WireOK'
      BY <1>1, <2>4 DEF OnWriteCount, ResumeInv, WireOK
    <2>6. AcksOK' /\ InOrderOnce' /\ KeepsUnread'
      BY <1>1 DEF OnWriteCount, ResumeInv, AcksOK, InOrderOnce, KeepsUnread
    <2> QED
      BY <2>3, <2>5, <2>6 DEF ResumeInv
  <1>2. CASE Transmit
    <2>1. writer.n \in Nat /\ writer.n <= sentPos /\ sentPos \in Nat /\ Offered = sentPos - writer.n
      BY <1>2 DEF Transmit, ResumeInv, SenderOK, Offered, Resting
    <2>2. SenderOK'
      BY <1>2, <2>1 DEF Transmit, ResumeInv, SenderOK, Resting
    <2>3. Offered' = sentPos
      BY <1>2 DEF Transmit, Offered, Resting
    <2>4. ASSUME up PROVE wire' = Bytes(recvPos, Len(wire) + writer.n) /\ Len(wire') = Len(wire) + writer.n
      <3>1. recvPos \in Nat /\ Len(wire) \in Nat /\ recvPos + Len(wire) = sentPos - writer.n
        BY <2>1, <2>4 DEF ResumeInv, WireOK
      <3>2. Bytes(recvPos, Len(wire)) \o Bytes(recvPos + Len(wire), writer.n) = Bytes(recvPos, Len(wire) + writer.n)
        BY <2>1, <3>1, BytesConcat, ZenonT(60)
      <3>3. wire' = Bytes(recvPos, Len(wire) + writer.n)
        BY <1>2, <2>4, <3>1, <3>2, Zenon DEF Transmit, ResumeInv, WireOK
      <3>4. Len(wire) + writer.n \in Nat
        BY <2>1, <3>1
      <3> QED
        BY <3>1, <3>3, <3>4, BytesSeq, Zenon
    <2>5. ASSUME ~up PROVE wire' = wire
      BY <1>2, <2>5 DEF Transmit
    <2>6. WireOK'
      <3>1. recvPos' = recvPos /\ up' = up /\ failed' = failed
        BY <1>2 DEF Transmit
      <3>2. CASE up
        BY <2>1, <2>3, <2>4, <3>1, <3>2, SMTT(60) DEF ResumeInv, WireOK
      <3>3. CASE ~up
        BY <2>1, <2>3, <2>5, <3>1, <3>3 DEF ResumeInv, WireOK
      <3> QED
        BY <3>2, <3>3
    <2>7. AcksOK' /\ InOrderOnce' /\ KeepsUnread'
      BY <1>2 DEF Transmit, ResumeInv, AcksOK, InOrderOnce, KeepsUnread
    <2> QED
      BY <2>2, <2>6, <2>7 DEF ResumeInv
  <1> QED
    BY <1>1, <1>2

(* A read moves the first bytes in flight to the application.              *)
LEMMA OnReadKeeps ==
  ASSUME ResumeInv, NEW n \in Nat, OnRead(n)
  PROVE  ResumeInv'
  <1> DEFINE l == Len(wire)
  <1>1. /\ recvPos \in Nat /\ l \in Nat /\ n \in 0 .. l /\ l - n \in Nat /\ recvPos + n \in Nat
        /\ wire = Bytes(recvPos, l) /\ delivered = Bytes(0, recvPos)
    BY DEF OnRead, ResumeInv, WireOK, InOrderOnce
  <1>2. up /\ recvPos + l = Offered
    BY <1>1 DEF OnRead, ResumeInv, WireOK
  <1>3. wire' = Bytes(recvPos + n, l - n)
    BY <1>1, BytesSubSeq, SMTT(60) DEF OnRead
  <1>4. Len(wire') = l - n
    BY <1>1, <1>3, BytesSeq, Zenon
  <1>5. SubSeq(wire, 1, n) = Bytes(recvPos, n)
    <2> HIDE DEF l
    <2>1. SubSeq(Bytes(recvPos, l), 1, n) = Bytes(recvPos, n)
      BY <1>1, BytesPrefix, Zenon
    <2> QED
      BY <1>1, <2>1, Zenon
  <1>6. delivered' = Bytes(0, recvPos + n)
    <2>1. Bytes(0, recvPos) \o Bytes(0 + recvPos, n) = Bytes(0, recvPos + n)
      BY <1>1, BytesConcat, ZenonT(60)
    <2>2. 0 + recvPos = recvPos
      BY <1>1
    <2>3. delivered' = delivered \o SubSeq(wire, 1, n)
      BY DEF OnRead
    <2> QED
      BY <1>1, <1>5, <2>1, <2>2, <2>3, Zenon
  <1>7. recvPos' = recvPos + n /\ ring' = ring /\ up' = up /\ failed' = failed
    BY DEF OnRead
  <1>8. SenderOK'
    BY DEF OnRead, ResumeInv, SenderOK
  <1>9. WireOK'
    <2>1. Offered' = Offered
      BY DEF OnRead, Offered
    <2>2. ~failed
      BY <1>2 DEF ResumeInv, WireOK
    <2> QED
      BY <1>1, <1>2, <1>3, <1>4, <1>7, <2>1, <2>2, SMTT(60) DEF WireOK
  <1>10. AcksOK'
    <2>1. 0 .. recvPos \subseteq 0 .. recvPos'
      BY <1>1, <1>7
    <2> QED
      BY <2>1, Zenon DEF OnRead, ResumeInv, AcksOK
  <1>11. InOrderOnce'
    BY <1>6, <1>7 DEF InOrderOnce
  <1>12. KeepsUnread'
    <2>1. ~failed /\ RingTail(ring) \in Nat
      BY <1>2, TailNat DEF ResumeInv, WireOK, SenderOK
    <2> QED
      BY <1>1, <1>7, <2>1 DEF ResumeInv, KeepsUnread
  <1> QED
    BY <1>8, <1>9, <1>10, <1>11, <1>12 DEF ResumeInv

(* A checkpoint is sent, examined and stored: no byte moves.               *)
LEMMA CheckpointKeeps ==
  ASSUME ResumeInv,
         \/ SendCheckpoint
         \/ \E h \in Handler :
              \/ \E peerAck \in reported : CheckpointLoad(h, peerAck)
              \/ CheckpointStore(h)
  PROVE  ResumeInv'
  <1>1. UNCHANGED <<ring, sentPos, recvPos, writer, up, wire, delivered, failed>>
    BY DEF SendCheckpoint, CheckpointLoad, CheckpointStore
  <1>2. SenderOK'
    BY <1>1 DEF ResumeInv, SenderOK
  <1>3. WireOK'
    BY <1>1 DEF ResumeInv, WireOK, Offered
  <1>4. InOrderOnce' /\ KeepsUnread'
    BY <1>1 DEF ResumeInv, InOrderOnce, KeepsUnread
  <1>5. CASE SendCheckpoint
    <2>1. recvPos \in 0 .. recvPos
      BY DEF ResumeInv, WireOK
    <2>2. AcksOK'
      BY <1>5, <2>1, Zenon DEF SendCheckpoint, ResumeInv, AcksOK
    <2> QED
      BY <1>2, <1>3, <1>4, <2>2 DEF ResumeInv
  <1>6. ASSUME NEW h \in Handler, NEW peerAck \in reported, CheckpointLoad(h, peerAck)
        PROVE  AcksOK'
    <2>1. peerAck \in 0 .. recvPos
      BY DEF ResumeInv, AcksOK
    <2>2. [st |-> "store", ack |-> peerAck] \in [st : {"store", "discard"}, ack : 0 .. recvPos]
      BY <2>1
    <2> QED
      BY <1>6, <2>2 DEF CheckpointLoad, ResumeInv, AcksOK
  <1>7. ASSUME NEW h \in Handler, CheckpointStore(h)
        PROVE  AcksOK'
    <2>1. handler[h] \in [st : {"store", "discard"}, ack : 0 .. recvPos]
      BY <1>7 DEF CheckpointStore, ResumeInv, AcksOK, Resting
    <2>2. [handler[h] EXCEPT !.st = "discard"] \in [st : {"store", "discard"}, ack : 0 .. recvPos]
      BY <2>1
    <2> QED
      BY <1>7, <2>2 DEF CheckpointStore, ResumeInv, AcksOK
  <1> QED
    BY <1>2, <1>3, <1>4, <1>5, <1>6, <1>7, Zenon DEF ResumeInv

(* Whichever checkpoint is discarded last, it is one the reader has passed.*)
LEMMA CheckpointDiscardKeeps ==
  ASSUME ResumeInv, NEW h \in Handler, CheckpointDiscard(h)
  PROVE  ResumeInv'
  <1>1. handler[h] \in [st : {"store", "discard"}, ack : 0 .. recvPos]
    BY DEF CheckpointDiscard, ResumeInv, AcksOK, Resting
  <1>2. recvPos \in Nat /\ handler[h].ack \in Int /\ handler[h].ack <= recvPos
    BY <1>1 DEF ResumeInv, WireOK
  <1>3. RingOK(ring)
    BY DEF ResumeInv, SenderOK
  <1>4. /\ RingOK(ring') /\ ring'.head = ring.head /\ ring'.maxCap = ring.maxCap
        /\ RingTail(ring') = RingTail(ring) \/ RingTail(ring') <= handler[h].ack
    BY <1>2, <1>3, DiscardOK, Zenon DEF CheckpointDiscard
  <1>5. RingTail(ring) \in Nat /\ RingTail(ring') \in Nat
    BY <1>3, <1>4, TailNat, Zenon
  <1>6. SenderOK'
    BY <1>4 DEF CheckpointDiscard, ResumeInv, SenderOK
  <1>7. WireOK' /\ InOrderOnce'
    BY DEF CheckpointDiscard, ResumeInv, WireOK, Offered, InOrderOnce
  <1>8. AcksOK'
    BY DEF CheckpointDiscard, ResumeInv, AcksOK
  <1>9. KeepsUnread'
    <2>1. recvPos' = recvPos /\ failed' = failed
      BY DEF CheckpointDiscard
    <2> QED
      BY <1>2, <1>4, <1>5, <2>1 DEF ResumeInv, KeepsUnread
  <1> QED
    BY <1>6, <1>7, <1>8, <1>9 DEF ResumeInv

(* A resume puts exactly the unread bytes in flight, or fails because the  *)
(* ring has overflowed.                                                    *)
LEMMA ResumeKeeps ==
  ASSUME ResumeInv, Resume
  PROVE  ResumeInv'
  <1>1. RingOK(ring) /\ recvPos \in Nat /\ recvPos <= ring.head /\ ring.head \in Nat /\ ring.maxCap \in Nat
    BY DEF Resume, ResumeInv, SenderOK, WireOK, Offered, Resting, RingOK
  <1>2. RingTail(ring) \in Nat
    BY <1>1, TailNat, Zenon
  <1>3. Offered = ring.head /\ Offered' = Offered
    BY DEF Resume, ResumeInv, SenderOK, Offered, Resting
  <1>4. SenderOK' /\ AcksOK' /\ InOrderOnce'
    BY DEF Resume, ResumeInv, SenderOK, AcksOK, InOrderOnce
  <1>5. CASE recvPos < RingTail(ring)
    <2>1. RetransmitFrom(recvPos) = ErrBeforeRing
      BY <1>1, <1>5, BytesFromOK DEF RetransmitFrom
    <2>2. failed' = TRUE /\ up' = up /\ ~up /\ wire' = wire /\ recvPos' = recvPos /\ ring' = ring
      BY <2>1 DEF Resume
    <2>3. WireOK'
      BY <1>3, <2>2 DEF ResumeInv, WireOK
    <2>4. KeepsUnread'
      BY <1>1, <1>2, <1>5, <2>2 DEF ResumeInv, KeepsUnread
    <2> QED
      BY <1>4, <2>3, <2>4 DEF ResumeInv
  <1>6. CASE ~(recvPos < RingTail(ring))
    <2>1. RetransmitFrom(recvPos) = Bytes(recvPos, ring.head - recvPos)
      BY <1>1, <1>2, <1>6, BytesFromOK DEF RetransmitFrom
    <2>2. ring.head - recvPos \in Nat
      BY <1>1
    <2>3. /\ Bytes(recvPos, ring.head - recvPos) \in Seq(Nat)
          /\ Len(Bytes(recvPos, ring.head - recvPos)) = ring.head - recvPos
      BY <1>1, <2>2, BytesSeq, Zenon
    <2>4. RetransmitFrom(recvPos) # ErrBeforeRing
      BY <2>1, <2>3, RingAssumption
    <2>5. /\ up' = TRUE /\ failed' = failed /\ ~failed /\ recvPos' = recvPos /\ ring' = ring
          /\ wire' = Bytes(recvPos, ring.head - recvPos)
      BY <2>1, <2>4 DEF Resume
    <2>6. WireOK'
      BY <1>1, <1>3, <2>2, <2>3, <2>5, SMTT(60) DEF WireOK
    <2>7. KeepsUnread'
      BY <2>5 DEF ResumeInv, KeepsUnread
    <2> QED
      BY <1>4, <2>6, <2>7 DEF ResumeInv
  <1> QED
    BY <1>5, <1>6, Zenon

(* A lost connection loses what is in flight and nothing else.             *)
LEMMA DisconnectKeeps ==
  ASSUME ResumeInv, Disconnect
  PROVE  ResumeInv'
  <1>1. << >> = Bytes(recvPos, 0) /\ Len(<< >>) = 0
    BY BytesSeq DEF ResumeInv, WireOK
  <1>2. Offered' = Offered /\ ~up' /\ wire' = << >> /\ recvPos' = recvPos
    BY DEF Disconnect, Offered
  <1>3. WireOK'
    BY <1>1, <1>2, Zenon DEF ResumeInv, WireOK
  <1>4. SenderOK' /\ AcksOK' /\ InOrderOnce' /\ KeepsUnread'
    BY DEF Disconnect, ResumeInv, SenderOK, AcksOK, InOrderOnce, KeepsUnread
  <1> QED
    BY <1>3, <1>4 DEF ResumeInv

(* For every ring capacity and any number of handlers, the positions of    *)
(* sender, connection and reader stay in step.                             *)
THEOREM ResumeInvariant == Spec => []ResumeInv
  <1>1. ResumeInv /\ [Next]_vars => ResumeInv'
    <2> SUFFICES ASSUME ResumeInv, [Next]_vars PROVE ResumeInv'
      BY Zenon
    <2>1. CASE UNCHANGED vars
      BY <2>1 DEF vars, ResumeInv, SenderOK, WireOK, Offered, AcksOK, InOrderOnce, KeepsUnread
    <2>2. CASE Next
      BY <2>2, OnWriteRingKeeps, OnReadKeeps, WriterKeeps, CheckpointKeeps,
         CheckpointDiscardKeeps, ResumeKeeps, DisconnectKeeps, Zenon DEF Next
    <2> QED
      BY <2>1, <2>2
  <1> QED
    BY <1>1, ResumeInitially, PTL DEF Spec

(* The application reads the stream's bytes in order, each once, whatever  *)
(* is lost, retransmitted or acknowledged late (RetransmitFrom, OnRead).   *)
THEOREM ResumeInOrderOnce == Spec => []InOrderOnce
  <1>1. ResumeInv => InOrderOnce
    BY DEF ResumeInv
  <1> QED
    BY <1>1, ResumeInvariant, PTL

(* No interleaving of checkpoint handlers frees an unread byte, and a      *)
(* resume fails only when more is unread than the ring can hold.           *)
THEOREM ResumeKeepsUnread == Spec => []KeepsUnread
  <1>1. ResumeInv => KeepsUnread
    BY DEF ResumeInv
  <1> QED
    BY <1>1, ResumeInvariant, PTL
=============================================================================
