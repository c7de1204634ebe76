----------------------------- MODULE RingMachine -----------------------------
(***************************************************************************)
(* A ring buffer in use: any sequence of Write and Discard on a ring built *)
(* by either constructor.                                                  *)
(***************************************************************************)
EXTENDS RingBuffer

CONSTANT CapArg  \* the capacities the constructors may be called with

ASSUME CapAssumption == CapArg \subseteq Int

VARIABLES
  ring,   \* the RingBuffer
  acked   \* the largest argument of Discard so far (history)

vars == <<ring, acked>>

Init ==
  /\ \/ \E c \in CapArg : ring = NewRingBuffer(c)
     \/ \E mn, mx \in CapArg : ring = NewAdaptiveRingBuffer(mn, mx)
  /\ acked = 0

DoWrite(n) ==
  /\ ring' = Write(ring, Bytes(ring.head, n))
  /\ UNCHANGED acked

DoDiscard(before) ==
  /\ ring' = Discard(ring, before)
  /\ acked' = IF before > acked THEN before ELSE acked

Next ==
  \/ \E n \in Nat : DoWrite(n)
  \/ \E before \in Int : DoDiscard(before)

Spec == Init /\ [][Next]_vars

-----------------------------------------------------------------------------
(* The fields have their types, the ring fits its capacity and the         *)
(* capacity stays between its two bounds.                                  *)
TypeOK ==
  /\ ring \in [buf : Seq(Nat), cap : Nat, minCap : Nat, maxCap : Nat, head : Nat]
  /\ acked \in Nat
  /\ 0 < ring.minCap
  /\ ring.minCap <= ring.cap
  /\ ring.cap <= ring.maxCap
  /\ Len(ring.buf) <= ring.cap
  /\ Len(ring.buf) <= ring.head

(* The ring holds the last bytes of the stream, none missing, moved or     *)
(* duplicated by the trimming in Write and Discard or by the copy on       *)
(* shrink.                                                                 *)
Contiguous == ring.buf = Bytes(RingTail(ring), Len(ring.buf))

(* BytesFrom(pos) is exactly the stream from pos to head, or ErrBeforeRing *)
(* when part of that is gone; never a shifted or a partial answer.         *)
BytesFromExact ==
  \A pos \in 0 .. ring.head + 1 :
    BytesFrom(ring, pos) =
      IF pos < RingTail(ring) THEN ErrBeforeRing
      ELSE Bytes(pos, IF pos > ring.head THEN 0 ELSE ring.head - pos)

(* "cap grows toward maxCap to avoid eviction": whatever the history of    *)
(* growing and shrinking, the only bytes gone are those Discard was asked  *)
(* to free and those more than maxCap behind the head.                     *)
KeepsUnacked == RingTail(ring) <= acked \/ RingTail(ring) <= ring.head - ring.maxCap

(* "The hysteresis between the two thresholds prevents oscillation": a     *)
(* shrink leaves at least as much room as there are bytes, so the next     *)
(* Write of that many bytes does not grow the ring back.                   *)
ShrinkLeavesRoom == [][ring'.cap < ring.cap => 2 * Len(ring'.buf) <= ring'.cap]_vars
=============================================================================
