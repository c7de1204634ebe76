----------------------------- MODULE RingProofs -----------------------------
(***************************************************************************)
(* The ring buffer keeps the stream's bytes, for every capacity and every  *)
(* sequence of calls.                                                      *)
(***************************************************************************)
EXTENDS RingMachine, RingLemmas

(* What Contiguous and KeepsUnacked need to be inductive: the capacity     *)
(* bounds of TypeOK, for without cap <= maxCap a Write could evict early.  *)
IInv == TypeOK /\ Contiguous /\ KeepsUnacked

(* The invariant of the machine gives the shape of its ring ...            *)
LEMMA IInvRing == IInv => RingOK(ring) /\ acked \in Nat
  BY DEF IInv, TypeOK, Contiguous, RingOK

(* ... and is made up of that shape and of KeepsUnacked.                   *)
LEMMA RingIInv ==
  ASSUME RingOK(ring), acked \in Nat, KeepsUnacked
  PROVE  IInv
  BY DEF IInv, TypeOK, Contiguous, RingOK

(* Either constructor builds an empty ring within its bounds.              *)
LEMMA InitIInv == Init => IInv
  <1> SUFFICES ASSUME Init PROVE IInv
    OBVIOUS
  <1>1. RingOK(ring)
    BY NewOK, CapAssumption DEF Init
  <1>2. RingTail(ring) = 0
    BY DEF Init, RingTail, NewRingBuffer, NewAdaptiveRingBuffer
  <1>3. acked = 0
    BY DEF Init
  <1> QED
    BY <1>1, <1>2, <1>3, RingIInv DEF KeepsUnacked

(* Write and Discard preserve the invariant.                               *)
LEMMA NextIInv == IInv /\ [Next]_vars => IInv'
  <1> SUFFICES ASSUME IInv, [Next]_vars PROVE IInv'
    OBVIOUS
  <1>0. RingOK(ring) /\ acked \in Nat
    BY IInvRing
  <1>1. ASSUME NEW n \in Nat, DoWrite(n) PROVE IInv'
    <2>1. /\ RingOK(ring') /\ acked' = acked
          /\ ring'.head = ring.head + n /\ ring'.maxCap = ring.maxCap
      BY <1>0, <1>1, WriteOK DEF DoWrite
    <2>2. RingTail(ring') = RingTail(ring) \/ RingTail(ring') = ring'.head - ring'.maxCap
      BY <1>0, <1>1, WriteEvicts DEF DoWrite
    <2>3. RingTail(ring) \in Nat /\ ring.head \in Nat /\ ring.maxCap \in Nat
      BY <1>0, TailNat DEF RingOK
    <2>4. KeepsUnacked'
      BY <1>0, <2>1, <2>2, <2>3 DEF IInv, KeepsUnacked
    <2> QED
      BY <1>0, <2>1, <2>4 DEF IInv, TypeOK, Contiguous, RingOK
  <1>2. ASSUME NEW before \in Int, DoDiscard(before) PROVE IInv'
    <2>1. /\ RingOK(ring')
          /\ ring'.head = ring.head /\ ring'.maxCap = ring.maxCap
          /\ RingTail(ring') = RingTail(ring) \/ RingTail(ring') <= before
      BY <1>0, <1>2, DiscardOK DEF DoDiscard
    <2>2. acked' \in Nat /\ acked <= acked' /\ before <= acked'
      BY <1>0, <1>2 DEF DoDiscard
    <2>3. RingTail(ring) \in Nat /\ RingTail(ring') \in Nat
      BY <1>0, <2>1, TailNat
    <2>4. KeepsUnacked'
      BY <1>0, <2>1, <2>2, <2>3 DEF IInv, KeepsUnacked
    <2> QED
      BY <2>1, <2>2, <2>4 DEF IInv, TypeOK, Contiguous, RingOK
  <1>3. CASE UNCHANGED vars
    BY <1>3 DEF vars, IInv, TypeOK, Contiguous, KeepsUnacked, RingTail
  <1> QED
    BY <1>1, <1>2, <1>3 DEF Next

(* For all capacities and all sequences of Write and Discard the ring      *)
(* keeps its bounds, its contents and what is not acknowledged.            *)
THEOREM RingInvariant == Spec => []IInv
  BY InitIInv, NextIInv, PTL DEF Spec

(* For all capacities and all sequences of Write and Discard, the ring     *)
(* keeps its types and stays within its capacity bounds.                   *)
THEOREM RingTypeOK == Spec => []TypeOK
  BY RingInvariant, PTL DEF IInv

(* The ring always holds the last bytes of the stream, in order.           *)
THEOREM RingContiguous == Spec => []Contiguous
  BY RingInvariant, PTL DEF IInv

(* No byte is evicted before Discard frees it or maxCap bytes follow it.   *)
THEOREM RingKeepsUnacked == Spec => []KeepsUnacked
  BY RingInvariant, PTL DEF IInv

(* BytesFrom answers with exactly the rest of the stream or ErrBeforeRing. *)
THEOREM RingBytesFromExact == Spec => []BytesFromExact
  <1>1. IInv => BytesFromExact
    BY IInvRing, BytesFromOK DEF BytesFromExact, RingOK
  <1> QED
    BY <1>1, RingInvariant, PTL

(* A shrinking Discard leaves as much room as it leaves bytes.             *)
THEOREM RingShrinkLeavesRoom == Spec => ShrinkLeavesRoom
  <1>1. ASSUME IInv, [Next]_vars
        PROVE  [ring'.cap < ring.cap => 2 * Len(ring'.buf) <= ring'.cap]_vars
    <2>0. RingOK(ring)
      BY <1>1, IInvRing
    <2>1. ASSUME NEW n \in Nat, DoWrite(n) PROVE ~(ring'.cap < ring.cap)
      <3>1. ring'.cap = Grown(ring, n)
        BY <2>0, <2>1, WriteOK DEF DoWrite
      <3>2. Grown(ring, n) \in Nat /\ ring.cap <= Grown(ring, n) /\ ring.cap \in Nat
        BY <2>0, GrownOK DEF RingOK
      <3> QED
        BY <3>1, <3>2
    <2>2. ASSUME NEW before \in Int, DoDiscard(before)
          PROVE  ring'.cap < ring.cap => 2 * Len(ring'.buf) <= ring'.cap
      BY <2>0, <2>2, DiscardOK DEF DoDiscard
    <2> QED
      BY <1>1, <2>1, <2>2 DEF Next
  <1> QED
    BY <1>1, RingInvariant, PTL DEF Spec, ShrinkLeavesRoom
=============================================================================
