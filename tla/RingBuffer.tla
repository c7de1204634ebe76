----------------------------- MODULE RingBuffer -----------------------------
(***************************************************************************)
(* lib/resume/ringbuffer.go: the bytes of a stream kept for retransmission.*)
(* A ring is the record of the struct's fields; every method runs under    *)
(* RingBuffer.mu, so each is one operator from a ring to a ring.           *)
(***************************************************************************)
EXTENDS Integers, Sequences

CONSTANTS
  DefaultRingCapacity,     \* 16 MiB in the code
  DefaultMinRingCapacity,  \* 64 KiB in the code
  ErrBeforeRing            \* the error BytesFrom returns

ASSUME RingAssumption ==
  /\ DefaultRingCapacity \in Nat \ {0}
  /\ DefaultMinRingCapacity \in Nat \ {0}
  /\ ErrBeforeRing \notin Seq(Nat)

(* The ring never looks at the bytes, so the byte at logical position i is *)
(* represented by i + 1 itself: one lost, repeated or moved shows.  These  *)
(* are the n bytes from logical position pos on.                           *)
Bytes(pos, n) == [i \in 1 .. n |-> pos + i]

MaxOf(a, b) == IF a >= b THEN a ELSE b
MinOf(a, b) == IF a <= b THEN a ELSE b

NewRingBuffer(capacity) ==
  LET c == IF capacity <= 0 THEN DefaultRingCapacity ELSE capacity
  IN [buf |-> << >>, cap |-> c, minCap |-> c, maxCap |-> c, head |-> 0]

NewAdaptiveRingBuffer(minCap, maxCap) ==
  LET mn == IF minCap <= 0 THEN DefaultMinRingCapacity ELSE minCap
      mx == IF maxCap <= 0 THEN DefaultRingCapacity ELSE maxCap
      lo == IF mn > mx THEN mx ELSE mn
  IN [buf |-> << >>, cap |-> lo, minCap |-> lo, maxCap |-> mx, head |-> 0]

(* Growth by doubling alone.                                               *)
GrownTwofold(r, n) ==
  IF r.maxCap > r.cap /\ Len(r.buf) + n > r.cap THEN MinOf(2 * r.cap, r.maxCap) ELSE r.cap

(* Adaptive grow: the capacity Write works with.                           *)
Grown(r, n) ==
  IF r.maxCap > r.cap /\ Len(r.buf) + n > r.cap
  THEN MaxOf(r.cap, MinOf(MaxOf(2 * r.cap, Len(r.buf) + n), r.maxCap))
  ELSE r.cap

(* Trimming at the wrong end.                                              *)
KeptOldest(buf, p, c) ==
  LET n == Len(p) IN
  IF n >= c THEN SubSeq(p, n - c + 1, n)
  ELSE IF Len(buf) + n <= c THEN buf \o p
  ELSE SubSeq(buf, 1, c - n) \o p

(* What is kept of buf followed by p in a ring of capacity c.              *)
Kept(buf, p, c) ==
  LET n == Len(p) IN
  IF n >= c THEN SubSeq(p, n - c + 1, n)
  ELSE IF Len(buf) + n <= c THEN buf \o p
  ELSE SubSeq(buf, Len(buf) + n - c + 1, Len(buf)) \o p

Write(r, p) ==
  [r EXCEPT !.head = @ + Len(p),
            !.cap = Grown(r, Len(p)),
            !.buf = Kept(r.buf, p, Grown(r, Len(p)))]

RingTail(r) == r.head - Len(r.buf)

(* An off-by-one at the tail.                                              *)
BytesAfter(r, pos) ==
  IF pos <= RingTail(r) THEN ErrBeforeRing
  ELSE IF pos > r.head THEN << >>
  ELSE SubSeq(r.buf, pos - RingTail(r) + 1, Len(r.buf))

BytesFrom(r, pos) ==
  IF pos < RingTail(r) THEN ErrBeforeRing
  ELSE IF pos > r.head THEN << >>
  ELSE SubSeq(r.buf, pos - RingTail(r) + 1, Len(r.buf))

(* The bytes Discard leaves, once it is past its early return.             *)
Undropped(r, before) ==
  LET drop == before - RingTail(r) IN
  IF drop >= Len(r.buf) THEN << >> ELSE SubSeq(r.buf, drop + 1, Len(r.buf))

(* A shrink to fit.                                                        *)
ShrunkToFit(r, l) ==
  IF r.cap > r.minCap /\ 4 * l < r.cap THEN MaxOf(r.minCap, l) ELSE r.cap

(* Adaptive shrink: the capacity with l bytes left.                        *)
Shrunk(r, l) ==
  IF r.cap > r.minCap /\ 4 * l < r.cap
  THEN MinOf(r.cap, MaxOf(r.cap \div 2, MaxOf(r.minCap, l)))
  ELSE r.cap

Discard(r, before) ==
  IF before <= RingTail(r) THEN r
  ELSE [r EXCEPT !.buf = Undropped(r, before), !.cap = Shrunk(r, Len(Undropped(r, before)))]
=============================================================================
