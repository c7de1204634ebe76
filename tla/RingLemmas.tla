----------------------------- MODULE RingLemmas -----------------------------
(***************************************************************************)
(* What each method of the ring buffer does to a ring of the right shape,  *)
(* for every ring: the lemmas RingProofs and ResumeProofs rest on.         *)
(***************************************************************************)
EXTENDS RingBuffer, SequenceTheorems, TLAPS

(* Bytes(pos, n) is a sequence of n bytes, its i-th one being pos + i.     *)
LEMMA BytesSeq ==
  ASSUME NEW pos \in Nat, NEW n \in Nat
  PROVE  /\ Bytes(pos, n) \in Seq(Nat)
         /\ Len(Bytes(pos, n)) = n
         /\ \A i \in 1 .. n : Bytes(pos, n)[i] = pos + i
  BY DEF Bytes

(* The tail of a run of bytes is a run of bytes.                           *)
LEMMA BytesSubSeq ==
  ASSUME NEW pos \in Nat, NEW n \in Nat, NEW k \in 0 .. n
  PROVE  SubSeq(Bytes(pos, n), k + 1, n) = Bytes(pos + k, n - k)
  <1> DEFINE s == SubSeq(Bytes(pos, n), k + 1, n)
  <1>1. \A i \in k + 1 .. n : Bytes(pos, n)[i] \in Nat
    BY DEF Bytes
  <1>2. /\ s \in Seq(Nat)
        /\ Len(s) = n - k
        /\ \A i \in 1 .. n - k : s[i] = Bytes(pos, n)[k + i]
    BY <1>1, SubSeqProperties, k + 1 \in Int
  <1>3. \A i \in 1 .. n - k : s[i] = Bytes(pos + k, n - k)[i]
    BY <1>2 DEF Bytes
  <1>4. /\ Bytes(pos + k, n - k) \in Seq(Nat)
        /\ Len(Bytes(pos + k, n - k)) = n - k
    BY BytesSeq, pos + k \in Nat, n - k \in Nat, Zenon
  <1> QED
    BY <1>2, <1>3, <1>4, SeqEqual

(* So is its beginning.                                                    *)
LEMMA BytesPrefix ==
  ASSUME NEW pos \in Nat, NEW n \in Nat, NEW k \in 0 .. n
  PROVE  SubSeq(Bytes(pos, n), 1, k) = Bytes(pos, k)
  <1> DEFINE s == SubSeq(Bytes(pos, n), 1, k)
  <1>1. \A i \in 1 .. k : Bytes(pos, n)[i] \in Nat
    BY DEF Bytes
  <1>2. /\ s \in Seq(Nat)
        /\ Len(s) = k
        /\ \A i \in 1 .. k : s[i] = Bytes(pos, n)[i]
    BY <1>1, SubSeqProperties
  <1>3. \A i \in 1 .. k : s[i] = Bytes(pos, k)[i]
    BY <1>2 DEF Bytes
  <1>4. Bytes(pos, k) \in Seq(Nat) /\ Len(Bytes(pos, k)) = k
    BY BytesSeq
  <1> QED
    BY <1>2, <1>3, <1>4, SeqEqual

(* Two adjacent runs of bytes make one.                                    *)
LEMMA BytesConcat ==
  ASSUME NEW pos \in Nat, NEW m \in Nat, NEW n \in Nat
  PROVE  Bytes(pos, m) \o Bytes(pos + m, n) = Bytes(pos, m + n)
  <1> DEFINE a == Bytes(pos, m)
             b == Bytes(pos + m, n)
             c == Bytes(pos, m + n)
  <1>1. /\ a \in Seq(Nat) /\ Len(a) = m /\ \A i \in 1 .. m : a[i] = pos + i
        /\ b \in Seq(Nat) /\ Len(b) = n /\ \A i \in 1 .. n : b[i] = pos + m + i
        /\ c \in Seq(Nat) /\ Len(c) = m + n /\ \A i \in 1 .. m + n : c[i] = pos + i
    BY BytesSeq, pos + m \in Nat, m + n \in Nat, Zenon
  <1> HIDE DEF a, b, c
  <1>2. /\ a \o b \in Seq(Nat)
        /\ Len(a \o b) = Len(a) + Len(b)
        /\ \A i \in 1 .. Len(a) + Len(b) : (a \o b)[i] = IF i <= Len(a) THEN a[i] ELSE b[i - Len(a)]
    BY <1>1, ConcatProperties, Zenon
  <1>3. ASSUME NEW i \in 1 .. m + n PROVE (a \o b)[i] = c[i]
    <2>1. (a \o b)[i] = IF i <= m THEN a[i] ELSE b[i - m]
      BY <1>1, <1>2, Zenon
    <2>2. CASE i <= m
      BY <1>1, <2>1, <2>2, i \in 1 .. m
    <2>3. CASE ~(i <= m)
      BY <1>1, <2>1, <2>3, i - m \in 1 .. n
    <2> QED
      BY <2>2, <2>3, Zenon
  <1>4. a \o b = c
    BY <1>1, <1>2, <1>3, SeqEqual, Zenon
  <1> QED
    BY <1>4 DEF a, b, c

-----------------------------------------------------------------------------
(* How many bytes of l old and n new ones a ring of capacity c keeps.      *)
KeptLen(l, n, c) == IF l + n <= c THEN l + n ELSE c

(* Whatever Write trims, it keeps the last bytes of the stream.            *)
LEMMA KeptBytes ==
  ASSUME NEW h \in Nat, NEW l \in Nat, NEW n \in Nat, NEW c \in Nat, l <= h, l <= c
  PROVE  /\ KeptLen(l, n, c) \in Nat
         /\ Kept(Bytes(h - l, l), Bytes(h, n), c)
              = Bytes(h + n - KeptLen(l, n, c), KeptLen(l, n, c))
  <1> DEFINE old == Bytes(h - l, l)
             new == Bytes(h, n)
  <1>1. h - l \in Nat /\ Len(old) = l /\ Len(new) = n
    BY BytesSeq, h - l \in Nat
  <1>2. CASE n >= c
    <2>1. SubSeq(new, n - c + 1, n) = Bytes(h + (n - c), n - (n - c))
      BY <1>2, BytesSubSeq, n - c \in 0 .. n, Zenon
    <2>2. KeptLen(l, n, c) = c
      BY <1>2 DEF KeptLen
    <2>3. h + (n - c) = h + n - c /\ n - (n - c) = c
      OBVIOUS
    <2> QED
      BY <1>1, <1>2, <2>1, <2>2, <2>3 DEF Kept
  <1>3. CASE n < c /\ l + n <= c
    <2>1. old \o Bytes((h - l) + l, n) = Bytes(h - l, l + n)
      BY <1>1, BytesConcat, ZenonT(60)
    <2>2. (h - l) + l = h /\ h + n - (l + n) = h - l
      OBVIOUS
    <2>3. KeptLen(l, n, c) = l + n
      BY <1>3 DEF KeptLen
    <2>4. Kept(old, new, c) = old \o new
      BY <1>1, <1>3 DEF Kept
    <2>5. Kept(old, new, c) = Bytes(h + n - (l + n), l + n)
      BY <2>1, <2>2, <2>4, Zenon
    <2> QED
      BY <2>3, <2>5
  <1>4. CASE n < c /\ l + n > c
    <2> DEFINE o == l + n - c
    <2>1. o \in 0 .. l /\ (h - l) + o \in Nat /\ l - o \in Nat
      BY <1>1, <1>4
    <2>2. SubSeq(old, o + 1, l) = Bytes((h - l) + o, l - o)
      BY <1>1, <2>1, BytesSubSeq, ZenonT(60)
    <2>3. Bytes((h - l) + o, l - o) \o Bytes(((h - l) + o) + (l - o), n) = Bytes((h - l) + o, (l - o) + n)
      BY <2>1, BytesConcat, ZenonT(60)
    <2>4. ((h - l) + o) + (l - o) = h /\ (h - l) + o = h + n - c /\ (l - o) + n = c
      OBVIOUS
    <2>5. KeptLen(l, n, c) = c
      BY <1>4 DEF KeptLen
    <2>6. Kept(old, new, c) = SubSeq(old, o + 1, l) \o new
      <3> HIDE DEF old, new
      <3> QED
        BY <1>1, <1>4 DEF Kept
    <2>7. Kept(old, new, c) = Bytes(h + n - c, c)
      BY <2>2, <2>3, <2>4, <2>6, Zenon
    <2> QED
      BY <2>5, <2>7
  <1> QED
    BY <1>2, <1>3, <1>4

-----------------------------------------------------------------------------
(* The shape every ring has between two calls.                             *)
RingOK(r) ==
  /\ r \in [buf : Seq(Nat), cap : Nat, minCap : Nat, maxCap : Nat, head : Nat]
  /\ 0 < r.minCap
  /\ r.minCap <= r.cap
  /\ r.cap <= r.maxCap
  /\ Len(r.buf) <= r.cap
  /\ Len(r.buf) <= r.head
  /\ r.buf = Bytes(RingTail(r), Len(r.buf))

(* RingBuffer.Tail never goes below the start of the stream.               *)
LEMMA TailNat ==
  ASSUME NEW r, RingOK(r)
  PROVE  Len(r.buf) \in Nat /\ RingTail(r) \in Nat /\ RingTail(r) + Len(r.buf) = r.head
  BY DEF RingOK, RingTail

(* NewRingBuffer and NewAdaptiveRingBuffer repair nonsensical capacities.  *)
LEMMA NewOK ==
  ASSUME NEW a \in Int, NEW b \in Int
  PROVE  RingOK(NewRingBuffer(a)) /\ RingOK(NewAdaptiveRingBuffer(a, b))
  <1>1. << >> = Bytes(0, 0) /\ Len(<< >>) = 0
    BY BytesSeq
  <1>2. RingOK(NewRingBuffer(a))
    BY <1>1, RingAssumption DEF RingOK, RingTail, NewRingBuffer
  <1>3. RingOK(NewAdaptiveRingBuffer(a, b))
    BY <1>1, RingAssumption, SMTT(60) DEF RingOK, RingTail, NewAdaptiveRingBuffer
  <1> QED
    BY <1>2, <1>3

(* Write grows the ring up to maxCap before it evicts anything.            *)
LEMMA GrownOK ==
  ASSUME NEW r, RingOK(r), NEW n \in Nat
  PROVE  /\ Grown(r, n) \in Nat
         /\ r.cap <= Grown(r, n)
         /\ Grown(r, n) <= r.maxCap
         /\ Len(r.buf) + n > Grown(r, n) => Grown(r, n) = r.maxCap
  BY SMTT(60) DEF RingOK, Grown, MaxOf, MinOf

(* Write of the next n bytes of the stream keeps the shape, and keeps as   *)
(* many bytes as the grown capacity can hold.                              *)
LEMMA WriteOK ==
  ASSUME NEW r, RingOK(r), NEW n \in Nat
  PROVE  LET w == Write(r, Bytes(r.head, n)) IN
         /\ RingOK(w)
         /\ w.head = r.head + n /\ w.minCap = r.minCap /\ w.maxCap = r.maxCap
         /\ w.cap = Grown(r, n)
         /\ Len(w.buf) = KeptLen(Len(r.buf), n, Grown(r, n))
  <1> DEFINE w == Write(r, Bytes(r.head, n))
             l == Len(r.buf)
             g == Grown(r, n)
             k == KeptLen(l, n, g)
             b == Bytes(r.head + n - k, k)
  <1>1. r.head \in Nat /\ l \in Nat /\ l <= r.head /\ r.buf = Bytes(r.head - l, l) /\ l <= r.cap
    BY DEF RingOK, RingTail
  <1>2. g \in Nat /\ r.cap <= g /\ g <= r.maxCap
    BY GrownOK
  <1>3. Len(Bytes(r.head, n)) = n
    BY <1>1, BytesSeq, Zenon
  <1>4. k \in Nat /\ k <= g /\ k <= r.head + n
    BY <1>1, <1>2 DEF KeptLen
  <1>5. Kept(r.buf, Bytes(r.head, n), g) = Bytes(r.head + n - k, k)
    <2>1. l <= g
      BY <1>1, <1>2 DEF RingOK
    <2>2. Kept(Bytes(r.head - l, l), Bytes(r.head, n), g) = Bytes(r.head + n - k, k)
      <3>1. ASSUME NEW h \in Nat, NEW x \in Nat, NEW y \in Nat, x <= h, x <= y
            PROVE  Kept(Bytes(h - x, x), Bytes(h, n), y) = Bytes(h + n - KeptLen(x, n, y), KeptLen(x, n, y))
        BY <3>1, KeptBytes
      <3> HIDE DEF l, g
      <3> QED BY <1>1, <1>2, <2>1, <3>1, ZenonT(60) DEF k
    <2> QED
      BY <1>1, <2>2
  <1>6. w = [r EXCEPT !.head = @ + n, !.cap = g, !.buf = b]
    BY <1>3, <1>5 DEF Write
  <1>7. r.head + n - k \in Nat
    BY <1>1, <1>4
  <1>8. b \in Seq(Nat) /\ Len(b) = k
    <2> HIDE DEF k
    <2> QED BY <1>4, <1>7, BytesSeq
  <1> HIDE DEF w, l, g, k, b
  <1>9. /\ w.head = r.head + n /\ w.minCap = r.minCap /\ w.maxCap = r.maxCap
        /\ w.cap = g /\ w.buf = b
        /\ w \in [buf : Seq(Nat), cap : Nat, minCap : Nat, maxCap : Nat, head : Nat]
    BY <1>1, <1>2, <1>6, <1>8, r.head + n \in Nat, Zenon DEF RingOK
  <1>10. RingTail(w) = r.head + n - k /\ w.buf = Bytes(RingTail(w), Len(w.buf))
    <2>1. RingTail(w) = r.head + n - k
      BY <1>1, <1>4, <1>8, <1>9, SMTT(60) DEF RingTail
    <2> QED
      BY <1>8, <1>9, <2>1 DEF b
  <1>11. RingOK(w)
    BY <1>1, <1>2, <1>4, <1>8, <1>9, <1>10, SMTT(60) DEF RingOK
  <1> QED
    BY <1>8, <1>9, <1>11 DEF w, l, g, k

(* Discard keeps the shape, drops nothing at or after its argument, and    *)
(* when it shrinks leaves room for as many bytes as it kept.               *)
LEMMA DiscardOK ==
  ASSUME NEW r, RingOK(r), NEW before \in Int
  PROVE  LET d == Discard(r, before) IN
         /\ RingOK(d)
         /\ d.head = r.head /\ d.minCap = r.minCap /\ d.maxCap = r.maxCap
         /\ RingTail(d) = RingTail(r) \/ RingTail(d) <= before
         /\ d.cap < r.cap => 2 * Len(d.buf) <= d.cap
  <1> DEFINE d == Discard(r, before)
             t == RingTail(r)
             l == Len(r.buf)
             k == IF before - t >= l THEN 0 ELSE l - (before - t)
             b == Bytes(r.head - k, k)
  <1>1. l \in Nat /\ t \in Nat /\ t + l = r.head /\ r.head \in Nat /\ r.buf = Bytes(t, l)
    BY TailNat, Zenon DEF RingOK
  <1>2. CASE before <= t
    <2>1. d = r
      BY <1>2 DEF Discard
    <2>2. ~(r.cap < r.cap)
      BY DEF RingOK
    <2> QED
      BY <2>1, <2>2, Zenon
  <1>3. CASE before > t
    <2>1. k \in Nat /\ k <= l /\ r.head - k \in Nat /\ (r.head - k <= before)
      BY <1>1, <1>3, SMTT(60)
    <2>2. Undropped(r, before) = b
      <3>1. CASE before - t >= l
        <4>1. k = 0 /\ r.head - 0 = r.head
          BY <3>1, <1>1
        <4>2. ASSUME NEW x \in Nat PROVE Bytes(x, 0) = << >>
          BY BytesSeq
        <4>3. b = << >>
          <5> HIDE DEF k
          <5> QED BY <1>1, <4>1, <4>2
        <4> QED
          BY <3>1, <4>3 DEF Undropped
      <3>2. CASE ~(before - t >= l)
        <4>1. before - t \in 0 .. l
          BY <3>2, <1>1, <1>3
        <4>2. SubSeq(Bytes(t, l), (before - t) + 1, l) = Bytes(t + (before - t), l - (before - t))
          <5> HIDE DEF t, l
          <5> QED BY <1>1, <4>1, BytesSubSeq, Zenon
        <4>3. t + (before - t) = r.head - k /\ l - (before - t) = k
          BY <1>1, <3>2
        <4>4. Undropped(r, before) = SubSeq(r.buf, (before - t) + 1, l)
          BY <3>2, Zenon DEF Undropped
        <4> HIDE DEF t, l, k
        <4> QED
          BY <1>1, <4>2, <4>3, <4>4, Zenon DEF b
      <3> QED
        BY <3>1, <3>2
    <2>3. b \in Seq(Nat) /\ Len(b) = k
      <3> HIDE DEF k
      <3> QED BY <2>1, BytesSeq, Zenon
    <2>4. d = [r EXCEPT !.buf = b, !.cap = Shrunk(r, k)]
      <3>1. ~(before <= RingTail(r))
        BY <1>1, <1>3
      <3>2. Shrunk(r, Len(Undropped(r, before))) = Shrunk(r, k)
        BY <2>2, <2>3, Zenon
      <3> HIDE DEF b, k
      <3> QED BY <2>2, <3>1, <3>2 DEF Discard
    <2>5. /\ Shrunk(r, k) \in Nat
          /\ r.minCap <= Shrunk(r, k) /\ Shrunk(r, k) <= r.cap
          /\ k <= Shrunk(r, k)
          /\ Shrunk(r, k) < r.cap => 2 * k <= Shrunk(r, k)
      <3>1. r.cap \in Nat /\ r.minCap \in Nat /\ r.minCap <= r.cap /\ k <= r.cap
        BY <1>1, <2>1 DEF RingOK
      <3> HIDE DEF k
      <3> QED BY <2>1, <3>1, SMTT(60) DEF Shrunk, MaxOf, MinOf
    <2> HIDE DEF d, b, k, t, l
    <2>6. /\ d.head = r.head /\ d.minCap = r.minCap /\ d.maxCap = r.maxCap
          /\ d.cap = Shrunk(r, k) /\ d.buf = b
          /\ d \in [buf : Seq(Nat), cap : Nat, minCap : Nat, maxCap : Nat, head : Nat]
      BY <2>3, <2>4, <2>5, Zenon DEF RingOK
    <2>7. RingTail(d) = r.head - k
      BY <1>1, <2>1, <2>3, <2>6 DEF RingTail
    <2>8. d.buf = Bytes(RingTail(d), Len(d.buf))
      BY <2>3, <2>6, <2>7 DEF b
    <2>9. RingOK(d)
      BY <1>1, <2>1, <2>3, <2>5, <2>6, <2>8, SMTT(60) DEF RingOK
    <2> QED
      BY <2>1, <2>3, <2>5, <2>6, <2>7, <2>9 DEF d
  <1> QED
    BY <1>1, <1>2, <1>3

(* BytesFrom answers from the stream or not at all.                        *)
LEMMA BytesFromOK ==
  ASSUME NEW r, RingOK(r), NEW pos \in Nat
  PROVE  BytesFrom(r, pos) =
           IF pos < RingTail(r) THEN ErrBeforeRing
           ELSE Bytes(pos, IF pos > r.head THEN 0 ELSE r.head - pos)
  <1> DEFINE t == RingTail(r)
             l == Len(r.buf)
  <1>1. l \in Nat /\ t \in Nat /\ t + l = r.head /\ r.head \in Nat /\ r.buf = Bytes(t, l)
    BY TailNat, Zenon DEF RingOK
  <1>2. CASE pos < t
    BY <1>2 DEF BytesFrom
  <1>3. CASE ~(pos < t) /\ pos > r.head
    BY <1>3, BytesSeq, Bytes(pos, 0) = << >> DEF BytesFrom
  <1>4. CASE ~(pos < t) /\ ~(pos > r.head)
    <2>1. pos - t \in 0 .. l
      BY <1>1, <1>4
    <2>2. SubSeq(Bytes(t, l), (pos - t) + 1, l) = Bytes(t + (pos - t), l - (pos - t))
      <3> HIDE DEF t, l
      <3> QED BY <1>1, <2>1, BytesSubSeq, Zenon
    <2>3. t + (pos - t) = pos /\ l - (pos - t) = r.head - pos
      BY <1>1
    <2>4. BytesFrom(r, pos) = SubSeq(r.buf, (pos - t) + 1, l)
      BY <1>4, Zenon DEF BytesFrom
    <2>5. BytesFrom(r, pos) = Bytes(pos, r.head - pos)
      <3> HIDE DEF t, l
      <3> QED BY <1>1, <2>2, <2>3, <2>4, Zenon
    <2> QED
      BY <1>4, <2>5
  <1> QED
    BY <1>2, <1>3, <1>4

(* Write gives bytes up only where the ring is as large as it may become.  *)
LEMMA WriteEvicts ==
  ASSUME NEW r, RingOK(r), NEW n \in Nat
  PROVE  LET w == Write(r, Bytes(r.head, n)) IN
         RingTail(w) = RingTail(r) \/ RingTail(w) = w.head - w.maxCap
  <1> DEFINE w == Write(r, Bytes(r.head, n))
             l == Len(r.buf)
             g == Grown(r, n)
             k == KeptLen(l, n, g)
  <1>1. /\ RingOK(w) /\ w.head = r.head + n /\ w.maxCap = r.maxCap
        /\ Len(w.buf) = k
    BY WriteOK
  <1>2. l \in Nat /\ r.head \in Nat /\ r.maxCap \in Nat
    BY DEF RingOK
  <1>3. g \in Nat /\ (l + n > g => g = r.maxCap)
    BY GrownOK
  <1>4. RingTail(w) = r.head + n - k
    <2>1. RingTail(w) + Len(w.buf) = w.head /\ RingTail(w) \in Nat /\ Len(w.buf) \in Nat
      BY <1>1, TailNat
    <2> HIDE DEF k, w
    <2> QED BY <1>1, <1>2, <2>1, SMTT(60)
  <1> HIDE DEF w
  <1>5. ASSUME l + n <= g PROVE RingTail(w) = RingTail(r)
    BY <1>2, <1>3, <1>4, <1>5, SMTT(60) DEF KeptLen, RingTail
  <1>6. ASSUME l + n > g PROVE RingTail(w) = w.head - w.maxCap
    <2>1. k = r.maxCap
      BY <1>2, <1>3, <1>6 DEF KeptLen
    <2> QED
      BY <1>1, <1>2, <1>4, <2>1
  <1>7. RingTail(w) = RingTail(r) \/ RingTail(w) = w.head - w.maxCap
    BY <1>2, <1>3, <1>5, <1>6
  <1> QED
    BY <1>7 DEF w
=============================================================================
