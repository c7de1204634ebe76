------------------------------- MODULE Metrics -------------------------------
(***************************************************************************)
(* lib/observe/metric.go: goroutines get a histogram of the shared         *)
(* Registry by name and record one sample each while another takes         *)
(* snapshots.  The registry has a lock; a histogram only has atomics, so   *)
(* Observe and Snapshot interleave at every load and add.  Counters and    *)
(* gauges are got in the same way and have a single atomic.                *)
(***************************************************************************)
EXTENDS Integers, Sequences, SequencesExt

CONSTANTS
  Worker,  \* goroutines, one Observe each
  Bounds,  \* Histogram.bounds, ascending
  Sample,  \* the durations observed
  None     \* no histogram

ASSUME MetricsAssumption ==
  /\ Bounds \in Seq(Nat) /\ Bounds # << >>
  /\ \A i, j \in DOMAIN Bounds : i < j => Bounds[i] < Bounds[j]
  /\ Sample \subseteq Nat

VARIABLES
  reg,   \* the histogram registered under the name
  hist,  \* hist[w]: the state of the histogram w made
  obs,   \* obs[w]: where worker w is
  snap,  \* the snapshot being taken, or the last one
  sure   \* the workers done before that snapshot began (history)

vars == <<reg, hist, obs, snap, sure>>

Bucket == 1 .. Len(Bounds) + 1

NewHistogram == [n |-> 0, sum |-> 0, counts |-> [i \in Bucket |-> 0]]

Total(counts) == FoldSeq(LAMBDA a, b : a + b, 0, counts)

(* The first bound a sample does not exceed, or the overflow bucket.       *)
BucketOf(d) == SelectInSeq(Append(Bounds, d), LAMBDA b : d <= b)

Init ==
  /\ reg = None
  /\ hist = [w \in Worker |-> NewHistogram]
  /\ obs = [w \in Worker |-> [st |-> "idle"]]
  /\ snap = [st |-> "off"]
  /\ sure = {}

(* Counter, Gauge, Histogram: the look under the read lock ...             *)
Lookup(w, d) ==
  /\ obs[w].st = "idle"
  /\ obs' = [obs EXCEPT ![w] = IF reg = None THEN [st |-> "create", d |-> d]
                               ELSE [st |-> "n", d |-> d, h |-> reg]]
  /\ UNCHANGED <<reg, hist, snap, sure>>

(* Creation without a second look.                                         *)
CreateBlindly(w) ==
  /\ obs[w].st = "create"
  /\ snap.st \in {"off", "done"}
  /\ reg' = w
  /\ obs' = [obs EXCEPT ![w] = [st |-> "n", d |-> @.d, h |-> w]]
  /\ UNCHANGED <<hist, snap, sure>>

(* ... and the second look under the write lock, which waits for a         *)
(* snapshot to end.                                                        *)
Create(w) ==
  /\ obs[w].st = "create"
  /\ snap.st \in {"off", "done"}
  /\ reg' = IF reg = None THEN w ELSE reg
  /\ obs' = [obs EXCEPT ![w] = [st |-> "n", d |-> @.d, h |-> reg']]
  /\ UNCHANGED <<hist, snap, sure>>

(* The three adds of Observe.                                              *)
AddN(w) ==
  /\ obs[w].st = "n"
  /\ hist' = [hist EXCEPT ![obs[w].h].n = @ + 1]
  /\ obs' = [obs EXCEPT ![w].st = "sum"]
  /\ UNCHANGED <<reg, snap, sure>>

AddSum(w) ==
  /\ obs[w].st = "sum"
  /\ hist' = [hist EXCEPT ![obs[w].h].sum = @ + obs[w].d]
  /\ obs' = [obs EXCEPT ![w].st = "count"]
  /\ UNCHANGED <<reg, snap, sure>>

AddCount(w) ==
  /\ obs[w].st = "count"
  /\ hist' = [hist EXCEPT ![obs[w].h].counts[BucketOf(obs[w].d)] = @ + 1]
  /\ obs' = [obs EXCEPT ![w].st = "done"]
  /\ UNCHANGED <<reg, snap, sure>>

(* Registry.Snapshot takes the read lock, then loads the sum ...           *)
SnapSum ==
  /\ snap.st \in {"off", "done"}
  /\ reg # None
  /\ snap' = [st |-> "n", sum |-> hist[reg].sum]
  /\ sure' = {w \in Worker : obs[w].st = "done"}
  /\ UNCHANGED <<reg, hist, obs>>

(* A snapshot that makes do with the samples counted when it began.        *)
SnapStaleN ==
  /\ snap.st = "n"
  /\ snap' = [st |-> "counts", sum |-> snap.sum, counts |-> << >>,
              n |-> Total(hist[reg].counts)]
  /\ UNCHANGED <<reg, hist, obs, sure>>

(* ... the number of samples ...                                           *)
SnapN ==
  /\ snap.st = "n"
  /\ snap' = [st |-> "counts", sum |-> snap.sum, counts |-> << >>, n |-> hist[reg].n]
  /\ UNCHANGED <<reg, hist, obs, sure>>

(* ... and the buckets one by one.                                         *)
SnapCount ==
  /\ snap.st = "counts"
  /\ LET i == Len(snap.counts) + 1 IN
     snap' = [snap EXCEPT !.counts = Append(@, hist[reg].counts[i]),
                          !.st = IF i = Len(Bounds) + 1 THEN "done" ELSE @]
  /\ UNCHANGED <<reg, hist, obs, sure>>


(* Quantile of a snapshot with n # 0, for q percent.                       *)
Quantile(s, q) ==
  LET target == (s.n * q) \div 100
      reached == {i \in Bucket : Total(SubSeq(s.counts, 1, i)) >= target}
      i == CHOOSE i \in reached : \A j \in reached : i <= j
  IN  IF reached = {} THEN 0
      ELSE IF i <= Len(Bounds) THEN Bounds[i]
      ELSE IF s.counts[i] > 0 THEN s.sum \div s.n
      ELSE Bounds[Len(Bounds)]

-----------------------------------------------------------------------------
Done == {w \in Worker : obs[w].st = "done"}

Quiet == \A w \in Worker : obs[w].st \in {"idle", "done"}

(* "first registration wins": every sample ends up in the histogram that   *)
(* is registered, in the bucket "<= bounds[i]" it belongs to, whoever      *)
(* raced for the name.                                                     *)
NoSampleLost ==
  (Quiet /\ reg # None) =>
    \A i \in Bucket : hist[reg].counts[i] = Cardinality({w \in Done : BucketOf(obs[w].d) = i})

(* Observe counts before it adds and Snapshot loads the sum before the     *)
(* number, so the mean Quantile reports for the overflow bucket never      *)
(* exceeds the largest sample, however they interleave.                    *)
MeanWithinSamples ==
  snap.st = "done" => \E m \in {0} \cup {obs[w].d : w \in {v \in Worker : obs[v].st # "idle"}} : snap.sum <= snap.n * m

=============================================================================
