------------------------------- MODULE Dumper -------------------------------
(***************************************************************************)
(* lib/observe/dumper.go: the reader of a Registry while the goroutines of *)
(* Metrics record samples.  Dumper.Run appends one line per snapshot to a  *)
(* file; it may be called again after it has failed.                       *)
(***************************************************************************)
EXTENDS Metrics, FiniteSets

CONSTANTS
  MaxLines,  \* bound on the ticks of the Dumper
  MaxRuns    \* bound on the calls of Run

VARIABLES
  run,   \* Dumper.Run: where it is, which call it is, and the workers done when it was called (history)
  file   \* what the file holds, behind one another: whole lines and fragments

dumpVars == <<vars, run, file>>

DumpInit ==
  /\ Init
  /\ run = [st |-> "off", k |-> 0, before |-> {}]
  /\ file = << >>

At(st) == run' = [run EXCEPT !.st = st]

CanRun == run.st \in {"off", "failed"} /\ run.k < MaxRuns

(* The first line only after the first tick.                               *)
RunTicksFirst ==
  /\ CanRun
  /\ run' = [st |-> "select", k |-> run.k + 1, before |-> Done]
  /\ UNCHANGED <<vars, file>>

(* openIfNeeded opens the file to append to it, or fails.                  *)
Run ==
  /\ CanRun
  /\ \E st \in {"write", "failed"} : run' = [st |-> st, k |-> run.k + 1, before |-> Done]
  /\ UNCHANGED <<vars, file>>

(* writeOne takes the snapshot outside of the lock ...                     *)
WriteSnap == run.st = "write" /\ SnapSum /\ At("encode") /\ UNCHANGED file

(* ... and encodes it into one line.  An Encode that fails may have left a *)
(* part of the line; Run returns the error and closes the file.            *)
Encode ==
  /\ run.st = "encode" /\ snap.st = "done"
  /\ \/ file' = Append(file, [whole |-> TRUE, k |-> run.k, snap |-> snap]) /\ At("select")
     \/ file' = Append(file, [whole |-> FALSE, k |-> run.k]) /\ At("failed")
     \/ UNCHANGED file /\ At("failed")
  /\ UNCHANGED vars

RunTick == run.st = "select" /\ Len(file) < MaxLines /\ At("write") /\ UNCHANGED <<vars, file>>

(* The context ends; with a tick due as well, select takes either.         *)
RunDone == run.st = "select" /\ At("returned") /\ UNCHANGED <<vars, file>>

DumpNext ==
  \/ \E w \in Worker : (Create(w) \/ AddN(w) \/ AddSum(w) \/ AddCount(w) \/ \E d \in Sample : Lookup(w, d))
                         /\ UNCHANGED <<run, file>>
  \/ (SnapN \/ SnapCount) /\ UNCHANGED <<run, file>>
  \/ Run \/ WriteSnap \/ Encode \/ RunTick \/ RunDone

DumpSpec == DumpInit /\ [][DumpNext]_dumpVars

-----------------------------------------------------------------------------
(* A line is lost to a reader when a fragment comes before it.             *)
Readable(i) == file[i].whole /\ (i > 1 => file[i - 1].whole)

UpTo(s, t) == s.n <= t.n /\ s.sum <= t.sum /\ \A i \in Bucket : s.counts[i] <= t.counts[i]

(* The file is a history of the registry: no value ever goes back from one *)
(* line to a later one, over failed and repeated Runs; and a Run that ends *)
(* because its context did has left a line with every sample recorded      *)
(* before it was called, however short it was, which can be read unless it *)
(* was appended to the fragment of a Run that failed.                      *)
DumpIsHistory ==
  /\ \A i, j \in DOMAIN file :
       i < j /\ Readable(i) /\ Readable(j) => UpTo(file[i].snap, file[j].snap)
  /\ run.st = "returned" =>
       \E i \in DOMAIN file :
         /\ file[i].k = run.k /\ file[i].whole
         /\ Total(file[i].snap.counts) >= Cardinality(run.before)
         /\ Readable(i) \/ file[i - 1].k < run.k
=============================================================================
