------------------------------ MODULE WatchHub ------------------------------
(***************************************************************************)
(* The watcher hub that pkg/registry/server.go and pkg/policy/server.go    *)
(* both embed: the watchers map under Server.mu, one buffered channel per  *)
(* Watch stream, broadcast, and the goroutine of each Watch handler.       *)
(*                                                                         *)
(* An event is represented in a channel by its position in the history     *)
(* log, so that two broadcasts of equal events stay distinct.  broadcast   *)
(* holds Server.mu for the whole loop; a handler receiving from its own    *)
(* channel in between commutes with the sends to the other channels, so    *)
(* the loop is one step.  A watcher is the *watcher of one Watch call and  *)
(* is never reused.                                                        *)
(***************************************************************************)
EXTENDS Naturals, Sequences, WatchFilter

CONSTANTS
  Watcher,  \* the Watch calls made
  Event,    \* records with at least the fields tenant and name
  ChanCap   \* capacity of watcher.ch (64 in the code)

ASSUME ChanAssumption == ChanCap \in Nat \ {0}

VARIABLES
  watchers,   \* Server.watchers
  ch,         \* ch[w]: the buffered content of w.ch
  closed,     \* closed[w]: close(w.ch) has been called
  panicked,   \* a channel was closed twice or sent to after close
  pc,         \* pc[w]: where the Watch handler of w is
  want,       \* want[w]: watcher.tenant and watcher.filter
  cancelled,  \* cancelled[w]: stream.Context() is done
  res,        \* res[w]: what the handler returned
  taken,      \* taken[w]: the events received from w.ch (history)
  sent,       \* sent[w]: how many of them stream.Send delivered (history)
  log,        \* every event broadcast, in the order of Server.mu (history)
  from,       \* from[w]: Len(log) at addWatcher (history)
  upto        \* upto[w]: Len(log) when broadcast dropped w (history)

hubVars == <<watchers, ch, closed, panicked, pc, want, cancelled, res,
             taken, sent, log, from, upto>>

(* snap: sending the snapshot (policy only); loop: in the select; send: in *)
(* stream.Send of a live event; leave: returning, removeWatcher deferred.  *)
Active == {"snap", "loop", "send", "leave"}
PC == Active \cup {"idle", "done"}
Res == {"none", "nil", "dropped", "sendErr", "lost"}

HubInit ==
  /\ watchers = {}
  /\ ch = [w \in Watcher |-> << >>]
  /\ closed = [w \in Watcher |-> FALSE]
  /\ panicked = FALSE
  /\ pc = [w \in Watcher |-> "idle"]
  /\ want = [w \in Watcher |-> [tenant |-> AnyTenant, names |-> {}]]
  /\ cancelled = [w \in Watcher |-> FALSE]
  /\ res = [w \in Watcher |-> "none"]
  /\ taken = [w \in Watcher |-> << >>]
  /\ sent = [w \in Watcher |-> 0]
  /\ log = << >>
  /\ from = [w \in Watcher |-> 0]
  /\ upto = [w \in Watcher |-> 0]

addWatcher(w) == watchers' = watchers \cup {w}

(* A removeWatcher that closes without looking the watcher up.             *)
BlindRemove(w) ==
  /\ watchers' = watchers \ {w}
  /\ closed' = [closed EXCEPT ![w] = TRUE]
  /\ panicked' = (panicked \/ closed[w])

(* The map lookup keeps a watcher that broadcast dropped from being closed *)
(* a second time.                                                          *)
removeWatcher(w) ==
  IF w \in watchers
  THEN /\ watchers' = watchers \ {w}
       /\ closed' = [closed EXCEPT ![w] = TRUE]
       /\ panicked' = (panicked \/ closed[w])
  ELSE UNCHANGED <<watchers, closed, panicked>>

(* The watchers whose loop iteration reaches the select.                   *)
Addressed(ev) == {w \in watchers : Matches(want[w], ev)}

(* The ones whose channel is full: the select takes its default branch.    *)
Slow(ev) == {w \in Addressed(ev) : Len(ch[w]) >= ChanCap}

(* An empty default branch: the event is skipped for a slow watcher.       *)
SkippingBroadcast(ev) ==
  /\ log' = Append(log, ev)
  /\ ch' = [w \in Watcher |->
              IF w \in Addressed(ev) \ Slow(ev) THEN Append(ch[w], Len(log) + 1) ELSE ch[w]]
  /\ UNCHANGED <<watchers, closed, panicked, upto, pc, want, cancelled, res, taken, sent, from>>

(* A default branch that forgets close(w.ch).                              *)
UnclosingBroadcast(ev) ==
  /\ log' = Append(log, ev)
  /\ ch' = [w \in Watcher |->
              IF w \in Addressed(ev) \ Slow(ev) THEN Append(ch[w], Len(log) + 1) ELSE ch[w]]
  /\ watchers' = watchers \ Slow(ev)
  /\ upto' = [w \in Watcher |-> IF w \in Slow(ev) THEN Len(log) ELSE upto[w]]
  /\ UNCHANGED <<closed, panicked, pc, want, cancelled, res, taken, sent, from>>

broadcast(ev) ==
  /\ log' = Append(log, ev)
  /\ ch' = [w \in Watcher |->
              IF w \in Addressed(ev) \ Slow(ev) THEN Append(ch[w], Len(log) + 1) ELSE ch[w]]
  /\ watchers' = watchers \ Slow(ev)
  /\ closed' = [w \in Watcher |-> closed[w] \/ w \in Slow(ev)]
  /\ panicked' = (panicked \/ \E w \in Addressed(ev) : closed[w])
  /\ upto' = [w \in Watcher |-> IF w \in Slow(ev) THEN Len(log) ELSE upto[w]]
  /\ UNCHANGED <<pc, want, cancelled, res, taken, sent, from>>

(* The head of Watch: build the watcher and register it.  The handler goes *)
(* on with the snapshot (policy) or straight to its loop (registry).       *)
Watch(w, r, first) ==
  /\ pc[w] = "idle"
  /\ addWatcher(w)
  /\ want' = [want EXCEPT ![w] = r]
  /\ from' = [from EXCEPT ![w] = Len(log)]
  /\ pc' = [pc EXCEPT ![w] = first]
  /\ UNCHANGED <<ch, closed, panicked, cancelled, res, taken, sent, log, upto>>

Return(w, r) ==
  /\ pc' = [pc EXCEPT ![w] = "leave"]
  /\ res' = [res EXCEPT ![w] = r]
  /\ UNCHANGED <<watchers, ch, closed, panicked, want, cancelled, taken, sent, log, from, upto>>

SnapshotSent(w) ==
  /\ pc[w] = "snap"
  /\ pc' = [pc EXCEPT ![w] = "loop"]
  /\ UNCHANGED <<watchers, ch, closed, panicked, want, cancelled, res, taken, sent, log, from, upto>>

SnapshotErr(w) == pc[w] = "snap" /\ Return(w, "sendErr")

(* case ev, ok := <-w.ch with ok                                           *)
Receive(w) ==
  /\ pc[w] = "loop"
  /\ ch[w] # << >>
  /\ taken' = [taken EXCEPT ![w] = Append(@, Head(ch[w]))]
  /\ ch' = [ch EXCEPT ![w] = Tail(@)]
  /\ pc' = [pc EXCEPT ![w] = "send"]
  /\ UNCHANGED <<watchers, closed, panicked, want, cancelled, res, sent, log, from, upto>>

SendOk(w) ==
  /\ pc[w] = "send"
  /\ sent' = [sent EXCEPT ![w] = @ + 1]
  /\ pc' = [pc EXCEPT ![w] = "loop"]
  /\ UNCHANGED <<watchers, ch, closed, panicked, want, cancelled, res, taken, log, from, upto>>

SendErr(w) == pc[w] = "send" /\ Return(w, "sendErr")

(* case ev, ok := <-w.ch with !ok: closed, and the buffer is drained.      *)
SeeClosed(w) ==
  /\ pc[w] = "loop"
  /\ closed[w]
  /\ ch[w] = << >>
  /\ Return(w, "dropped")

(* case <-stream.Context().Done(); select picks any ready case.            *)
SeeDone(w) == pc[w] = "loop" /\ cancelled[w] /\ Return(w, "nil")

(* The deferred removeWatcher.                                             *)
Leave(w) ==
  /\ pc[w] = "leave"
  /\ removeWatcher(w)
  /\ pc' = [pc EXCEPT ![w] = "done"]
  /\ UNCHANGED <<ch, want, cancelled, res, taken, sent, log, from, upto>>

(* The client cancels, or its connection breaks.                           *)
Cancel(w) ==
  /\ pc[w] \in Active
  /\ ~cancelled[w]
  /\ cancelled' = [cancelled EXCEPT ![w] = TRUE]
  /\ UNCHANGED <<watchers, ch, closed, panicked, pc, want, res, taken, sent, log, from, upto>>

(* The controller process dies and starts again: New builds an empty map   *)
(* and every stream of the old process is gone.                            *)
Crash ==
  /\ watchers' = {}
  /\ pc' = [w \in Watcher |-> IF pc[w] \in Active THEN "done" ELSE pc[w]]
  /\ res' = [w \in Watcher |-> IF pc[w] \in Active /\ res[w] = "none" THEN "lost" ELSE res[w]]
  /\ ch' = [w \in Watcher |-> << >>]
  /\ UNCHANGED <<closed, panicked, want, cancelled, taken, sent, log, from, upto>>

(* One step of the goroutine that runs the Watch handler of w.             *)
HandlerStep(w) ==
  \/ SnapshotSent(w)
  \/ SnapshotErr(w)
  \/ Receive(w)
  \/ SendOk(w)
  \/ SendErr(w)
  \/ SeeClosed(w)
  \/ SeeDone(w)
  \/ Leave(w)

HubNext ==
  \/ \E w \in Watcher : HandlerStep(w)
  \/ \E w \in Watcher : Cancel(w)
  \/ \E w \in Watcher, r \in Request, first \in {"snap", "loop"} : Watch(w, r, first)
  \/ \E ev \in Event : broadcast(ev)
  \/ Crash

HubSpec == HubInit /\ [][HubNext]_hubVars

(* The handler goroutines are scheduled, and stream.Send returns: the      *)
(* client reads on or its transport fails.                                 *)
HubFairness == \A w \in Watcher : WF_hubVars(HandlerStep(w))

-----------------------------------------------------------------------------
(* Every variable keeps the shape the code gives it, and a channel holds   *)
(* at most its capacity (else a send would block under Server.mu).         *)
HubTypeOK ==
  /\ watchers \in SUBSET Watcher
  /\ ch \in [Watcher -> Seq(Nat)]
  /\ \A w \in Watcher : Len(ch[w]) <= ChanCap
  /\ closed \in [Watcher -> BOOLEAN]
  /\ panicked \in BOOLEAN
  /\ pc \in [Watcher -> PC]
  /\ want \in [Watcher -> Request]
  /\ cancelled \in [Watcher -> BOOLEAN]
  /\ res \in [Watcher -> Res]
  /\ taken \in [Watcher -> Seq(Nat)]
  /\ sent \in [Watcher -> Nat]
  /\ log \in Seq(Event)
  /\ from \in [Watcher -> Nat]
  /\ upto \in [Watcher -> Nat]

(* No interleaving of broadcast's slow-consumer close with the deferred    *)
(* removeWatcher closes a channel twice or sends on a closed one; either   *)
(* would panic and take the controller down.                               *)
NoPanic == ~panicked

(* What a client has been sent is, in order and without a gap or a         *)
(* duplicate, the events broadcast since it was registered that its        *)
(* request matches: whenever event k has been sent, every earlier matching *)
(* event was sent before it (broadcast, the Watch loop, drops included).   *)
InOrderNoGaps ==
  \A w \in Watcher : \A i \in 1 .. sent[w] :
    /\ taken[w][i] \in from[w] + 1 .. Len(log)
    /\ Matches(want[w], log[taken[w][i]])
    /\ \A j \in 1 .. i - 1 : taken[w][j] < taken[w][i]
    /\ \A k \in from[w] + 1 .. taken[w][i] - 1 :
         Matches(want[w], log[k]) => \E j \in 1 .. i - 1 : taken[w][j] = k

(* "Unbuffered drops are not silent": an event a client asked for is       *)
(* either with the client, with its handler or in its channel, or the      *)
(* client is out of the map and its channel closed behind the last event   *)
(* it was given (broadcast's default branch).                              *)
NothingForgotten ==
  \A w \in Watcher : pc[w] \in {"snap", "loop", "send"} =>
    \A k \in from[w] + 1 .. Len(log) : Matches(want[w], log[k]) =>
      \/ \E i \in 1 .. Len(taken[w]) : taken[w][i] = k
      \/ \E i \in 1 .. Len(ch[w]) : ch[w][i] = k
      \/ w \notin watchers /\ closed[w] /\ k > upto[w]

(* A client whose watcher was dropped as a slow consumer learns of it: its *)
(* stream ends (the closed channel wakes the handler, which returns).      *)
DropIsTold ==
  \A w \in Watcher :
    (pc[w] \in {"snap", "loop", "send"} /\ w \notin watchers) ~> pc[w] = "done"

(* The hub seen as an event feed: what the client of w can observe.        *)
FeedSub(w) ==
  IF pc[w] = "idle" THEN "idle"
  ELSE IF pc[w] \in {"leave", "done"}
       THEN IF res[w] = "dropped" THEN "dropped" ELSE "ended"
       ELSE IF w \in watchers THEN "live" ELSE "cut"

Feed == INSTANCE EventFeed WITH
  sub <- [w \in Watcher |-> FeedSub(w)],
  upto <- [w \in Watcher |-> IF FeedSub(w) \in {"cut", "dropped"} THEN upto[w] ELSE 0],
  got <- [w \in Watcher |-> SubSeq(taken[w], 1, sent[w])]

(* The hub implements the event feed.                                      *)
ImplementsFeed == Feed!FeedSpec
=============================================================================
