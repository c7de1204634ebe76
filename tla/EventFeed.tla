------------------------------ MODULE EventFeed ------------------------------
(***************************************************************************)
(* What a Watch stream promises its client.  Events are published one      *)
(* after the other; a subscriber gets every event published after it       *)
(* subscribed that its request matches, each once and in that order, until *)
(* its feed is over.  The server may cut a subscriber off when it          *)
(* publishes: the cut subscriber still gets everything published before    *)
(* the cut, and its feed then ends as "dropped".  A feed may also end at   *)
(* any time because the stream or the server is gone.                      *)
(***************************************************************************)
EXTENDS Naturals, Sequences, WatchFilter

CONSTANTS Watcher, Event

VARIABLES
  log,    \* every event published, in order
  sub,    \* sub[w]: "idle", "live", "cut" or the way the feed ended
  want,   \* want[w]: the request of the subscription
  from,   \* from[w]: Len(log) when w subscribed
  upto,   \* upto[w]: Len(log) when w was cut off
  got     \* got[w]: the positions in log of the events delivered to w

feedVars == <<log, sub, want, from, upto, got>>

FeedInit ==
  /\ log = << >>
  /\ sub = [w \in Watcher |-> "idle"]
  /\ want \in [Watcher -> Request]
  /\ from = [w \in Watcher |-> 0]
  /\ upto = [w \in Watcher |-> 0]
  /\ got = [w \in Watcher |-> << >>]

(* The end of the part of the log that w may be sent.                      *)
Limit(w) == IF sub[w] = "live" THEN Len(log) ELSE upto[w]

(* The positions w is owed and has not been sent.                          *)
Owed(w) ==
  {k \in from[w] + 1 .. Limit(w) :
     /\ Matches(want[w], log[k])
     /\ \A i \in 1 .. Len(got[w]) : got[w][i] # k}

Subscribe(w, r) ==
  /\ sub[w] = "idle"
  /\ sub' = [sub EXCEPT ![w] = "live"]
  /\ want' = [want EXCEPT ![w] = r]
  /\ from' = [from EXCEPT ![w] = Len(log)]
  /\ UNCHANGED <<log, upto, got>>

(* Publishing cuts off any set of live subscribers the event is for.       *)
Publish(ev, slow) ==
  /\ \A w \in slow : sub[w] = "live" /\ Matches(want[w], ev)
  /\ log' = Append(log, ev)
  /\ sub' = [w \in Watcher |-> IF w \in slow THEN "cut" ELSE sub[w]]
  /\ upto' = [w \in Watcher |-> IF w \in slow THEN Len(log) ELSE upto[w]]
  /\ UNCHANGED <<want, from, got>>

(* The next event owed: no gap, no reordering, no duplicate.               *)
Deliver(w) ==
  /\ sub[w] \in {"live", "cut"}
  /\ \E k \in Owed(w) :
       /\ \A j \in Owed(w) : k <= j
       /\ got' = [got EXCEPT ![w] = Append(@, k)]
  /\ UNCHANGED <<log, sub, want, from, upto>>

(* The client is told it was cut off only once it has all it is owed.      *)
TellDropped(w) ==
  /\ sub[w] = "cut"
  /\ Owed(w) = {}
  /\ sub' = [sub EXCEPT ![w] = "dropped"]
  /\ UNCHANGED <<log, want, from, upto, got>>

(* Cancelled streams, broken streams, a server that stops: what was owed   *)
(* is forgotten.                                                           *)
End(S) ==
  /\ \A w \in S : sub[w] \in {"live", "cut"}
  /\ sub' = [w \in Watcher |-> IF w \in S THEN "ended" ELSE sub[w]]
  /\ upto' = [w \in Watcher |-> IF w \in S THEN 0 ELSE upto[w]]
  /\ UNCHANGED <<log, want, from, got>>

FeedNext ==
  \/ \E w \in Watcher : (\E r \in Request : Subscribe(w, r)) \/ Deliver(w) \/ TellDropped(w)
  \/ \E ev \in Event, slow \in SUBSET Watcher : Publish(ev, slow)
  \/ \E S \in SUBSET Watcher : End(S)

FeedSpec == FeedInit /\ [][FeedNext]_feedVars
=============================================================================
