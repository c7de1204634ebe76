----------------------------- MODULE FeedProofs -----------------------------
(***************************************************************************)
(* The watcher hub implements the event feed: every step of broadcast, of  *)
(* a Watch handler or of a crash is a step of EventFeed, or is invisible   *)
(* to the clients.                                                         *)
(***************************************************************************)
EXTENDS HubProofs

(* How a stream ends: not before its handler returns, as dropped only when *)
(* its channel was closed, and after a drop nothing later is given to it.  *)
Ends(w) ==
  /\ pc[w] \in Streaming \cup {"idle"} => res[w] = "none"
  /\ res[w] = "dropped" => closed[w]
  /\ (pc[w] \in Streaming /\ w \notin watchers) =>
       \A i \in 1 .. Len(Given(w)) : Given(w)[i] <= upto[w]

FeedInv == \A w \in Watcher : Ends(w)

(* broadcast drops a slow watcher at the end of the log.                   *)
LEMMA BroadcastEnds ==
  ASSUME HubInv, FeedInv, NEW ev \in Event, broadcast(ev), NEW w \in Watcher
  PROVE  Ends(w)'
PROOF
  <1>1. HubTypeOK /\ InOrder(w) /\ Ends(w)
    BY DEF HubInv, HubSafe, FeedInv
  <1>2. /\ UNCHANGED <<pc, res, taken>>
        /\ closed[w] => closed'[w]
        /\ w \in watchers' <=> w \in watchers /\ w \notin Slow(ev)
        /\ upto'[w] = IF w \in Slow(ev) THEN Len(log) ELSE upto[w]
        /\ w \notin watchers' => ch'[w] = ch[w]
    BY Zenon DEF broadcast, Slow, Addressed
  <1>3. ASSUME pc[w] \in Streaming, w \notin watchers'
        PROVE  \A i \in 1 .. Len(Given(w)') : Given(w)'[i] <= upto'[w]
    <2>1. Given(w)' = Given(w)
      BY <1>2, <1>3, Zenon DEF Given
    <2>2. CASE w \in Slow(ev)
      <3>1. \A i \in 1 .. Len(Given(w)) : Given(w)[i] <= Len(log)
        <4>1. from[w] \in Nat /\ Len(log) \in Nat
          BY <1>1, LenProperties DEF HubTypeOK
        <4> QED
          BY <1>1, <4>1 DEF InOrder, Gapless
      <3> QED
        BY <1>2, <2>1, <2>2, <3>1, Zenon
    <2>3. CASE w \notin Slow(ev)
      BY <1>1, <1>2, <1>3, <2>1, <2>3, ZenonT(60) DEF Ends
    <2> QED
      BY <2>2, <2>3
  <1> QED
    BY <1>1, <1>2, <1>3 DEF Ends

(* A handler returns "dropped" only when it sees the channel closed.       *)
LEMMA HandlerEnds ==
  ASSUME HubInv, FeedInv, NEW v \in Watcher, HandlerStep(v), NEW w \in Watcher
  PROVE  Ends(w)'
PROOF
  <1>1. HubTypeOK /\ Ends(w)
    BY Zenon DEF HubInv, HubSafe, FeedInv
  <1>2. UNCHANGED upto /\ (closed[w] => closed'[w])
    BY <1>1, ZenonT(60) DEF HandlerStep, SnapshotSent, SnapshotErr, Receive, SendOk, SendErr, SeeClosed, SeeDone,
                Leave, Return, removeWatcher, HubTypeOK
  <1>3. Given(w)' = Given(w)
    <2>1. CASE w = v /\ Receive(v)
      BY <1>1, <2>1, ReceiveGiven
    <2>2. CASE ~(w = v /\ Receive(v))
      <3>1. UNCHANGED <<taken[w], ch[w]>>
        BY <1>1, <2>2, ZenonT(60) DEF HandlerStep, SnapshotSent, SnapshotErr, Receive, SendOk, SendErr, SeeClosed, SeeDone,
                          Leave, Return, HubTypeOK
      <3> QED
        BY <3>1 DEF Given
    <2> QED
      BY <2>1, <2>2
  <1>4. pc'[w] \in Streaming \cup {"idle"} =>
          /\ pc[w] \in Streaming \cup {"idle"}
          /\ pc'[w] \in Streaming => pc[w] \in Streaming
          /\ res'[w] = res[w]
          /\ w \in watchers' <=> w \in watchers
    BY <1>1, ZenonT(60) DEF HandlerStep, SnapshotSent, SnapshotErr, Receive, SendOk, SendErr, SeeClosed, SeeDone,
                Leave, Return, removeWatcher, HubTypeOK, Streaming
  <1>5. res'[w] = "dropped" => res[w] = "dropped" \/ closed[w]
    BY <1>1, Zenon DEF HandlerStep, SnapshotSent, SnapshotErr, Receive, SendOk, SendErr, SeeClosed, SeeDone,
                Leave, Return, HubTypeOK
  <1> QED
    BY <1>1, <1>2, <1>3, <1>4, <1>5, Zenon DEF Ends

(* How streams end, in every behaviour of the hub.                         *)
LEMMA FeedInvariant == HubSpec => []FeedInv
PROOF
  <1>1. HubInit => FeedInv
    BY DEF HubInit, FeedInv, Ends, Streaming
  <1>2. HubInv /\ FeedInv /\ [HubNext]_hubVars => FeedInv'
    <2> SUFFICES ASSUME HubInv, FeedInv, [HubNext]_hubVars, NEW w \in Watcher PROVE Ends(w)'
      BY DEF FeedInv
    <2>0. HubTypeOK /\ Ends(w) /\ Registered
      BY DEF HubInv, HubSafe, FeedInv
    <2>1. ASSUME NEW v \in Watcher, HandlerStep(v) PROVE Ends(w)'
      BY <2>1, HandlerEnds
    <2>2. ASSUME NEW v \in Watcher, Cancel(v) PROVE Ends(w)'
      BY <2>0, <2>2, Zenon DEF Cancel, Ends, Given
    <2>3. ASSUME NEW v \in Watcher, NEW r \in Request, NEW first \in {"snap", "loop"}, Watch(v, r, first)
          PROVE  Ends(w)'
      <3>1. /\ UNCHANGED <<res, closed, upto>> /\ Given(w)' = Given(w)
            /\ pc'[w] = IF w = v THEN first ELSE pc[w]
            /\ w \in watchers' <=> w \in watchers \/ w = v
            /\ pc[v] = "idle"
        BY <2>0, <2>3, Zenon DEF Watch, addWatcher, Given, HubTypeOK
      <3> QED
        BY <2>0, <3>1, Zenon DEF Ends, Streaming
    <2>4. ASSUME NEW ev \in Event, broadcast(ev) PROVE Ends(w)'
      BY <2>4, BroadcastEnds, Zenon
    <2>5. CASE Crash
      <3>1. /\ UNCHANGED closed
            /\ pc'[w] = IF pc[w] \in Active THEN "done" ELSE pc[w]
            /\ res'[w] = IF pc[w] \in Active /\ res[w] = "none" THEN "lost" ELSE res[w]
        BY <2>5 DEF Crash
      <3> QED
        BY <2>0, <3>1, Zenon DEF Ends, Streaming, Active
    <2>6. CASE UNCHANGED hubVars
      BY <2>0, <2>6, Zenon DEF hubVars, Ends, Given
    <2> QED
      BY <2>1, <2>2, <2>3, <2>4, <2>5, <2>6 DEF HubNext
  <1> QED
    BY <1>1, <1>2, HubInvariant, PTL DEF HubSpec

-----------------------------------------------------------------------------
(* The hub of New is the feed before any subscription.                     *)
LEMMA FeedInitially == HubInit => Feed!FeedInit
PROOF
  <1> SUFFICES ASSUME HubInit PROVE Feed!FeedInit
    OBVIOUS
  <1>1. \A w \in Watcher : FeedSub(w) = "idle"
    BY DEF HubInit, FeedSub
  <1>2. \A w \in Watcher : SubSeq(taken[w], 1, sent[w]) = << >>
    BY DEF HubInit
  <1>3. want \in [Watcher -> Feed!Request]
    BY DEF HubInit, Feed!Request
  <1> QED
    BY <1>1, <1>2, <1>3, Zenon DEF HubInit, Feed!FeedInit

(* A Watch call is a subscription.                                         *)
LEMMA WatchIsSubscribe ==
  ASSUME HubInv, NEW w \in Watcher, NEW r \in Request, NEW first \in {"snap", "loop"}, Watch(w, r, first)
  PROVE  Feed!Subscribe(w, r)
PROOF
  <1>1. HubTypeOK
    BY DEF HubInv, HubSafe
  <1>2. FeedSub(w) = "idle" /\ FeedSub(w)' = "live"
    BY <1>1 DEF Watch, addWatcher, FeedSub, HubTypeOK
  <1>3. \A v \in Watcher \ {w} : FeedSub(v)' = FeedSub(v)
    BY <1>1 DEF Watch, addWatcher, FeedSub, HubTypeOK
  <1>4. UNCHANGED <<log, upto, taken, sent>>
    BY DEF Watch
  <1>5. [v \in Watcher |-> FeedSub(v)'] = [[v \in Watcher |-> FeedSub(v)] EXCEPT ![w] = "live"]
    BY <1>2, <1>3, Zenon
  <1>6. \A v \in Watcher :
          (IF FeedSub(v)' \in {"cut", "dropped"} THEN upto'[v] ELSE 0) =
            IF FeedSub(v) \in {"cut", "dropped"} THEN upto[v] ELSE 0
    BY <1>2, <1>3, <1>4, ZenonT(60)
  <1> QED
    BY <1>2, <1>4, <1>5, <1>6 DEF Watch, Feed!Subscribe

(* broadcast publishes its event and cuts off the slow watchers whose      *)
(* handlers still run; one that is returning is past being told.           *)
LEMMA BroadcastIsPublish ==
  ASSUME HubInv, FeedInv, NEW ev \in Event, broadcast(ev),
         NEW slow, slow = {w \in Slow(ev) : FeedSub(w) = "live"}
  PROVE  Feed!Publish(ev, slow)
PROOF
  <1>1. HubTypeOK /\ Registered
    BY Zenon DEF HubInv, HubSafe
  <1>2. \A w \in slow : w \in Watcher /\ FeedSub(w) = "live" /\ Feed!Matches(want[w], ev)
    BY <1>1 DEF HubTypeOK, Slow, Addressed, Matches, Feed!Matches
  <1>3. /\ UNCHANGED <<pc, res, want, from, taken, sent>> /\ log' = Append(log, ev)
        /\ watchers' = watchers \ Slow(ev)
        /\ \A w \in Watcher : upto'[w] = IF w \in Slow(ev) THEN Len(log) ELSE upto[w]
    BY DEF broadcast
  <1>4. \A w \in Watcher : FeedSub(w)' = IF w \in slow THEN "cut" ELSE FeedSub(w)
    BY <1>3 DEF FeedSub
  <1>5. \A w \in Slow(ev) : w \in watchers /\ FeedSub(w) \notin {"cut", "dropped"}
    BY <1>1 DEF Slow, Addressed, FeedSub, Registered, FeedInv, Ends, HubTypeOK
  <1>6. \A w \in Watcher :
          (IF FeedSub(w)' \in {"cut", "dropped"} THEN upto'[w] ELSE 0) =
            IF w \in slow THEN Len(log)
            ELSE IF FeedSub(w) \in {"cut", "dropped"} THEN upto[w] ELSE 0
    BY <1>3, <1>4, <1>5
  <1> QED
    BY <1>2, <1>3, <1>4, <1>6 DEF Feed!Publish

(* A handler that returns for another reason ends its feed.                *)
LEMMA ReturnIsEnd ==
  ASSUME HubInv, FeedInv, NEW w \in Watcher, pc[w] \in Streaming, NEW r \in {"nil", "sendErr"}, Return(w, r)
  PROVE  Feed!End({w})
PROOF
  <1>1. HubTypeOK
    BY DEF HubInv, HubSafe
  <1>2. FeedSub(w) \in {"live", "cut"} /\ FeedSub(w)' = "ended"
    BY <1>1 DEF Return, FeedSub, HubTypeOK, Streaming
  <1>3. \A v \in Watcher \ {w} : FeedSub(v)' = FeedSub(v)
    BY <1>1 DEF Return, FeedSub, HubTypeOK
  <1>4. UNCHANGED <<log, want, from, upto, taken, sent>>
    BY DEF Return
  <1>5. \A v \in Watcher : FeedSub(v)' = IF v \in {w} THEN "ended" ELSE FeedSub(v)
    BY <1>2, <1>3
  <1>6. \A v \in Watcher :
          (IF FeedSub(v)' \in {"cut", "dropped"} THEN upto'[v] ELSE 0) =
            IF v \in {w} THEN 0
            ELSE IF FeedSub(v) \in {"cut", "dropped"} THEN upto[v] ELSE 0
    BY <1>4, <1>5
  <1> QED
    BY <1>2, <1>4, <1>5, <1>6 DEF Feed!End

(* A crash ends every feed that was not over.                              *)
LEMMA CrashIsEnd ==
  ASSUME HubInv, FeedInv, Crash,
         NEW S, S = {w \in Watcher : FeedSub(w) \in {"live", "cut"}}
  PROVE  Feed!End(S)
PROOF
  <1>1. HubTypeOK
    BY DEF HubInv, HubSafe
  <1>2. UNCHANGED <<log, want, from, upto, taken, sent>>
    BY Zenon DEF Crash
  <1>3. \A w \in Watcher : FeedSub(w)' = IF w \in S THEN "ended" ELSE FeedSub(w)
    BY <1>1 DEF Crash, FeedSub, FeedInv, Ends, Streaming, Active, HubTypeOK, PC
  <1>4. \A w \in Watcher :
          (IF FeedSub(w)' \in {"cut", "dropped"} THEN upto'[w] ELSE 0) =
            IF w \in S THEN 0
            ELSE IF FeedSub(w) \in {"cut", "dropped"} THEN upto[w] ELSE 0
    BY <1>2, <1>3
  <1> QED
    BY <1>2, <1>3, <1>4 DEF Feed!End

(* The first n of the events taken.                                        *)
LEMMA PrefixFacts ==
  ASSUME NEW t \in Seq(Nat), NEW n \in Nat, n <= Len(t)
  PROVE  /\ SubSeq(t, 1, n) \in Seq(Nat)
         /\ Len(SubSeq(t, 1, n)) = n
         /\ \A i \in 1 .. n : SubSeq(t, 1, n)[i] = t[i]
PROOF
  <1>1. \A i \in 1 .. n : t[i] \in Nat /\ (1 + i) - 1 = i
    BY LenProperties
  <1>2. (IF 1 <= n THEN (n - 1) + 1 ELSE 0) = n /\ (n - 1) + 1 = n
    OBVIOUS
  <1>3. /\ SubSeq(t, 1, n) \in Seq(Nat)
        /\ Len(SubSeq(t, 1, n)) = IF 1 <= n THEN (n - 1) + 1 ELSE 0
        /\ \A i \in 1 .. (n - 1) + 1 : SubSeq(t, 1, n)[i] = t[(1 + i) - 1]
    BY <1>1, SubSeqProperties
  <1> QED
    BY <1>1, <1>2, <1>3

(* Sending one event more.                                                 *)
LEMMA PrefixGrows ==
  ASSUME NEW t \in Seq(Nat), NEW n \in Nat, n + 1 <= Len(t)
  PROVE  SubSeq(t, 1, n + 1) = Append(SubSeq(t, 1, n), t[n + 1])
PROOF
  <1>1. n <= Len(t) /\ n + 1 \in Nat /\ n + 1 \in 1 .. Len(t)
    BY LenProperties
  <1>2. t[n + 1] \in Nat
    BY <1>1
  <1> DEFINE p == SubSeq(t, 1, n)
             q == SubSeq(t, 1, n + 1)
  <1>3. p \in Seq(Nat) /\ Len(p) = n /\ \A i \in 1 .. n : p[i] = t[i]
    BY <1>1, PrefixFacts, Zenon
  <1>4. q \in Seq(Nat) /\ Len(q) = n + 1 /\ \A i \in 1 .. n + 1 : q[i] = t[i]
    BY <1>1, PrefixFacts, Zenon
  <1> HIDE DEF p, q
  <1>5. /\ Append(p, t[n + 1]) \in Seq(Nat) /\ Len(Append(p, t[n + 1])) = n + 1
        /\ \A i \in 1 .. n : Append(p, t[n + 1])[i] = p[i]
        /\ Append(p, t[n + 1])[n + 1] = t[n + 1]
    BY <1>2, <1>3, AppendProperties, SMTT(60)
  <1>6. \A i \in 1 .. n + 1 : i \in 1 .. n \/ i = n + 1
    OBVIOUS
  <1>7. \A i \in 1 .. n + 1 : q[i] = Append(p, t[n + 1])[i]
    BY <1>3, <1>4, <1>5, <1>6, Zenon
  <1>8. q = Append(p, t[n + 1])
    BY <1>4, <1>5, <1>7, SeqEqual, Zenon
  <1> QED
    BY <1>8 DEF p, q

(* Taking an event more does not change those sent.                        *)
LEMMA PrefixKept ==
  ASSUME NEW t \in Seq(Nat), NEW x \in Nat, NEW n \in Nat, n <= Len(t)
  PROVE  SubSeq(Append(t, x), 1, n) = SubSeq(t, 1, n)
PROOF
  <1> DEFINE u == Append(t, x)
  <1>1. u \in Seq(Nat) /\ Len(u) = Len(t) + 1 /\ \A i \in 1 .. Len(t) : u[i] = t[i]
    BY AppendProperties
  <1>2. Len(t) \in Nat
    BY LenProperties
  <1> HIDE DEF u
  <1>3. n <= Len(u) /\ \A i \in 1 .. n : i \in 1 .. Len(t)
    BY <1>1, <1>2
  <1>4. SubSeq(u, 1, n) \in Seq(Nat) /\ Len(SubSeq(u, 1, n)) = n /\ \A i \in 1 .. n : SubSeq(u, 1, n)[i] = u[i]
    BY <1>1, <1>3, PrefixFacts, Zenon
  <1>5. SubSeq(t, 1, n) \in Seq(Nat) /\ Len(SubSeq(t, 1, n)) = n /\ \A i \in 1 .. n : SubSeq(t, 1, n)[i] = t[i]
    BY PrefixFacts
  <1>6. \A i \in 1 .. n : SubSeq(u, 1, n)[i] = SubSeq(t, 1, n)[i]
    BY <1>1, <1>3, <1>4, <1>5, ZenonT(60)
  <1>7. SubSeq(u, 1, n) = SubSeq(t, 1, n)
    BY <1>4, <1>5, <1>6, SeqEqual
  <1> QED
    BY <1>7 DEF u

(* stream.Send delivers the next event owed: the hub has given none before *)
(* it that is not already sent, and none behind a drop.                    *)
LEMMA SendIsDeliver ==
  ASSUME HubInv, FeedInv, NEW w \in Watcher, SendOk(w)
  PROVE  Feed!Deliver(w)
PROOF
  <1> DEFINE T == taken[w]
             n == sent[w]
             k == T[n + 1]
             limit == IF FeedSub(w) = "live" THEN Len(log) ELSE upto[w]
             got == SubSeq(T, 1, n)
             owed == {j \in from[w] + 1 .. limit :
                        Matches(want[w], log[j]) /\ \A i \in 1 .. Len(got) : got[i] # j}
  <1>1. /\ HubTypeOK /\ InOrder(w) /\ Counted(w) /\ Ends(w) /\ pc[w] = "send"
        /\ T \in Seq(Nat) /\ n \in Nat /\ from[w] \in Nat /\ upto[w] \in Nat /\ Len(log) \in Nat
    BY LenProperties, ZenonT(60) DEF HubInv, HubSafe, HubTypeOK, FeedInv, SendOk
  <1>2. /\ UNCHANGED <<watchers, res, want, taken, log, from, upto>>
        /\ sent' = [sent EXCEPT ![w] = n + 1] /\ pc' = [pc EXCEPT ![w] = "loop"]
    BY <1>1 DEF SendOk
  <1>3. FeedSub(w) = IF w \in watchers THEN "live" ELSE "cut"
    BY <1>1 DEF FeedSub
  <1>4. \A v \in Watcher : FeedSub(v)' = FeedSub(v)
    BY <1>1, <1>2, ZenonT(60) DEF FeedSub, HubTypeOK
  <1>5. /\ Len(T) = n + 1 /\ Len(Given(w)) \in Nat
        /\ \A i \in 1 .. n + 1 : Given(w)[i] = T[i] /\ i \in 1 .. Len(Given(w))
    <2>1. /\ Len(Given(w)) = Len(T) + Len(ch[w]) /\ Len(T) \in Nat /\ Len(ch[w]) \in Nat
          /\ \A i \in 1 .. Len(T) : Given(w)[i] = T[i]
      BY <1>1, GivenFacts, Zenon
    <2>2. Len(T) = n + 1
      BY <1>1 DEF Counted
    <2> HIDE DEF T, n
    <2>3. \A i \in 1 .. n + 1 : i \in 1 .. Len(Given(w))
      BY <2>1, <2>2
    <2> QED
      BY <2>1, <2>2, <2>3
  <1>6. /\ k \in from[w] + 1 .. Len(log)
        /\ Matches(want[w], log[k])
        /\ \A j \in 1 .. n : T[j] < k
        /\ \A j \in from[w] + 1 .. k - 1 : Matches(want[w], log[j]) => \E i \in 1 .. n : T[i] = j
    <2> DEFINE g == Given(w)
    <2>1. n + 1 \in 1 .. Len(g) /\ g[n + 1] = k /\ \A i \in 1 .. n : g[i] = T[i]
      <3>1. n + 1 \in 1 .. n + 1 /\ \A i \in 1 .. n : i \in 1 .. n + 1
        BY <1>1, SMTT(60)
      <3> QED
        BY <1>5, <3>1, Zenon
    <2>2. Gapless(g, from[w], want[w], log)
      BY <1>1, Zenon DEF InOrder
    <2> HIDE DEF g, k, T, n
    <2>3. (n + 1) - 1 = n
      BY <1>1, SMTT(60) DEF n
    <2>4. /\ g[n + 1] \in from[w] + 1 .. Len(log)
          /\ Matches(want[w], log[g[n + 1]])
          /\ \A j \in 1 .. n : g[j] < g[n + 1]
          /\ \A j \in from[w] + 1 .. g[n + 1] - 1 : Matches(want[w], log[j]) => \E i \in 1 .. n : g[i] = j
      BY <2>1, <2>2, <2>3, ZenonT(60) DEF Gapless
    <2>5. \A j : (\E i \in 1 .. n : g[i] = j) => \E i \in 1 .. n : T[i] = j
      BY <2>1, Zenon
    <2> QED
      BY <2>1, <2>4, <2>5, Zenon
  <1>7. k <= limit
    <2>1. CASE w \in watchers
      BY <1>1, <1>3, <1>6, <2>1, SMTT(60)
    <2>2. CASE w \notin watchers
      <3>1. n + 1 \in 1 .. n + 1
        BY <1>1, SMTT(60)
      <3> QED
        BY <1>1, <1>3, <1>5, <2>2, <3>1, ZenonT(60) DEF Ends, Streaming
    <2> QED
      BY <2>1, <2>2, Zenon
  <1>8. /\ got \in Seq(Nat) /\ Len(got) = n /\ \A i \in 1 .. n : got[i] = T[i]
        /\ SubSeq(T, 1, n + 1) = Append(got, k)
    <2> HIDE DEF T, n
    <2>1. n <= Len(T) /\ n + 1 <= Len(T)
      BY <1>1, <1>5, SMTT(60)
    <2> QED
      BY <1>1, <2>1, PrefixFacts, PrefixGrows, Zenon
  <1>9. k \in owed /\ \A j \in owed : k <= j
    <2> HIDE DEF T, n, k, got, limit
    <2>1. k \in from[w] + 1 .. limit
      BY <1>1, <1>6, <1>7, SMTT(60) DEF limit
    <2>2. \A i \in 1 .. Len(got) : got[i] # k
      <3>1. \A i \in 1 .. n : T[i] # k
        BY <1>6
      <3> QED
        BY <1>8, <3>1, Zenon
    <2>3. ASSUME NEW j \in owed, ~(k <= j) PROVE FALSE
      <3>1. j \in from[w] + 1 .. k - 1 /\ Matches(want[w], log[j])
        BY <1>1, <1>6, <2>3 DEF limit
      <3> QED
        BY <1>6, <1>8, <2>3, <3>1, ZenonT(60)
    <2> QED
      BY <1>6, <2>1, <2>2, <2>3, ZenonT(60)
  <1>10. \A v \in Watcher : SubSeq(taken'[v], 1, sent'[v]) = IF v = w THEN Append(got, k) ELSE SubSeq(taken[v], 1, sent[v])
    BY <1>1, <1>2, <1>8, Zenon DEF HubTypeOK
  <1>11. Feed!Owed(w) = owed /\ FeedSub(w) \in {"live", "cut"}
    <2>1. Feed!Limit(w) = limit
      BY <1>3, Zenon DEF Feed!Limit
    <2> QED
      BY <1>3, <2>1, Zenon DEF Feed!Owed, Feed!Matches, Matches
  <1> HIDE DEF owed
  <1> QED
    BY <1>2, <1>4, <1>9, <1>10, <1>11, ZenonT(60) DEF Feed!Deliver

(* A handler that finds its channel closed and drained has sent everything *)
(* from before the drop.                                                   *)
LEMMA SeeClosedIsTellDropped ==
  ASSUME HubInv, FeedInv, NEW w \in Watcher, SeeClosed(w)
  PROVE  Feed!TellDropped(w)
PROOF
  <1>1. /\ HubTypeOK /\ Complete(w) /\ Counted(w) /\ Registered
        /\ pc[w] = "loop" /\ closed[w] /\ ch[w] = << >> /\ Return(w, "dropped")
        /\ taken[w] \in Seq(Nat)
    BY ZenonT(60) DEF HubInv, HubSafe, HubTypeOK, SeeClosed
  <1>2. w \notin watchers
    BY <1>1 DEF Registered
  <1>3. FeedSub(w) = "cut" /\ FeedSub(w)' = "dropped"
    BY <1>1, <1>2 DEF Return, FeedSub, HubTypeOK
  <1>4. \A v \in Watcher \ {w} : FeedSub(v)' = FeedSub(v)
    BY <1>1, Zenon DEF Return, FeedSub, HubTypeOK
  <1>5. UNCHANGED <<log, want, from, upto, taken, sent>>
    BY <1>1, Zenon DEF Return
  <1>6. Feed!Owed(w) = {}
    <2>1. Given(w) = taken[w]
      BY <1>1, ConcatEmptySeq, ZenonT(60) DEF Given
    <2>2. sent[w] = Len(taken[w]) /\ Len(taken[w]) \in Nat
      BY <1>1, LenProperties, ZenonT(60) DEF Counted
    <2>3. SubSeq(taken[w], 1, sent[w]) = taken[w]
      BY <1>1, <2>2, SubSeqFull, ZenonT(60)
    <2>4. Covers(taken[w], from[w], want[w], log, upto[w])
      BY <1>1, <1>2, <2>1, ZenonT(60) DEF Complete, Streaming
    <2>5. Feed!Limit(w) = upto[w]
      BY <1>3 DEF Feed!Limit
    <2> QED
      BY <2>3, <2>4, <2>5, ZenonT(60) DEF Feed!Owed, Feed!Matches, Matches, Covers
  <1>7. [v \in Watcher |-> FeedSub(v)'] = [[v \in Watcher |-> FeedSub(v)] EXCEPT ![w] = "dropped"]
    BY <1>3, <1>4, Zenon
  <1>8. \A v \in Watcher :
          (IF FeedSub(v)' \in {"cut", "dropped"} THEN upto'[v] ELSE 0) =
            IF FeedSub(v) \in {"cut", "dropped"} THEN upto[v] ELSE 0
    BY <1>3, <1>4, <1>5
  <1> QED
    BY <1>3, <1>5, <1>6, <1>7, <1>8, ZenonT(60) DEF Feed!TellDropped

(* The client sees nothing of a snapshot, a receive, a deferred            *)
(* removeWatcher or its own cancel.                                        *)
LEMMA UnseenSteps ==
  ASSUME HubInv, FeedInv, NEW w \in Watcher,
         SnapshotSent(w) \/ Receive(w) \/ Leave(w) \/ Cancel(w)
  PROVE  UNCHANGED Feed!feedVars
PROOF
  <1>1. HubTypeOK /\ \A v \in Watcher : Counted(v)
    BY ZenonT(60) DEF HubInv, HubSafe
  <1>2. UNCHANGED <<log, want, from, upto, sent>>
    BY DEF SnapshotSent, Receive, Leave, Cancel
  <1>3. \A v \in Watcher : FeedSub(v)' = FeedSub(v)
    <2>1. CASE SnapshotSent(w)
      BY <1>1, <2>1, Zenon DEF SnapshotSent, FeedSub, HubTypeOK
    <2>2. CASE Receive(w)
      BY <1>1, <2>2, ZenonT(60) DEF Receive, FeedSub, HubTypeOK
    <2>3. CASE Leave(w)
      <3>1. \A v \in Watcher \ {w} : pc'[v] = pc[v] /\ (v \in watchers' <=> v \in watchers)
        BY <1>1, <2>3, SMTT(60) DEF Leave, removeWatcher, HubTypeOK
      <3>2. pc[w] = "leave" /\ pc'[w] = "done" /\ UNCHANGED res
        BY <1>1, <2>3, Zenon DEF Leave, HubTypeOK
      <3> QED
        BY <3>1, <3>2, Zenon DEF FeedSub
    <2>4. CASE Cancel(w)
      BY <2>4 DEF Cancel, FeedSub
    <2> QED
      BY <2>1, <2>2, <2>3, <2>4, ZenonT(60)
  <1>4. \A v \in Watcher : SubSeq(taken'[v], 1, sent'[v]) = SubSeq(taken[v], 1, sent[v])
    <2>1. CASE Receive(w)
      <3>1. /\ taken[w] \in Seq(Nat) /\ ch[w] \in Seq(Nat) /\ ch[w] # << >> /\ sent[w] \in Nat
            /\ sent[w] <= Len(taken[w])
            /\ taken' = [taken EXCEPT ![w] = Append(taken[w], Head(ch[w]))]
        BY <1>1, <2>1 DEF Receive, HubTypeOK, Counted
      <3>2. SubSeq(Append(taken[w], Head(ch[w])), 1, sent[w]) = SubSeq(taken[w], 1, sent[w])
        BY <3>1, HeadTailProperties, PrefixKept, Zenon
      <3> QED
        BY <1>1, <1>2, <3>1, <3>2, ZenonT(60) DEF HubTypeOK
    <2>2. CASE ~Receive(w)
      BY <1>2, <2>2, Zenon DEF SnapshotSent, Leave, Cancel
    <2> QED
      BY <2>1, <2>2, Zenon
  <1> QED
    BY <1>2, <1>3, <1>4, Zenon DEF Feed!feedVars

(* The watcher hub implements the event feed: whatever the watchers, the   *)
(* requests and the capacity, each client is delivered the next event owed *)
(* to it, and is told it was dropped only when it has everything before.   *)
THEOREM HubImplementsFeed == HubSpec => ImplementsFeed
PROOF
  <1>1. HubInv /\ FeedInv /\ [HubNext]_hubVars => [Feed!FeedNext]_(Feed!feedVars)
    <2> SUFFICES ASSUME HubInv, FeedInv, [HubNext]_hubVars
                 PROVE  Feed!FeedNext \/ UNCHANGED Feed!feedVars
      OBVIOUS
    <2>0. HubTypeOK /\ watchers \subseteq Watcher
      BY DEF HubInv, HubSafe, HubTypeOK
    <2>1. ASSUME NEW w \in Watcher, SnapshotSent(w) \/ Receive(w) \/ Leave(w) \/ Cancel(w)
          PROVE  UNCHANGED Feed!feedVars
      BY <2>1, UnseenSteps
    <2>2. ASSUME NEW w \in Watcher, SendOk(w) PROVE Feed!FeedNext
      BY <2>2, SendIsDeliver DEF Feed!FeedNext
    <2>3. ASSUME NEW w \in Watcher, SeeClosed(w) PROVE Feed!FeedNext
      BY <2>3, SeeClosedIsTellDropped DEF Feed!FeedNext
    <2>4. ASSUME NEW w \in Watcher, SnapshotErr(w) \/ SendErr(w) \/ SeeDone(w) PROVE Feed!FeedNext
      <3>1. Feed!End({w})
        BY <2>4, ReturnIsEnd DEF SnapshotErr, SendErr, SeeDone, Streaming
      <3>2. {w} \in SUBSET Watcher
        OBVIOUS
      <3> QED
        BY <3>1, <3>2, ZenonT(60) DEF Feed!FeedNext
    <2>5. ASSUME NEW w \in Watcher, NEW r \in Request, NEW first \in {"snap", "loop"}, Watch(w, r, first)
          PROVE  Feed!FeedNext
      <3>1. Feed!Subscribe(w, r)
        BY <2>5, WatchIsSubscribe
      <3>2. r \in Feed!Request
        BY DEF Request, Feed!Request
      <3> QED
        BY <3>1, <3>2 DEF Feed!FeedNext
    <2>6. ASSUME NEW ev \in Event, broadcast(ev) PROVE Feed!FeedNext
      <3>1. PICK cut : cut = {w \in Slow(ev) : FeedSub(w) = "live"}
        BY Zenon
      <3>2. cut \in SUBSET Watcher
        BY <2>0, <3>1, Zenon DEF Slow, Addressed
      <3>3. Feed!Publish(ev, cut)
        BY <2>6, <3>1, BroadcastIsPublish, ZenonT(60)
      <3> QED
        BY <3>2, <3>3 DEF Feed!FeedNext
    <2>7. CASE Crash
      <3>1. PICK S : S = {w \in Watcher : FeedSub(w) \in {"live", "cut"}}
        BY Zenon
      <3>2. S \in SUBSET Watcher
        BY <3>1
      <3>3. Feed!End(S)
        BY <2>7, <3>1, CrashIsEnd, ZenonT(60)
      <3> QED
        BY <3>2, <3>3 DEF Feed!FeedNext
    <2>8. CASE UNCHANGED hubVars
      BY <2>8 DEF hubVars, Feed!feedVars, FeedSub
    <2> QED
      BY <2>1, <2>2, <2>3, <2>4, <2>5, <2>6, <2>7, <2>8, ZenonT(60) DEF HubNext, HandlerStep
  <1> QED
    BY <1>1, FeedInitially, HubInvariant, FeedInvariant, PTL DEF HubSpec, ImplementsFeed, Feed!FeedSpec
=============================================================================
