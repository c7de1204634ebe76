------------------------------ MODULE HubProofs ------------------------------
(***************************************************************************)
(* The watcher hub never panics, and no Watch stream has a gap, for any    *)
(* number of watchers, any channel capacity and any requests.              *)
(***************************************************************************)
EXTENDS WatchHub, SequenceTheorems, TLAPS

(* The events given to w so far: taken by its handler or in its channel.   *)
Given(w) == taken[w] \o ch[w]

(* A watcher in the map has a handler and an open channel, and a channel   *)
(* is not closed before its Watch call.                                    *)
Registered ==
  \A w \in Watcher :
    /\ w \in watchers => pc[w] \in Active /\ ~closed[w]
    /\ pc[w] = "idle" => ~closed[w] /\ taken[w] = << >> /\ ch[w] = << >> /\ sent[w] = 0

HubSafe == HubTypeOK /\ Registered /\ NoPanic

(* The empty hub of New.                                                   *)
LEMMA HubInitially == HubInit => HubSafe
PROOF
  <1> SUFFICES ASSUME HubInit PROVE HubSafe
    OBVIOUS
  <1>1. HubTypeOK
    <2>1. ch \in [Watcher -> Seq(Nat)] /\ \A w \in Watcher : Len(ch[w]) <= ChanCap
      BY ChanAssumption DEF HubInit
    <2>2. want \in [Watcher -> Request]
      BY DEF HubInit, Request
    <2>3. taken \in [Watcher -> Seq(Nat)] /\ log \in Seq(Event)
      BY DEF HubInit
    <2>4. pc \in [Watcher -> PC] /\ res \in [Watcher -> Res]
      BY DEF HubInit, PC, Res
    <2>5. /\ closed \in [Watcher -> BOOLEAN] /\ cancelled \in [Watcher -> BOOLEAN]
          /\ sent \in [Watcher -> Nat] /\ from \in [Watcher -> Nat] /\ upto \in [Watcher -> Nat]
          /\ watchers \in SUBSET Watcher
      BY DEF HubInit
    <2>6. panicked \in BOOLEAN
      BY Zenon DEF HubInit
    <2> QED
      BY <2>1, <2>2, <2>3, <2>4, <2>5, <2>6, Zenon DEF HubTypeOK
  <1>2. Registered /\ NoPanic
    BY DEF HubInit, Registered, NoPanic
  <1> QED
    BY <1>1, <1>2 DEF HubSafe

(* broadcast sends only to open channels and closes each slow one once, as *)
(* it takes it out of the map.                                             *)
LEMMA BroadcastSafe ==
  ASSUME HubSafe, NEW ev \in Event, broadcast(ev)
  PROVE  HubSafe'
PROOF
  <1>1. HubTypeOK'
    <2>1. log' \in Seq(Event) /\ Len(log) + 1 \in Nat
      BY DEF HubSafe, HubTypeOK, broadcast
    <2>2. ASSUME NEW w \in Watcher
          PROVE  ch'[w] \in Seq(Nat) /\ Len(ch'[w]) <= ChanCap
      <3>1. CASE w \in Addressed(ev) \ Slow(ev)
        <4>1. ch'[w] = Append(ch[w], Len(log) + 1) /\ Len(ch[w]) < ChanCap
          BY <3>1, ChanAssumption, SMTT(60) DEF broadcast, Slow, HubSafe, HubTypeOK
        <4> QED
          BY <2>1, <4>1, ChanAssumption, SMTT(60) DEF HubSafe, HubTypeOK
      <3>2. CASE w \notin Addressed(ev) \ Slow(ev)
        BY <3>2 DEF broadcast, HubSafe, HubTypeOK
      <3> QED
        BY <3>1, <3>2, Zenon
    <2>3. ch' \in [Watcher -> Seq(Nat)]
      BY <2>2 DEF broadcast
    <2>4. closed' \in [Watcher -> BOOLEAN] /\ panicked' \in BOOLEAN
      BY DEF broadcast
    <2>5. upto' \in [Watcher -> Nat]
      BY SMTT(60) DEF broadcast, HubSafe, HubTypeOK
    <2> QED
      BY <2>1, <2>2, <2>3, <2>4, <2>5, Zenon DEF broadcast, HubSafe, HubTypeOK
  <1>2. Registered'
    BY Zenon DEF broadcast, HubSafe, HubTypeOK, Registered, Addressed, Slow, Active
  <1>3. NoPanic'
    BY DEF broadcast, HubSafe, HubTypeOK, Registered, NoPanic, Addressed
  <1> QED
    BY <1>1, <1>2, <1>3, Zenon DEF HubSafe

(* A Watch call registers its watcher with an open, empty channel.         *)
LEMMA WatchSafe ==
  ASSUME HubSafe, NEW w \in Watcher, NEW r \in Request, NEW first \in {"snap", "loop"}, Watch(w, r, first)
  PROVE  HubSafe'
PROOF
  <1>1. HubTypeOK'
    BY SMTT(60) DEF Watch, addWatcher, HubSafe, HubTypeOK, PC, Active
  <1>2. Registered'
    BY Zenon DEF Watch, addWatcher, HubSafe, HubTypeOK, Registered, Active
  <1>3. NoPanic'
    BY DEF Watch, HubSafe, NoPanic
  <1> QED
    BY <1>1, <1>2, <1>3, Zenon DEF HubSafe

(* The returns of the handler leave the map to the deferred call.          *)
LEMMA ReturnSafe ==
  ASSUME HubSafe, NEW w \in Watcher, NEW r \in Res, pc[w] \in Active, Return(w, r)
  PROVE  HubSafe'
PROOF
  <1>1. HubTypeOK'
    BY Zenon DEF Return, HubSafe, HubTypeOK, PC, Active
  <1>2. Registered'
    BY Zenon DEF Return, HubSafe, HubTypeOK, Registered, Active
  <1>3. NoPanic'
    BY DEF Return, HubSafe, NoPanic
  <1> QED
    BY <1>1, <1>2, <1>3 DEF HubSafe

(* The deferred removeWatcher finds the channel open, or the watcher gone. *)
LEMMA LeaveSafe ==
  ASSUME HubSafe, NEW w \in Watcher, Leave(w)
  PROVE  HubSafe'
PROOF
  <1>1. CASE w \in watchers
    <2>1. /\ watchers' = watchers \ {w} /\ closed' = [closed EXCEPT ![w] = TRUE]
          /\ panicked' = (panicked \/ closed[w])
      BY <1>1 DEF Leave, removeWatcher
    <2>2. HubTypeOK'
      BY <2>1, Zenon DEF Leave, HubSafe, HubTypeOK, PC
    <2>3. Registered'
      BY <2>1 DEF Leave, HubSafe, HubTypeOK, Registered
    <2>4. NoPanic'
      BY <1>1, <2>1 DEF HubSafe, HubTypeOK, Registered, NoPanic
    <2> QED
      BY <2>2, <2>3, <2>4 DEF HubSafe
  <1>2. CASE w \notin watchers
    <2>1. UNCHANGED <<watchers, closed, panicked>>
      BY <1>2, Zenon DEF Leave, removeWatcher
    <2>2. HubTypeOK'
      BY <2>1, Zenon DEF Leave, HubSafe, HubTypeOK, PC
    <2>3. Registered' /\ NoPanic'
      BY <1>2, <2>1, Zenon DEF Leave, HubSafe, HubTypeOK, Registered, NoPanic
    <2> QED
      BY <2>2, <2>3 DEF HubSafe
  <1> QED
    BY <1>1, <1>2

(* Every other step of a handler moves events between its own channel and  *)
(* its client.                                                             *)
LEMMA HandlerSafe ==
  ASSUME HubSafe, NEW w \in Watcher, HandlerStep(w)
  PROVE  HubSafe'
PROOF
  <1>1. CASE SnapshotSent(w)
    <2>1. HubTypeOK'
      BY <1>1, Zenon DEF SnapshotSent, HubSafe, HubTypeOK, PC, Active
    <2>2. Registered' /\ NoPanic'
      BY <1>1, Zenon DEF SnapshotSent, HubSafe, HubTypeOK, Registered, NoPanic, Active
    <2> QED
      BY <2>1, <2>2, Zenon DEF HubSafe
  <1>2. CASE Receive(w)
    <2>1. /\ ch[w] \in Seq(Nat) /\ ch[w] # << >> /\ Len(ch[w]) <= ChanCap
          /\ taken[w] \in Seq(Nat)
      BY <1>2 DEF Receive, HubSafe, HubTypeOK
    <2>2. Head(ch[w]) \in Nat /\ Tail(ch[w]) \in Seq(Nat) /\ Len(Tail(ch[w])) <= ChanCap
      BY <2>1, ChanAssumption, SMTT(60)
    <2>3. HubTypeOK'
      BY <1>2, <2>1, <2>2, SMTT(60) DEF Receive, HubSafe, HubTypeOK, PC, Active
    <2>4. Registered' /\ NoPanic'
      BY <1>2, Zenon DEF Receive, HubSafe, HubTypeOK, Registered, NoPanic, Active
    <2> QED
      BY <2>3, <2>4 DEF HubSafe
  <1>3. CASE SendOk(w)
    <2>1. HubTypeOK'
      BY <1>3, SMTT(60) DEF SendOk, HubSafe, HubTypeOK, PC, Active
    <2>2. Registered' /\ NoPanic'
      BY <1>3, Zenon DEF SendOk, HubSafe, HubTypeOK, Registered, NoPanic, Active
    <2> QED
      BY <2>1, <2>2 DEF HubSafe
  <1>4. CASE SnapshotErr(w) \/ SendErr(w) \/ SeeClosed(w) \/ SeeDone(w)
    BY <1>4, ReturnSafe DEF SnapshotErr, SendErr, SeeClosed, SeeDone, Active, Res
  <1>5. CASE Leave(w)
    BY <1>5, LeaveSafe
  <1> QED
    BY <1>1, <1>2, <1>3, <1>4, <1>5, Zenon DEF HandlerStep

(* The new process has no watchers, and no channel of the old one.         *)
LEMMA CrashSafe ==
  ASSUME HubSafe, Crash
  PROVE  HubSafe'
PROOF
  <1>1. \A w \in Watcher : ch'[w] = << >>
    BY DEF Crash
  <1>2. ch' \in [Watcher -> Seq(Nat)] /\ \A w \in Watcher : Len(ch'[w]) <= ChanCap
    BY <1>1, ChanAssumption DEF Crash
  <1>3. pc' \in [Watcher -> PC] /\ res' \in [Watcher -> Res]
    BY Zenon DEF Crash, HubSafe, HubTypeOK, PC, Res
  <1>4. HubTypeOK'
    BY <1>2, <1>3, Zenon DEF Crash, HubSafe, HubTypeOK
  <1>5. Registered' /\ NoPanic'
    BY <1>1 DEF Crash, HubSafe, HubTypeOK, Registered, NoPanic, Active
  <1> QED
    BY <1>4, <1>5 DEF HubSafe

(* A client that goes away changes only the context of its stream.         *)
LEMMA CancelSafe ==
  ASSUME HubSafe, NEW w \in Watcher, Cancel(w)
  PROVE  HubSafe'
PROOF
  BY Zenon DEF Cancel, HubSafe, HubTypeOK, Registered, NoPanic

(* Types, the map and the channels, for every watcher and capacity.        *)
THEOREM HubIsSafe == HubSpec => []HubSafe
PROOF
  <1>1. HubSafe /\ [HubNext]_hubVars => HubSafe'
    <2> SUFFICES ASSUME HubSafe, [HubNext]_hubVars PROVE HubSafe'
      OBVIOUS
    <2>1. ASSUME NEW w \in Watcher, HandlerStep(w) PROVE HubSafe'
      BY <2>1, HandlerSafe
    <2>2. ASSUME NEW w \in Watcher, Cancel(w) PROVE HubSafe'
      BY <2>2, CancelSafe
    <2>3. ASSUME NEW w \in Watcher, NEW r \in Request, NEW first \in {"snap", "loop"}, Watch(w, r, first)
          PROVE  HubSafe'
      BY <2>3, WatchSafe
    <2>4. ASSUME NEW ev \in Event, broadcast(ev) PROVE HubSafe'
      BY <2>4, BroadcastSafe
    <2>5. CASE Crash
      BY <2>5, CrashSafe, Zenon
    <2>6. CASE UNCHANGED hubVars
      BY <2>6 DEF hubVars, HubSafe, HubTypeOK, Registered, NoPanic
    <2> QED
      BY <2>1, <2>2, <2>3, <2>4, <2>5, <2>6, Zenon DEF HubNext
  <1> QED
    BY HubInitially, <1>1, PTL DEF HubSpec

(* The slow-consumer close in broadcast and the deferred removeWatcher     *)
(* never close a channel twice, and nothing is sent on a closed one.       *)
THEOREM HubNoPanic == HubSpec => []NoPanic
PROOF
  <1>1. HubSafe => NoPanic
    BY Zenon DEF HubSafe
  <1> QED
    BY <1>1, HubIsSafe, PTL

-----------------------------------------------------------------------------
(* The positions in g are, in order, the part of log l behind position f   *)
(* that request r matches, up to some event.                               *)
Gapless(g, f, r, l) ==
  \A i \in 1 .. Len(g) :
    /\ g[i] \in f + 1 .. Len(l)
    /\ Matches(r, l[g[i]])
    /\ \A j \in 1 .. i - 1 : g[j] < g[i]
    /\ \A k \in f + 1 .. g[i] - 1 : Matches(r, l[k]) => \E j \in 1 .. i - 1 : g[j] = k

(* g has all of that part up to position n.                                *)
Covers(g, f, r, l, n) ==
  \A k \in f + 1 .. n : Matches(r, l[k]) => \E j \in 1 .. Len(g) : g[j] = k

Streaming == {"snap", "loop", "send"}

(* A watcher in the map was given everything; one dropped while its        *)
(* handler runs, everything before the drop.                               *)
Complete(w) ==
  /\ w \in watchers => Covers(Given(w), from[w], want[w], log, Len(log))
  /\ (pc[w] \in Streaming /\ w \notin watchers) =>
       closed[w] /\ Covers(Given(w), from[w], want[w], log, upto[w])

(* Of the events taken, at most the one in stream.Send is unsent.          *)
Counted(w) ==
  /\ upto[w] <= Len(log)
  /\ from[w] <= Len(log)
  /\ sent[w] <= Len(taken[w])
  /\ pc[w] = "send" => sent[w] + 1 = Len(taken[w])
  /\ pc[w] \in {"snap", "loop"} => sent[w] = Len(taken[w])

InOrder(w) == Gapless(Given(w), from[w], want[w], log)

HubInv == HubSafe /\ \A w \in Watcher : InOrder(w) /\ Complete(w) /\ Counted(w)

(* A longer log changes nothing about what was given before (broadcast to  *)
(* the other watchers).                                                    *)
LEMMA GaplessLogGrows ==
  ASSUME NEW l \in Seq(Event), NEW ev \in Event, NEW g \in Seq(Nat), NEW f \in Nat, NEW r,
         Gapless(g, f, r, l)
  PROVE  Gapless(g, f, r, Append(l, ev))
PROOF
  <1>1. Len(Append(l, ev)) = Len(l) + 1 /\ \A k \in 1 .. Len(l) : Append(l, ev)[k] = l[k]
    BY AppendProperties
  <1> DEFINE m == Append(l, ev)
  <1> HIDE DEF m
  <1> SUFFICES ASSUME NEW i \in 1 .. Len(g)
               PROVE  /\ g[i] \in f + 1 .. Len(m)
                      /\ Matches(r, m[g[i]])
                      /\ \A j \in 1 .. i - 1 : g[j] < g[i]
                      /\ \A k \in f + 1 .. g[i] - 1 : Matches(r, m[k]) => \E j \in 1 .. i - 1 : g[j] = k
    BY Zenon DEF Gapless, m
  <1>2. g[i] \in f + 1 .. Len(l) /\ g[i] \in Nat /\ Len(l) \in Nat
    BY DEF Gapless
  <1>3. g[i] \in f + 1 .. Len(m) /\ m[g[i]] = l[g[i]]
    BY <1>1, <1>2, SMTT(60) DEF m
  <1>4. \A k \in f + 1 .. g[i] - 1 : m[k] = l[k]
    BY <1>1, <1>2, SMTT(60) DEF m
  <1> QED
    BY <1>3, <1>4, ZenonT(60) DEF Gapless

(* The same of what was covered.                                           *)
LEMMA CoversLogGrows ==
  ASSUME NEW l \in Seq(Event), NEW ev \in Event, NEW g \in Seq(Nat), NEW f \in Nat, NEW r,
         NEW n \in Nat, n <= Len(l), Covers(g, f, r, l, n)
  PROVE  Covers(g, f, r, Append(l, ev), n)
PROOF
  <1>1. \A k \in 1 .. Len(l) : Append(l, ev)[k] = l[k]
    BY AppendProperties
  <1>2. \A k \in f + 1 .. n : k \in 1 .. Len(l)
    OBVIOUS
  <1> QED
    BY <1>1, <1>2 DEF Covers

(* An event that r does not match need not be covered.                     *)
LEMMA CoversUnmatched ==
  ASSUME NEW l \in Seq(Event), NEW ev \in Event, NEW g \in Seq(Nat), NEW f \in Nat, NEW r,
         Covers(g, f, r, l, Len(l)), ~Matches(r, ev)
  PROVE  Covers(g, f, r, Append(l, ev), Len(l) + 1)
PROOF
  <1>1. /\ Append(l, ev)[Len(l) + 1] = ev
        /\ \A k \in 1 .. Len(l) : Append(l, ev)[k] = l[k]
    BY AppendProperties
  <1>2. \A k \in f + 1 .. Len(l) + 1 : k = Len(l) + 1 \/ (k \in 1 .. Len(l) /\ k \in f + 1 .. Len(l))
    BY SMTT(60)
  <1> QED
    BY <1>1, <1>2, ZenonT(60) DEF Covers

(* The event broadcast, given to a watcher that has everything before it.  *)
LEMMA GaplessAppend ==
  ASSUME NEW l \in Seq(Event), NEW ev \in Event, NEW g \in Seq(Nat), NEW f \in Nat, NEW r,
         Gapless(g, f, r, l), Covers(g, f, r, l, Len(l)), Matches(r, ev), f <= Len(l)
  PROVE  /\ Gapless(Append(g, Len(l) + 1), f, r, Append(l, ev))
         /\ Covers(Append(g, Len(l) + 1), f, r, Append(l, ev), Len(l) + 1)
PROOF
  <1> DEFINE n == Len(l)
             h == Append(g, n + 1)
             m == Append(l, ev)
  <1>1. n \in Nat /\ Len(g) \in Nat
    BY LenProperties
  <1>2. /\ Len(m) = n + 1
        /\ \A k \in 1 .. n : m[k] = l[k]
        /\ m[n + 1] = ev
    BY AppendProperties, SMTT(60)
  <1>3. /\ Len(h) = Len(g) + 1
        /\ \A i \in 1 .. Len(g) : h[i] = g[i]
        /\ h[Len(g) + 1] = n + 1
    BY <1>1, AppendProperties, SMTT(60)
  <1> HIDE DEF n, h, m
  <1>4. Gapless(h, f, r, m)
    <2> SUFFICES ASSUME NEW i \in 1 .. Len(h)
                 PROVE  /\ h[i] \in f + 1 .. Len(m)
                        /\ Matches(r, m[h[i]])
                        /\ \A j \in 1 .. i - 1 : h[j] < h[i]
                        /\ \A k \in f + 1 .. h[i] - 1 : Matches(r, m[k]) => \E j \in 1 .. i - 1 : h[j] = k
      BY Zenon DEF Gapless
    <2>1. CASE i = Len(g) + 1
      <3>1. h[i] = n + 1 /\ h[i] \in f + 1 .. Len(m) /\ Matches(r, m[h[i]])
        BY <1>1, <1>2, <1>3, <2>1 DEF n
      <3>2. \A j \in 1 .. Len(g) : h[j] = g[j] /\ g[j] < n + 1
        BY <1>1, <1>3, SMTT(60) DEF Gapless, n
      <3>3. \A k \in f + 1 .. n : Matches(r, m[k]) => \E j \in 1 .. Len(g) : h[j] = k
        <4>1. \A k \in f + 1 .. n : m[k] = l[k]
          BY <1>1, <1>2
        <4> QED
          BY <1>3, <4>1, Zenon DEF Covers, n
      <3>4. i - 1 = Len(g) /\ h[i] - 1 = n
        BY <1>1, <2>1, <3>1
      <3> QED
        BY <3>1, <3>2, <3>3, <3>4, Zenon
    <2>2. CASE i # Len(g) + 1
      <3>1. i \in 1 .. Len(g) /\ \A j \in 1 .. i - 1 : j \in 1 .. Len(g)
        BY <1>1, <1>3, <2>2, SMTT(60)
      <3>2. Gapless(g, f, r, m)
        BY GaplessLogGrows DEF m
      <3>3. h[i] = g[i] /\ \A j \in 1 .. i - 1 : h[j] = g[j]
        BY <1>3, <3>1, Zenon
      <3>4. /\ g[i] \in f + 1 .. Len(m)
            /\ Matches(r, m[g[i]])
            /\ \A j \in 1 .. i - 1 : g[j] < g[i]
            /\ \A k \in f + 1 .. g[i] - 1 : Matches(r, m[k]) => \E j \in 1 .. i - 1 : g[j] = k
        BY <3>1, <3>2, Zenon DEF Gapless
      <3>5. \A k : (\E j \in 1 .. i - 1 : g[j] = k) => \E j \in 1 .. i - 1 : h[j] = k
        BY <3>3, Zenon
      <3> QED
        BY <3>3, <3>4, <3>5, Zenon
    <2> QED
      BY <2>1, <2>2
  <1>5. Covers(h, f, r, m, n + 1)
    <2> SUFFICES ASSUME NEW k \in f + 1 .. n + 1, Matches(r, m[k])
                 PROVE  \E j \in 1 .. Len(h) : h[j] = k
      BY Zenon DEF Covers
    <2>1. CASE k = n + 1
      BY <1>1, <1>3, <2>1, SMTT(60)
    <2>2. CASE k # n + 1
      <3>1. k \in f + 1 .. n /\ m[k] = l[k]
        BY <1>1, <1>2, <2>2, SMTT(60)
      <3>2. PICK j \in 1 .. Len(g) : g[j] = k
        BY <3>1, Zenon DEF Covers, n
      <3> QED
        BY <1>1, <1>3, <3>2, SMTT(60)
    <2> QED
      BY <2>1, <2>2
  <1> QED
    BY <1>4, <1>5 DEF n, h, m

(* The events given to a watcher, by position: first the taken ones.       *)
LEMMA GivenFacts ==
  ASSUME HubTypeOK, NEW w \in Watcher
  PROVE  /\ Given(w) \in Seq(Nat)
         /\ Len(Given(w)) = Len(taken[w]) + Len(ch[w])
         /\ Len(taken[w]) \in Nat /\ Len(ch[w]) \in Nat
         /\ \A i \in 1 .. Len(taken[w]) : Given(w)[i] = taken[w][i]
         /\ \A i \in 1 .. Len(ch[w]) : Given(w)[Len(taken[w]) + i] = ch[w][i]
PROOF
  <1>1. taken[w] \in Seq(Nat) /\ ch[w] \in Seq(Nat)
    BY DEF HubTypeOK
  <1>2. /\ Given(w) \in Seq(Nat)
        /\ Len(Given(w)) = Len(taken[w]) + Len(ch[w])
        /\ \A i \in 1 .. Len(taken[w]) + Len(ch[w]) :
             Given(w)[i] = IF i <= Len(taken[w]) THEN taken[w][i] ELSE ch[w][i - Len(taken[w])]
    BY <1>1, ConcatProperties, ZenonT(60) DEF Given
  <1>3. Len(taken[w]) \in Nat /\ Len(ch[w]) \in Nat
    BY <1>1, LenProperties
  <1>4. ASSUME NEW m \in Nat, NEW n \in Nat
        PROVE  /\ \A i \in 1 .. n : m + i \in 1 .. m + n /\ ~(m + i <= m) /\ (m + i) - m = i
               /\ \A i \in 1 .. m : i \in 1 .. m + n /\ i <= m
    OBVIOUS
  <1>5. /\ \A i \in 1 .. Len(ch[w]) : Given(w)[Len(taken[w]) + i] = ch[w][i]
        /\ \A i \in 1 .. Len(taken[w]) : Given(w)[i] = taken[w][i]
    <2>1. /\ \A i \in 1 .. Len(ch[w]) : /\ Len(taken[w]) + i \in 1 .. Len(taken[w]) + Len(ch[w])
                                        /\ ~(Len(taken[w]) + i <= Len(taken[w]))
                                        /\ (Len(taken[w]) + i) - Len(taken[w]) = i
          /\ \A i \in 1 .. Len(taken[w]) : i \in 1 .. Len(taken[w]) + Len(ch[w]) /\ i <= Len(taken[w])
      BY <1>3, <1>4, Zenon
    <2> QED
      BY <1>2, <2>1, Zenon
  <1> QED
    BY <1>2, <1>3, <1>5, ZenonT(60)

(* A watcher of which nothing but the progress of its handler changed.     *)
LEMMA Undisturbed ==
  ASSUME HubInv, NEW w \in Watcher,
         Given(w)' = Given(w), UNCHANGED <<log, want[w], from[w], upto[w], closed[w]>>,
         w \in watchers' <=> w \in watchers,
         pc'[w] \in Streaming => pc[w] \in Streaming
  PROVE  InOrder(w)' /\ Complete(w)'
PROOF
  <1>1. InOrder(w)'
    BY Zenon DEF HubInv, InOrder
  <1>2. Complete(w)'
    BY Zenon DEF HubInv, Complete
  <1> QED
    BY <1>1, <1>2

(* An event moves from the channel to the handler (Watch's receive).       *)
LEMMA ReceiveGiven ==
  ASSUME HubTypeOK, NEW w \in Watcher, Receive(w)
  PROVE  Given(w)' = Given(w)
PROOF
  <1> DEFINE T == taken[w]
             C == ch[w]
             h == Head(C)
  <1>1. T \in Seq(Nat) /\ C \in Seq(Nat) /\ C # << >>
    BY DEF HubTypeOK, Receive
  <1>2. taken'[w] = Append(T, h) /\ ch'[w] = Tail(C)
    BY DEF HubTypeOK, Receive
  <1> HIDE DEF T, C, h
  <1>3. h \in Nat /\ Tail(C) \in Seq(Nat) /\ C = <<h>> \o Tail(C) /\ <<h>> \in Seq(Nat)
    BY <1>1 DEF h
  <1>4. Append(T, h) = T \o <<h>>
    BY <1>1, <1>3, AppendIsConcat
  <1>5. (T \o <<h>>) \o Tail(C) = T \o (<<h>> \o Tail(C))
    BY <1>1, <1>3, ConcatAssociative, SMTT(60)
  <1>6. Given(w)' = Append(T, h) \o Tail(C)
    BY <1>2 DEF Given
  <1>7. Given(w) = T \o C
    BY DEF Given, T, C
  <1> QED
    BY <1>3, <1>4, <1>5, <1>6, <1>7, ZenonT(60)

(* Appending to the channel appends to what was given.                     *)
LEMMA AppendGiven ==
  ASSUME NEW s \in Seq(Nat), NEW t \in Seq(Nat), NEW x \in Nat
  PROVE  s \o Append(t, x) = Append(s \o t, x)
PROOF
  <1>1. <<x>> \in Seq(Nat) /\ s \o t \in Seq(Nat)
    BY ConcatProperties
  <1>2. Append(t, x) = t \o <<x>> /\ Append(s \o t, x) = (s \o t) \o <<x>>
    BY <1>1, AppendIsConcat, Zenon
  <1>3. s \o (t \o <<x>>) = (s \o t) \o <<x>>
    BY <1>1, ConcatAssociative
  <1> QED
    BY <1>2, <1>3, Zenon

(* A watcher in broadcast's loop gets the event, and one whose channel is  *)
(* full is dropped with everything before it (broadcast).                  *)
LEMMA BroadcastInOrder ==
  ASSUME HubInv, NEW ev \in Event, broadcast(ev), NEW w \in Watcher
  PROVE  InOrder(w)' /\ Complete(w)' /\ Counted(w)'
PROOF
  <1> DEFINE n == Len(log)
             g == Given(w)
  <1>1. /\ HubTypeOK /\ log \in Seq(Event) /\ n \in Nat /\ g \in Seq(Nat)
        /\ from[w] \in Nat /\ upto[w] \in Nat /\ want[w] \in Request
        /\ taken[w] \in Seq(Nat) /\ ch[w] \in Seq(Nat)
    BY GivenFacts, LenProperties, ZenonT(60) DEF HubInv, HubSafe, HubTypeOK
  <1>2. /\ log' = Append(log, ev) /\ Len(log') = n + 1
        /\ UNCHANGED <<pc, want, from, taken, sent>>
    BY <1>1 DEF broadcast
  <1>3. /\ Gapless(g, from[w], want[w], log)
        /\ Complete(w) /\ Counted(w)
    BY Zenon DEF HubInv, InOrder
  <1>4. /\ w \in watchers' <=> w \in watchers /\ w \notin Slow(ev)
        /\ closed'[w] <=> closed[w] \/ w \in Slow(ev)
        /\ upto'[w] = IF w \in Slow(ev) THEN n ELSE upto[w]
        /\ ch'[w] = IF w \in Addressed(ev) \ Slow(ev) THEN Append(ch[w], n + 1) ELSE ch[w]
    BY Zenon DEF broadcast
  <1>5. /\ Slow(ev) \subseteq Addressed(ev)
        /\ w \in Addressed(ev) <=> w \in watchers /\ Matches(want[w], ev)
    BY ZenonT(60) DEF Slow, Addressed
  <1>6. Counted(w)'
    BY <1>1, <1>2, <1>3, <1>4, SMTT(60) DEF Counted
  <1> HIDE DEF n, g
  <1>7. CASE w \in Addressed(ev) \ Slow(ev)
    <2>1. Given(w)' = Append(g, n + 1)
      <3>1. Given(w)' = taken[w] \o Append(ch[w], n + 1)
        BY <1>2, <1>4, <1>7, Zenon DEF Given
      <3>2. n + 1 \in Nat
        BY <1>1, SMTT(60)
      <3> QED
        BY <1>1, <3>1, <3>2, AppendGiven, ZenonT(60) DEF Given, g
    <2>2. Covers(g, from[w], want[w], log, Len(log)) /\ Matches(want[w], ev) /\ from[w] <= Len(log)
      BY <1>3, <1>5, <1>7, Zenon DEF Complete, Counted, g
    <2>3. /\ Gapless(Append(g, n + 1), from[w], want[w], log')
          /\ Covers(Append(g, n + 1), from[w], want[w], log', n + 1)
      BY <1>1, <1>2, <1>3, <2>2, GaplessAppend, ZenonT(60) DEF n
    <2>4. InOrder(w)'
      BY <1>2, <2>1, <2>3, Zenon DEF InOrder
    <2>5. Complete(w)'
      BY <1>2, <1>4, <1>5, <1>7, <2>1, <2>3, ZenonT(60) DEF Complete
    <2> QED
      BY <1>6, <2>4, <2>5
  <1>8. CASE w \notin Addressed(ev) \ Slow(ev)
    <2>1. Given(w)' = g
      BY <1>2, <1>4, <1>8, ZenonT(60) DEF Given, g
    <2>2. InOrder(w)'
      <3>1. Gapless(g, from[w], want[w], log')
        BY <1>1, <1>2, <1>3, GaplessLogGrows, Zenon
      <3> QED
        BY <1>2, <2>1, <3>1, Zenon DEF InOrder
    <2>3. w \in watchers' => Covers(g, from[w], want[w], log', n + 1)
      <3> SUFFICES ASSUME w \in watchers' PROVE Covers(g, from[w], want[w], log', n + 1)
        BY ZenonT(60)
      <3>1. w \in watchers /\ ~Matches(want[w], ev)
        BY <1>4, <1>5, <1>8
      <3>2. Covers(g, from[w], want[w], log, Len(log))
        BY <1>3, <3>1, Zenon DEF Complete, g
      <3> QED
        BY <1>1, <1>2, <3>1, <3>2, CoversUnmatched, Zenon DEF n
    <2>4. (pc[w] \in Streaming /\ w \notin watchers') =>
            closed'[w] /\ Covers(g, from[w], want[w], log', upto'[w])
      <3> SUFFICES ASSUME pc[w] \in Streaming, w \notin watchers'
                   PROVE  closed'[w] /\ Covers(g, from[w], want[w], log', upto'[w])
        BY ZenonT(60)
      <3>1. CASE w \in Slow(ev)
        <4>1. upto'[w] = n /\ Covers(g, from[w], want[w], log, Len(log))
          BY <1>3, <1>4, <1>5, <3>1, Zenon DEF Complete, g
        <4> QED
          BY <1>1, <1>2, <1>4, <3>1, <4>1, CoversLogGrows, SMTT(60) DEF n
      <3>2. CASE w \notin Slow(ev)
        <4>1. /\ closed[w] /\ upto'[w] = upto[w] /\ upto[w] <= Len(log)
              /\ Covers(g, from[w], want[w], log, upto[w])
          BY <1>3, <1>4, <3>2, ZenonT(60) DEF Complete, Counted, g
        <4> QED
          BY <1>1, <1>2, <1>4, <4>1, CoversLogGrows, ZenonT(60)
      <3> QED
        BY <3>1, <3>2, Zenon
    <2>5. Complete(w)'
      BY <1>2, <2>1, <2>3, <2>4, Zenon DEF Complete
    <2> QED
      BY <1>6, <2>2, <2>5, Zenon
  <1> QED
    BY <1>7, <1>8

(* A Watch call starts with nothing given and nothing to give.             *)
LEMMA WatchInOrder ==
  ASSUME HubInv, NEW v \in Watcher, NEW r \in Request, NEW first \in {"snap", "loop"},
         Watch(v, r, first), NEW w \in Watcher
  PROVE  InOrder(w)' /\ Complete(w)' /\ Counted(w)'
PROOF
  <1>1. HubTypeOK /\ Registered /\ InOrder(w) /\ Complete(w) /\ Counted(w)
    BY DEF HubInv, HubSafe
  <1>2. Given(w)' = Given(w) /\ UNCHANGED <<ch, closed, taken, sent, log, upto>>
    BY DEF Watch, Given
  <1>3. CASE w = v
    <2>1. /\ taken[w] = << >> /\ ch[w] = << >> /\ sent[w] = 0
          /\ from'[w] = Len(log) /\ w \in watchers' /\ pc'[w] = first
      BY <1>1, <1>3, ZenonT(60) DEF Watch, addWatcher, HubTypeOK, Registered
    <2>2. Given(w)' = << >> /\ Len(Given(w)') = 0
      BY <1>2, <2>1, SMTT(60) DEF Given
    <2>3. Len(log) \in Nat /\ upto[w] <= Len(log) /\ Len(log') = Len(log)
      BY <1>1, <1>2, LenProperties, ZenonT(60) DEF HubTypeOK, Counted
    <2>4. InOrder(w)'
      BY <2>2, SMTT(60) DEF InOrder, Gapless
    <2>5. Complete(w)'
      <3>1. \A k \in from'[w] + 1 .. Len(log') : FALSE
        BY <2>1, <2>3, SMTT(60)
      <3>2. w \in watchers'
        BY <2>1
      <3> QED
        BY <3>1, <3>2, Zenon DEF Complete, Covers
    <2>6. Counted(w)'
      <3>1. upto'[w] = upto[w] /\ sent'[w] = 0 /\ Len(taken'[w]) = 0
        BY <1>2, <2>1, Zenon
      <3>2. pc'[w] # "send"
        BY <2>1, Zenon
      <3>3. upto'[w] <= Len(log') /\ from'[w] <= Len(log')
        BY <2>1, <2>3, <3>1, SMTT(60)
      <3>4. sent'[w] <= Len(taken'[w]) /\ sent'[w] = Len(taken'[w])
        BY <3>1
      <3> QED
        BY <3>2, <3>3, <3>4, Zenon DEF Counted
    <2> QED
      BY <2>4, <2>5, <2>6, Zenon
  <1>4. CASE w # v
    <2>1. UNCHANGED <<want[w], from[w], pc[w]>> /\ (w \in watchers' <=> w \in watchers)
      BY <1>1, <1>4, Zenon DEF Watch, addWatcher, HubTypeOK
    <2>2. InOrder(w)' /\ Complete(w)'
      BY <1>2, <2>1, Undisturbed, Zenon
    <2>3. Counted(w)'
      BY <1>1, <1>2, <2>1, Zenon DEF Counted
    <2> QED
      BY <2>2, <2>3, Zenon
  <1> QED
    BY <1>3, <1>4

(* The steps of a handler, its own and of any other watcher.               *)
LEMMA HandlerInOrder ==
  ASSUME HubInv, NEW v \in Watcher, HandlerStep(v), NEW w \in Watcher
  PROVE  InOrder(w)' /\ Complete(w)' /\ Counted(w)'
PROOF
  <1>1. HubTypeOK /\ InOrder(w) /\ Complete(w) /\ Counted(w)
    BY Zenon DEF HubInv, HubSafe
  <1>2. UNCHANGED <<log, want, from, upto>>
    BY Zenon DEF HandlerStep, SnapshotSent, SnapshotErr, Receive, SendOk, SendErr, SeeClosed, SeeDone, Leave, Return
  <1>3. CASE w # v
    <2>1. UNCHANGED <<taken[w], ch[w], sent[w], pc[w], closed[w]>> /\ (w \in watchers' <=> w \in watchers)
      BY <1>1, <1>3, SMTT(60) DEF HandlerStep, SnapshotSent, SnapshotErr, Receive, SendOk, SendErr, SeeClosed, SeeDone,
                        Leave, Return, removeWatcher, HubTypeOK
    <2>2. Given(w)' = Given(w)
      BY <2>1, Zenon DEF Given
    <2>3. InOrder(w)' /\ Complete(w)'
      BY <1>2, <2>1, <2>2, Undisturbed, Zenon
    <2>4. Counted(w)'
      BY <1>1, <1>2, <2>1, Zenon DEF Counted
    <2> QED
      BY <2>3, <2>4, ZenonT(60)
  <1>4. CASE w = v /\ Receive(w)
    <2>1. Given(w)' = Given(w)
      BY <1>1, <1>4, ReceiveGiven, Zenon
    <2>2. UNCHANGED <<closed, watchers, sent>> /\ pc[w] = "loop" /\ pc'[w] = "send"
      BY <1>1, <1>4, Zenon DEF Receive, HubTypeOK
    <2>3. InOrder(w)' /\ Complete(w)'
      BY <1>2, <2>1, <2>2, Undisturbed, Zenon DEF Streaming
    <2>4. Len(taken'[w]) = Len(taken[w]) + 1 /\ Len(taken[w]) \in Nat
      <3>1. taken[w] \in Seq(Nat) /\ taken'[w] = Append(taken[w], Head(ch[w]))
        BY <1>1, <1>4, ZenonT(60) DEF Receive, HubTypeOK
      <3> QED
        BY <3>1, SMTT(60)
    <2>5. Counted(w)'
      <3>1. sent'[w] = sent[w] /\ upto'[w] = upto[w] /\ from'[w] = from[w] /\ log' = log
        BY <1>2, <2>2
      <3>2. sent[w] = Len(taken[w])
        BY <1>1, <2>2 DEF Counted
      <3>3. sent'[w] + 1 = Len(taken'[w]) /\ sent'[w] <= Len(taken'[w])
        BY <2>4, <3>1, <3>2
      <3>4. upto'[w] <= Len(log') /\ from'[w] <= Len(log')
        BY <1>1, <3>1, ZenonT(60) DEF Counted
      <3>5. pc'[w] \notin {"snap", "loop"}
        BY <2>2
      <3> QED
        BY <3>3, <3>4, <3>5, ZenonT(60) DEF Counted
    <2> QED
      BY <2>3, <2>5, Zenon
  <1>5. CASE w = v /\ ~Receive(w)
    <2>1. UNCHANGED <<taken, ch>>
      BY <1>5, Zenon DEF HandlerStep, SnapshotSent, SnapshotErr, SendOk, SendErr, SeeClosed, SeeDone, Leave, Return
    <2>2. Given(w)' = Given(w) /\ sent[w] \in Nat /\ Len(taken[w]) \in Nat
      BY <1>1, <2>1, GivenFacts, Zenon DEF Given, HubTypeOK
    <2>3. CASE Leave(w)
      <3>1. pc'[w] = "done" /\ UNCHANGED sent
        BY <1>1, <2>3, Zenon DEF Leave, HubTypeOK
      <3>2. w \notin watchers'
        BY <2>3, Zenon DEF Leave, removeWatcher
      <3>3. InOrder(w)' /\ Complete(w)'
        BY <1>1, <1>2, <2>2, <3>1, <3>2, Zenon DEF InOrder, Complete, Streaming
      <3>4. Counted(w)'
        BY <1>1, <1>2, <2>1, <3>1, Zenon DEF Counted
      <3> QED
        BY <3>3, <3>4, Zenon
    <2>4. CASE ~Leave(w)
      <3>1. UNCHANGED <<closed, watchers>>
        BY <1>5, <2>4, Zenon DEF HandlerStep, SnapshotSent, SnapshotErr, SendOk, SendErr, SeeClosed, SeeDone, Return
      <3>2. \/ pc[w] = "snap" /\ pc'[w] = "loop" /\ sent'[w] = sent[w]
            \/ pc[w] = "send" /\ pc'[w] = "loop" /\ sent'[w] = sent[w] + 1
            \/ pc'[w] = "leave" /\ sent'[w] = sent[w]
        BY <1>1, <1>5, <2>4, ZenonT(60)
           DEF HandlerStep, SnapshotSent, SnapshotErr, SendOk, SendErr, SeeClosed, SeeDone, Return, HubTypeOK
      <3>3. InOrder(w)' /\ Complete(w)'
        BY <1>2, <2>2, <3>1, <3>2, Undisturbed, ZenonT(60) DEF Streaming
      <3>4. Counted(w)'
        BY <1>1, <1>2, <2>1, <2>2, <3>2, SMTT(60) DEF Counted
      <3> QED
        BY <3>3, <3>4, Zenon
    <2> QED
      BY <2>3, <2>4, Zenon
  <1> QED
    BY <1>3, <1>4, <1>5, Zenon

(* A crash takes the channels and leaves what was taken (New).             *)
LEMMA CrashInOrder ==
  ASSUME HubInv, Crash, NEW w \in Watcher
  PROVE  InOrder(w)' /\ Complete(w)' /\ Counted(w)'
PROOF
  <1>1. HubTypeOK /\ InOrder(w) /\ Counted(w) /\ taken[w] \in Seq(Nat)
    BY Zenon DEF HubInv, HubSafe, HubTypeOK
  <1>2. /\ UNCHANGED <<closed, want, taken, sent, log, from, upto>>
        /\ watchers' = {} /\ ch'[w] = << >> /\ pc'[w] \notin Active
    BY Zenon DEF Crash, Active
  <1>3. Given(w)' = taken[w]
    BY <1>1, <1>2, ConcatEmptySeq, Zenon DEF Given
  <1>4. /\ Len(taken[w]) \in Nat /\ Len(taken[w]) <= Len(Given(w))
        /\ \A i \in 1 .. Len(taken[w]) : taken[w][i] = Given(w)[i] /\ i \in 1 .. Len(Given(w))
    <2>1. /\ Len(Given(w)) = Len(taken[w]) + Len(ch[w])
          /\ Len(taken[w]) \in Nat /\ Len(ch[w]) \in Nat
          /\ \A i \in 1 .. Len(taken[w]) : Given(w)[i] = taken[w][i]
      BY <1>1, GivenFacts, Zenon
    <2>2. ASSUME NEW m \in Nat, NEW n \in Nat
          PROVE  m <= m + n /\ \A i \in 1 .. m : i \in 1 .. m + n
      OBVIOUS
    <2>3. /\ Len(taken[w]) <= Len(taken[w]) + Len(ch[w])
          /\ \A i \in 1 .. Len(taken[w]) : i \in 1 .. Len(taken[w]) + Len(ch[w])
      BY <2>1, <2>2, ZenonT(60)
    <2> QED
      BY <2>1, <2>3, Zenon
  <1>5. Gapless(taken[w], from[w], want[w], log)
    <2> DEFINE t == taken[w]
               g == Given(w)
    <2>1. \A i \in 1 .. Len(t) : t[i] = g[i] /\ i \in 1 .. Len(g) /\ \A j \in 1 .. i - 1 : t[j] = g[j]
      BY <1>4, SMTT(60)
    <2>2. Gapless(g, from[w], want[w], log)
      BY <1>1 DEF InOrder
    <2> HIDE DEF t, g
    <2>3. Gapless(t, from[w], want[w], log)
      <3> SUFFICES ASSUME NEW i \in 1 .. Len(t)
                   PROVE  /\ t[i] \in from[w] + 1 .. Len(log)
                          /\ Matches(want[w], log[t[i]])
                          /\ \A j \in 1 .. i - 1 : t[j] < t[i]
                          /\ \A k \in from[w] + 1 .. t[i] - 1 :
                               Matches(want[w], log[k]) => \E j \in 1 .. i - 1 : t[j] = k
        BY Zenon DEF Gapless
      <3>1. /\ g[i] \in from[w] + 1 .. Len(log)
            /\ Matches(want[w], log[g[i]])
            /\ \A j \in 1 .. i - 1 : g[j] < g[i]
            /\ \A k \in from[w] + 1 .. g[i] - 1 :
                 Matches(want[w], log[k]) => \E j \in 1 .. i - 1 : g[j] = k
        BY <2>1, <2>2, ZenonT(60) DEF Gapless
      <3>2. \A k : (\E j \in 1 .. i - 1 : g[j] = k) => \E j \in 1 .. i - 1 : t[j] = k
        BY <2>1
      <3> QED
        BY <2>1, <3>1, <3>2, ZenonT(60)
    <2> QED
      BY <2>3, Zenon DEF t
  <1>6. InOrder(w)'
    BY <1>2, <1>3, <1>5, Zenon DEF InOrder
  <1>7. Complete(w)' /\ Counted(w)'
    BY <1>1, <1>2, Zenon DEF Complete, Counted, Streaming, Active
  <1> QED
    BY <1>6, <1>7, Zenon

(* The inductive invariant of the hub.                                     *)
THEOREM HubInvariant == HubSpec => []HubInv
PROOF
  <1>1. HubInit => HubInv
    <2> SUFFICES ASSUME HubInit PROVE HubInv
      OBVIOUS
    <2>1. HubSafe
      BY HubInitially, ZenonT(60)
    <2>2. ASSUME NEW w \in Watcher PROVE InOrder(w) /\ Complete(w) /\ Counted(w)
      <3>1. /\ taken[w] = << >> /\ ch[w] = << >> /\ sent[w] = 0 /\ from[w] = 0 /\ upto[w] = 0
            /\ log = << >> /\ pc[w] = "idle" /\ watchers = {}
        BY Zenon DEF HubInit
      <3>2. Len(Given(w)) = 0
        BY <3>1, SMTT(60) DEF Given
      <3> QED
        BY <3>1, <3>2, SMTT(60) DEF InOrder, Gapless, Complete, Counted, Streaming
    <2> QED
      BY <2>1, <2>2 DEF HubInv
  <1>2. HubInv /\ HubSafe' /\ [HubNext]_hubVars => HubInv'
    <2> SUFFICES ASSUME HubInv, [HubNext]_hubVars, NEW w \in Watcher
                 PROVE  InOrder(w)' /\ Complete(w)' /\ Counted(w)'
      BY DEF HubInv
    <2>1. ASSUME NEW v \in Watcher, HandlerStep(v) PROVE InOrder(w)' /\ Complete(w)' /\ Counted(w)'
      BY <2>1, HandlerInOrder, Zenon
    <2>2. ASSUME NEW v \in Watcher, Cancel(v) PROVE InOrder(w)' /\ Complete(w)' /\ Counted(w)'
      BY <2>2, Zenon DEF Cancel, HubInv, InOrder, Complete, Counted, Given
    <2>3. ASSUME NEW v \in Watcher, NEW r \in Request, NEW first \in {"snap", "loop"}, Watch(v, r, first)
          PROVE  InOrder(w)' /\ Complete(w)' /\ Counted(w)'
      BY <2>3, WatchInOrder, Zenon
    <2>4. ASSUME NEW ev \in Event, broadcast(ev) PROVE InOrder(w)' /\ Complete(w)' /\ Counted(w)'
      BY <2>4, BroadcastInOrder
    <2>5. CASE Crash
      BY <2>5, CrashInOrder, Zenon
    <2>6. CASE UNCHANGED hubVars
      BY <2>6, Zenon DEF hubVars, HubInv, InOrder, Complete, Counted, Given
    <2> QED
      BY <2>1, <2>2, <2>3, <2>4, <2>5, <2>6, ZenonT(60) DEF HubNext
  <1> QED
    BY <1>1, <1>2, HubIsSafe, PTL DEF HubSpec

(* What a client has been sent is the events broadcast since it registered *)
(* that its request matches, in order and without a gap or a duplicate,    *)
(* whatever broadcast, the Watch loops, drops and crashes do.              *)
THEOREM HubInOrderNoGaps == HubSpec => []InOrderNoGaps
PROOF
  <1>1. HubInv => InOrderNoGaps
    <2> SUFFICES ASSUME HubInv, NEW w \in Watcher, NEW i \in 1 .. sent[w]
                 PROVE  /\ taken[w][i] \in from[w] + 1 .. Len(log)
                        /\ Matches(want[w], log[taken[w][i]])
                        /\ \A j \in 1 .. i - 1 : taken[w][j] < taken[w][i]
                        /\ \A k \in from[w] + 1 .. taken[w][i] - 1 :
                             Matches(want[w], log[k]) => \E j \in 1 .. i - 1 : taken[w][j] = k
      BY Zenon DEF InOrderNoGaps
    <2> DEFINE t == taken[w]
               g == Given(w)
    <2>1. Gapless(g, from[w], want[w], log) /\ sent[w] <= Len(t) /\ sent[w] \in Nat
      BY Zenon DEF HubInv, InOrder, Counted, HubSafe, HubTypeOK
    <2>2. /\ Len(g) = Len(t) + Len(ch[w]) /\ Len(t) \in Nat /\ Len(ch[w]) \in Nat
          /\ \A j \in 1 .. Len(t) : g[j] = t[j]
      BY GivenFacts, ZenonT(60) DEF HubInv, HubSafe
    <2> HIDE DEF t, g
    <2>3. i \in 1 .. Len(t) /\ i \in 1 .. Len(g) /\ \A j \in 1 .. i - 1 : j \in 1 .. Len(t)
      BY <2>1, <2>2, SMTT(60)
    <2>4. t[i] = g[i] /\ \A j \in 1 .. i - 1 : t[j] = g[j]
      BY <2>2, <2>3, Zenon
    <2>5. /\ g[i] \in from[w] + 1 .. Len(log)
          /\ Matches(want[w], log[g[i]])
          /\ \A j \in 1 .. i - 1 : g[j] < g[i]
          /\ \A k \in from[w] + 1 .. g[i] - 1 :
               Matches(want[w], log[k]) => \E j \in 1 .. i - 1 : g[j] = k
      BY <2>1, <2>3, Zenon DEF Gapless
    <2>6. \A k : (\E j \in 1 .. i - 1 : g[j] = k) => \E j \in 1 .. i - 1 : t[j] = k
      BY <2>4
    <2> QED
      BY <2>4, <2>5, <2>6, Zenon DEF t
  <1> QED
    BY <1>1, HubInvariant, PTL

(* "Unbuffered drops are not silent": an event a client asked for is with  *)
(* the client, its handler or its channel, or the channel is closed behind *)
(* the last event it was given (broadcast's default branch).               *)
THEOREM HubNothingForgotten == HubSpec => []NothingForgotten
PROOF
  <1>1. HubInv => NothingForgotten
    <2> SUFFICES ASSUME HubInv, NEW w \in Watcher, pc[w] \in Streaming,
                        NEW k \in from[w] + 1 .. Len(log), Matches(want[w], log[k])
                 PROVE  \/ \E i \in 1 .. Len(taken[w]) : taken[w][i] = k
                        \/ \E i \in 1 .. Len(ch[w]) : ch[w][i] = k
                        \/ w \notin watchers /\ closed[w] /\ k > upto[w]
      BY Zenon DEF NothingForgotten, Streaming
    <2>1. /\ Complete(w) /\ upto[w] \in Nat /\ from[w] \in Nat /\ Len(log) \in Nat
          /\ taken[w] \in Seq(Nat) /\ ch[w] \in Seq(Nat)
      BY LenProperties, Zenon DEF HubInv, HubSafe, HubTypeOK
    <2>2. ASSUME NEW j \in 1 .. Len(Given(w)), Given(w)[j] = k
          PROVE  \/ \E i \in 1 .. Len(taken[w]) : taken[w][i] = k
                 \/ \E i \in 1 .. Len(ch[w]) : ch[w][i] = k
      <3>1. /\ Len(Given(w)) = Len(taken[w]) + Len(ch[w])
            /\ Given(w)[j] = IF j <= Len(taken[w]) THEN taken[w][j] ELSE ch[w][j - Len(taken[w])]
        BY <2>1, ConcatProperties, SMTT(60) DEF Given
      <3>2. ASSUME NEW m \in Nat, NEW n \in Nat, NEW i \in 1 .. m + n
            PROVE  IF i <= m THEN i \in 1 .. m ELSE i - m \in 1 .. n
        BY SMTT(60)
      <3>3. Len(taken[w]) \in Nat /\ Len(ch[w]) \in Nat
        BY <2>1, LenProperties, Zenon
      <3>4. IF j <= Len(taken[w]) THEN j \in 1 .. Len(taken[w]) ELSE j - Len(taken[w]) \in 1 .. Len(ch[w])
        BY <3>1, <3>2, <3>3, ZenonT(60)
      <3> QED
        BY <2>2, <3>1, <3>4, ZenonT(60)
    <2>3. CASE w \in watchers
      BY <2>1, <2>2, <2>3, Zenon DEF Complete, Covers
    <2>4. CASE w \notin watchers
      <3>1. closed[w] /\ Covers(Given(w), from[w], want[w], log, upto[w])
        BY <2>1, <2>4, Zenon DEF Complete
      <3>2. k > upto[w] \/ k \in from[w] + 1 .. upto[w]
        BY <2>1
      <3> QED
        BY <2>2, <2>4, <3>1, <3>2, Zenon DEF Covers
    <2> QED
      BY <2>3, <2>4
  <1> QED
    BY <1>1, HubInvariant, PTL
=============================================================================
