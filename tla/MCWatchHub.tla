----------------------------- MODULE MCWatchHub -----------------------------
(* WatchHub for TLC: a bounded number of broadcasts and of restarts, and   *)
(* the requests and events that tell the filter's cases apart.             *)
EXTENDS WatchHub

CONSTANTS t1, t2, a, b, MaxLog

MCTenant == {t1, t2}
MCName == {a, b}
MCEvent == {[tenant |-> t1, name |-> a], [tenant |-> t2, name |-> b]}

(* A registry stream of any tenant for one name, and a policy stream of    *)
(* one tenant, which has no names and starts with a snapshot.              *)
MCStart ==
  {<<[tenant |-> AnyTenant, names |-> {b}], "loop">>,
   <<[tenant |-> t1, names |-> {}], "snap">>}

MCNext ==
  \/ \E w \in Watcher : HandlerStep(w)
  \/ \E w \in Watcher : Cancel(w)
  \/ \E w \in Watcher, s \in MCStart : Watch(w, s[1], s[2])
  \/ \E ev \in Event : Len(log) < MaxLog /\ broadcast(ev)
  \/ (\E w \in Watcher : pc[w] \in Active) /\ Crash

MCSpec == HubInit /\ [][MCNext]_hubVars

MCFairSpec == MCSpec /\ HubFairness
=============================================================================
