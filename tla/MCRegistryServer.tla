-------------------------- MODULE MCRegistryServer --------------------------
(* RegistryServer for TLC: two services of one agent move between two      *)
(* relays under three RPCs, so that one DeregisterAgent removes several    *)
(* rows; the stream asks for one of the two names.                         *)
EXTENDS RegistryServer, TLC

CONSTANTS t1, s1, s2

MCWatchRequest == {[tenant |-> t1, names |-> {s2}]}

(* No other step reads or writes relays: an UpsertRelay may as well come   *)
(* after the RPCs.  No RPC looks at pc, so nothing new happens to the      *)
(* tables once every stream is at its end.                                 *)
MCNext ==
  /\ Next
  /\ relays' # relays => \A p \in Rpc : call[p] = Finished
  /\ \E w \in Watcher : pc[w] \notin {"leave", "done"}

MCSpec == Init /\ [][MCNext]_vars

MCSymmetry == Permutations(Rpc) \cup Permutations(Relay)
=============================================================================
