---------------------------- MODULE MCController ----------------------------
(* Controller for TLC.                                                     *)
EXTENDS Controller

CONSTANTS o1, o2, r0, r1, w1, MaxCalls

MCOperator == {o1, o2}

(* A rule as policy list should show it.                                   *)
MCWant(d, p, m, e) ==
  [caller |-> "a", target |-> "s", decision |-> d, p2p |-> p, relay |-> m, expires |-> e]

MCAdd(d, p, m, e, want) ==
  [cmd |-> "add", tenant |-> "t", caller |-> "a", target |-> "s", decision |-> d,
   p2p |-> p, relay |-> m, expires |-> e, want |-> want]

MCQuery(caller, since, limit) ==
  [cmd |-> "query", tenant |-> "t", caller |-> caller, target |-> "", since |-> since, limit |-> limit]

MCAdds ==
  {MCAdd("Deny", " Required ", "FORWARD", 2, MCWant("deny", "required", "forward", Now + 2)),
   MCAdd("allow", "deny", "", 0, MCWant("allow", "forbidden", "splice", 0)),
   MCAdd("allow", "", "both", 0, MCWant("allow", "allowed", "splice", 0))}

MCRemove == [cmd |-> "remove", tenant |-> "t", id |-> "p1"]

MCReads ==
  {[cmd |-> "list", tenant |-> "t"], [cmd |-> "list", tenant |-> ""], [cmd |-> "lst"],
   MCQuery("", 0, 1), MCQuery("a", 2, 2 * Int32Max + 3), MCQuery("", 0, -1)}

MCCommand == MCAdds \cup MCReads \cup {MCRemove}

(* One operator writes, the other reads or removes.                        *)
MCOffered(c) == IF c = o1 THEN MCAdds \cup {MCRemove} ELSE MCReads \cup {MCRemove}

MCEvent(ts, caller, d, reason) ==
  [ts |-> ts, tenant |-> "t", caller |-> caller, target |-> "s", decision |-> d, reason |-> reason]

MCEvents == {MCEvent(0, "a", "ALLOW", "x"), MCEvent(1, "a", "DENY", "y")}

MCOldPolicies ==
  [id \in Id |-> IF id # "p1" THEN NoPolicy ELSE
     [row |-> [tenant |-> "t", decision |-> "deny", p2p |-> "forbidden", relay |-> "splice"],
      caller |-> "a", target |-> "s", expires |-> 0]]

MCOldAudit ==
  {[ts |-> t, tenant |-> "t", caller |-> "a", target |-> "s", decision |-> "deny", reason |-> "z",
    by |-> <<r0, t>>] : t \in {1, 2}}

(* Calls are made while there is a server, at most MaxCalls of them.       *)
MCMayCall ==
  /\ proc \in {"listening", "serving", "draining"}
  /\ Cardinality({c \in Client : cl[c].st # "new"}) < MaxCalls

MCNext ==
  \/ Process
  \/ MCMayCall /\ \E c \in Operator : \E f \in MCOffered(c) : RunCli(c, f)
  \/ MCMayCall /\ \E c \in Relay : RelayCalls(c)
  \/ MCMayCall /\ \E c \in Watcher : WatcherCalls(c)
  \/ \E c \in Client : Handler(c) \/ ClientStep(c)

MCSpec == Init /\ [][MCNext]_vars /\ Fairness
=============================================================================
