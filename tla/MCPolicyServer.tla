--------------------------- MODULE MCPolicyServer ---------------------------
(* PolicyServer for TLC: rules that differ in what a relay must tell apart.*)
EXTENDS PolicyServer, TLC

CONSTANTS t1, t2, r1

MCTenant == {t1, t2}

MCRule(id, t, d, p, m, ok) ==
  [id |-> id, tenant |-> t, decision |-> d, p2p |-> p, relay |-> m, patterns |-> ok]

(* A rule of each tenant under one id, the id made up or given, and the    *)
(* requests AddPolicy refuses.                                             *)
MCAddRequest ==
  {MCRule(r1, t1, "DENY", "FORBIDDEN", "SPLICE", TRUE),
   MCRule(NoId, t1, "ALLOW", "ALLOWED", "FORWARD", TRUE),
   MCRule(r1, t2, "ALLOW", "REQUIRED", "SPLICE", TRUE),
   MCRule(r1, t1, "UNSPECIFIED", "ALLOWED", "SPLICE", TRUE),
   MCRule(r1, t1, "DENY", "ALLOWED", "SPLICE", FALSE),
   MCRule(r1, AnyTenant, "DENY", "ALLOWED", "SPLICE", TRUE)}

MCSymmetry == Permutations(Rpc)

FairSpec == Spec /\ Fairness
=============================================================================
