---------------------------- MODULE PolicyCodec ----------------------------
(***************************************************************************)
(* How a policy is written down: the enums of the protobuf rule, and the   *)
(* strings of the policies table (pkg/policy).                             *)
(***************************************************************************)

decisionString(d) == IF d = "DENY" THEN "deny" ELSE "allow"
decisionPB(s) == IF s = "deny" THEN "DENY" ELSE "ALLOW"

p2pModeString(m) ==
  CASE m = "FORBIDDEN" -> "forbidden" [] m = "REQUIRED" -> "required" [] OTHER -> "allowed"

(* A mode added to the enum and forgotten here.                            *)
TwoModesPB(s) == IF s = "forbidden" THEN "FORBIDDEN" ELSE "ALLOWED"

p2pModePB(s) ==
  CASE s = "forbidden" -> "FORBIDDEN" [] s = "required" -> "REQUIRED" [] OTHER -> "ALLOWED"

relayModeString(m) == IF m = "FORWARD" THEN "forward" ELSE "splice"
relayModePB(s) == IF s = "forward" THEN "FORWARD" ELSE "SPLICE"

(* The store.Policy AddPolicy builds from the rule of the request.         *)
rowOf(r) == [tenant |-> r.tenant, decision |-> decisionString(r.decision),
             p2p |-> p2pModeString(r.p2p), relay |-> relayModeString(r.relay)]

toPB(row) == [tenant |-> row.tenant, decision |-> decisionPB(row.decision),
              p2p |-> p2pModePB(row.p2p), relay |-> relayModePB(row.relay)]
=============================================================================
