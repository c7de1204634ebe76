-------------------------------- MODULE Cli --------------------------------
(***************************************************************************)
(* cmd/outrelay-cli: what a command line becomes, either exit code 2 or a  *)
(* request, and how an answer is shown.  A flag is one of the spellings a  *)
(* user may type; "" is a flag that was not given.                         *)
(***************************************************************************)
EXTENDS Integers

CONSTANTS
  Int32Max,  \* math.MaxInt32
  Now        \* the clock while commands run

ASSUME CliAssumption == Int32Max \in Nat /\ Now \in Nat

(* strings.ToLower(strings.TrimSpace(s)), on the spellings in use.         *)
Plain(s) ==
  CASE s = " Required " -> "required" [] s = "FORWARD" -> "forward" [] s = "Deny" -> "deny" [] OTHER -> s

(* strings.EqualFold(s, "deny"): the case is ignored, blanks are not.      *)
IsDeny(s) == s \in {"deny", "Deny", "DENY"}

Bad == "invalid"

parseP2PMode(s) ==
  CASE Plain(s) \in {"", "allowed", "allow", "p2p_allowed"} -> "ALLOWED"
    [] Plain(s) \in {"forbidden", "forbid", "deny", "p2p_forbidden"} -> "FORBIDDEN"
    [] Plain(s) \in {"required", "require", "p2p_required"} -> "REQUIRED"
    [] OTHER -> Bad

parseRelayMode(s) ==
  CASE Plain(s) \in {"", "splice", "relay_mode_splice"} -> "SPLICE"
    [] Plain(s) \in {"forward", "relay_mode_forward"} -> "FORWARD"
    [] OTHER -> Bad

-----------------------------------------------------------------------------
(* Which command lines exit with code 2 before anything is dialled.        *)
policyAddUsage(f) ==
  \/ f.tenant = "" \/ f.caller = "" \/ f.target = "" \/ f.decision = ""
  \/ parseP2PMode(f.p2p) = Bad \/ parseRelayMode(f.relay) = Bad

Usage(f) ==
  \/ f.cmd = "add" /\ policyAddUsage(f)
  \/ f.cmd = "list" /\ f.tenant = ""
  \/ f.cmd = "remove" /\ (f.tenant = "" \/ f.id = "")
  \/ f.cmd = "query" /\ f.tenant = ""
  \/ f.cmd \notin {"add", "list", "remove", "query"}

policyAdd(f) ==
  [m |-> "AddPolicy", tenant |-> f.tenant, caller |-> f.caller, target |-> f.target,
   decision |-> IF IsDeny(f.decision) THEN "DENY" ELSE "ALLOW",
   p2p |-> parseP2PMode(f.p2p), relay |-> parseRelayMode(f.relay),
   expires |-> IF f.expires > 0 THEN Now + f.expires ELSE 0]

policyList(f) == [m |-> "ListPolicies", tenant |-> f.tenant]

policyRemove(f) == [m |-> "RemovePolicy", tenant |-> f.tenant, id |-> f.id]

(* int32(v)                                                                *)
Int32(v) == ((v + Int32Max + 1) % (2 * (Int32Max + 1))) - (Int32Max + 1)


auditQuery(f) ==
  [m |-> "Query", tenant |-> f.tenant, caller |-> f.caller, target |-> f.target,
   since |-> IF f.since > 0 THEN Now - f.since ELSE 0,
   limit |-> Int32(IF f.limit < Int32Max THEN f.limit ELSE Int32Max)]

RequestOf(f) ==
  CASE f.cmd = "add" -> policyAdd(f)
    [] f.cmd = "list" -> policyList(f)
    [] f.cmd = "remove" -> policyRemove(f)
    [] f.cmd = "query" -> auditQuery(f)

-----------------------------------------------------------------------------
cliP2PModeString(m) ==
  CASE m = "FORBIDDEN" -> "forbidden" [] m = "REQUIRED" -> "required" [] OTHER -> "allowed"

cliRelayModeString(m) == IF m = "FORWARD" THEN "forward" ELSE "splice"

(* A line of policy list.                                                  *)
RuleLine(r) ==
  [id |-> r.id, caller |-> r.caller, target |-> r.target,
   decision |-> IF r.decision = "DENY" THEN "deny" ELSE "allow",
   p2p |-> cliP2PModeString(r.p2p), relay |-> cliRelayModeString(r.relay),
   expires |-> IF r.expires > 0 THEN r.expires ELSE 0]

(* A line of audit query.                                                  *)
EventLine(ev) ==
  [ts |-> ev.ts, decision |-> IF ev.decision = "DENY" THEN "deny" ELSE "allow",
   caller |-> ev.caller, target |-> ev.target, reason |-> ev.reason]
=============================================================================
