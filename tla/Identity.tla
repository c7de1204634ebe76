------------------------------ MODULE Identity ------------------------------
(***************************************************************************)
(* lib/identity/name.go.  A URI is what url.Parse makes of its text: the   *)
(* path in segments, a user and a query that may be there or not.  A uuid  *)
(* has several texts that uuid.Parse accepts and one that String writes.   *)
(***************************************************************************)
EXTENDS Sequences

CONSTANTS
  Label,  \* the strings of tenantPattern and relayIDPattern
  Uuid

Canonical(id) == [uuid |-> id, form |-> "canonical"]
Braced(id) == [uuid |-> id, form |-> "braced"]

UuidText == {Canonical(id) : id \in Uuid} \cup {Braced(id) : id \in Uuid}

Bare == [scheme |-> "", user |-> "", host |-> "", path |-> << >>, query |-> ""]

Uri(host, path) == [Bare EXCEPT !.scheme = "outrelay", !.host = host, !.path = path]

IsValidTenant(s) == s \in Label
IsValidRelayID(s) == s \in Label

Unknown == [role |-> "unknown"]

NewAgent(tenant, id) ==
  IF IsValidTenant(tenant) THEN [role |-> "agent", tenant |-> tenant, agentID |-> id] ELSE Unknown

NewRelay(region, id) ==
  IF IsValidTenant(region) /\ IsValidRelayID(id)
  THEN [role |-> "relay", tenant |-> region, relayID |-> id] ELSE Unknown

String(n) ==
  CASE n.role = "agent" -> Uri(n.tenant, <<"agent", Canonical(n.agentID)>>)
    [] n.role = "relay" -> Uri(n.tenant, <<"relay", n.relayID>>)
    [] OTHER -> Bare

(* The user and the query of the URI are not looked at.                    *)
parseURL(u) ==
  IF u.scheme # "outrelay" \/ ~IsValidTenant(u.host) \/ Len(u.path) # 2 THEN Unknown
  ELSE IF u.path[1] = "agent" /\ u.path[2] \in UuidText
       THEN [role |-> "agent", tenant |-> u.host, agentID |-> u.path[2].uuid]
  ELSE IF u.path[1] = "relay" /\ IsValidRelayID(u.path[2])
       THEN [role |-> "relay", tenant |-> u.host, relayID |-> u.path[2]]
  ELSE Unknown
=============================================================================
