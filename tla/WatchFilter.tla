----------------------------- MODULE WatchFilter -----------------------------
(***************************************************************************)
(* Which events a Watch stream asked for.  pkg/registry and pkg/policy     *)
(* keep the same two fields per watcher, a tenant (the empty string means  *)
(* every tenant) and, in pkg/registry only, a set of names (empty means    *)
(* every name); broadcast skips the watchers the event is not for.         *)
(***************************************************************************)
CONSTANTS
  Tenant,     \* tenants
  AnyTenant,  \* the empty tenant string of a WatchRequest
  Name        \* what an event is about: a service name, a policy id

ASSUME FilterAssumption == AnyTenant \notin Tenant

(* WatchRequest.tenant and nameSet(WatchRequest.service_names).            *)
Request == [tenant : Tenant \cup {AnyTenant}, names : SUBSET Name]

(* The skip conditions at the head of broadcast's loop, negated.           *)
Matches(r, ev) ==
  /\ r.tenant = AnyTenant \/ r.tenant = ev.tenant
  /\ r.names = {} \/ ev.name \in r.names
=============================================================================
