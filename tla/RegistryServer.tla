--------------------------- MODULE RegistryServer ---------------------------
(***************************************************************************)
(* pkg/registry and the service tables of pkg/registry/store: the RPCs     *)
(* that bind a service name to an agent and a relay, and the Watch streams *)
(* that report the changes.                                                *)
(*                                                                         *)
(* One SQL statement is one step (the store has one connection); the       *)
(* statements and the broadcasts of one RPC interleave with those of the   *)
(* others.  A call is one RPC; it ends after its last step.                *)
(***************************************************************************)
EXTENDS WatchHub

CONSTANTS
  Rpc,     \* the RegisterService and DeregisterAgent calls made
  Agent,   \* agent URIs
  Relay,   \* relay ids
  Region,  \* regions and endpoints a relay may advertise
  WatchRequest, \* the requests Watch is called with
  Missing, \* an empty required field
  NoRow    \* no row

VARIABLES
  services,  \* the services table by its unique (tenant, name)
  agents,    \* agents[u]: tenant of the agents row of uri u
  relays,    \* relays[r]: the relay_instances row of relay r
  call,      \* call[p]: where RPC p is
  base,      \* base[w]: services when w was registered (history)
  commits,   \* how many statements changed services (history)
  stamp,     \* stamp[k]: the statement log[k] reports (history)
  torn       \* keys on which a SELECT and its DELETE disagreed (history)

rvars == <<services, agents, relays, call, base, commits, stamp, torn>>
vars == <<hubVars, rvars>>

Key == Tenant \X Name
Row == [agent : Agent, relay : Relay]
RegistryEvent == [kind : {"REGISTER", "DEREGISTER"}, tenant : Tenant, name : Name, row : Row]

ASSUME RegistryAssumption ==
  /\ RegistryEvent \subseteq Event
  /\ WatchRequest \subseteq Request
  /\ Missing \notin Tenant \cup Name \cup Agent \cup Relay

Idle == [st |-> "idle"]
Finished == [st |-> "done"]
NoServices == [k \in Key |-> NoRow]

Init ==
  /\ HubInit
  /\ services = NoServices
  /\ agents = [u \in Agent |-> NoRow]
  /\ relays = [r \in Relay |-> NoRow]
  /\ call = [p \in Rpc |-> Idle]
  /\ base = [w \in Watcher |-> NoServices]
  /\ commits = 0
  /\ stamp = << >>
  /\ torn = {}

-----------------------------------------------------------------------------
(* store.UpsertAgent: INSERT ... ON CONFLICT(uri) DO UPDATE.               *)
UpsertAgent(t, u) == agents' = [agents EXCEPT ![u] = t]

(* RegisterService without UpsertAgent.                                    *)
AgentlessRegister(p, t, n, u, r) ==
  /\ call[p] = Idle
  /\ Missing \notin {t, n, u, r}
  /\ call' = [call EXCEPT ![p] = [st |-> "upsert", key |-> <<t, n>>, row |-> [agent |-> u, relay |-> r]]]
  /\ UNCHANGED <<hubVars, services, agents, relays, base, commits, stamp, torn>>

(* RegisterService: the field check and store.UpsertAgent.                 *)
RegisterService(p, t, n, u, r) ==
  /\ call[p] = Idle
  /\ IF Missing \in {t, n, u, r}
     THEN /\ call' = [call EXCEPT ![p] = Finished]
          /\ UNCHANGED agents
     ELSE /\ UpsertAgent(t, u)
          /\ call' = [call EXCEPT ![p] = [st |-> "upsert", key |-> <<t, n>>, row |-> [agent |-> u, relay |-> r]]]
  /\ UNCHANGED <<hubVars, services, relays, base, commits, stamp, torn>>

Ev(kind, key, row) == [kind |-> kind, tenant |-> key[1], name |-> key[2], row |-> row]

(* store.RegisterService: INSERT ... ON CONFLICT(tenant, name) DO UPDATE.  *)
UpsertService(p) ==
  /\ call[p].st = "upsert"
  /\ services' = [services EXCEPT ![call[p].key] = call[p].row]
  /\ commits' = commits + 1
  /\ call' = [call EXCEPT ![p] = [st |-> "publish", evs |-> {Ev("REGISTER", call[p].key, call[p].row)},
                                  cn |-> commits + 1]]
  /\ UNCHANGED <<hubVars, agents, relays, base, stamp, torn>>

(* A WHERE without the relay_id.                                           *)
HeldAnywhere(t, u, r) == {k \in Key : k[1] = t /\ services[k] # NoRow /\ services[k].agent = u}

(* WHERE tenant = ? AND agent_uri = ? AND relay_id = ?                     *)
Held(t, u, r) == {k \in Key : k[1] = t /\ services[k] = [agent |-> u, relay |-> r]}

(* store.DeregisterAgent, the SELECT.                                      *)
DeregisterAgent(p, t, u, r) ==
  /\ call[p] = Idle
  /\ call' = [call EXCEPT ![p] = [st |-> "delete", tenant |-> t, row |-> [agent |-> u, relay |-> r],
                                  removed |-> Held(t, u, r)]]
  /\ UNCHANGED <<hubVars, services, agents, relays, base, commits, stamp, torn>>

(* store.DeregisterAgent, the DELETE; what it returns is what the SELECT   *)
(* found.                                                                  *)
DeleteServices(p) ==
  LET c == call[p]
      gone == Held(c.tenant, c.row.agent, c.row.relay)
  IN /\ c.st = "delete"
     /\ services' = [k \in Key |-> IF k \in gone THEN NoRow ELSE services[k]]
     /\ commits' = commits + 1
     /\ torn' = torn \cup ((gone \ c.removed) \cup (c.removed \ gone))
     /\ call' = [call EXCEPT ![p] = [st |-> "publish", evs |-> {Ev("DEREGISTER", k, c.row) : k \in c.removed},
                                     cn |-> commits + 1]]
     /\ UNCHANGED <<hubVars, agents, relays, base, stamp>>

(* A DeregisterAgent that reports one of the rows it removed.              *)
PublishOne(p) ==
  /\ call[p].st = "publish"
  /\ \E ev \in call[p].evs :
       /\ broadcast(ev)
       /\ stamp' = Append(stamp, call[p].cn)
  /\ call' = [call EXCEPT ![p].evs = {}]
  /\ UNCHANGED <<services, agents, relays, base, commits, torn>>

(* One broadcast of RegisterService, or of DeregisterAgent's loop over     *)
(* what was removed.                                                       *)
Publish(p) ==
  /\ call[p].st = "publish"
  /\ \E ev \in call[p].evs :
       /\ broadcast(ev)
       /\ stamp' = Append(stamp, call[p].cn)
       /\ call' = [call EXCEPT ![p].evs = @ \ {ev}]
  /\ UNCHANGED <<services, agents, relays, base, commits, torn>>

(* The RPC has nothing left to broadcast and returns.                      *)
Reply(p) ==
  /\ call[p].st = "publish"
  /\ call[p].evs = {}
  /\ call' = [call EXCEPT ![p] = Finished]
  /\ UNCHANGED <<hubVars, services, agents, relays, base, commits, stamp, torn>>

(* A statement of the RPC fails: the handler returns the error, and keeps  *)
(* what the statements before it did.                                      *)
StoreError(p) ==
  /\ call[p].st \in {"idle", "upsert", "delete"}
  /\ call' = [call EXCEPT ![p] = Finished]
  /\ UNCHANGED <<hubVars, services, agents, relays, base, commits, stamp, torn>>

(* store.UpsertRelay: INSERT ... ON CONFLICT(id) DO UPDATE.                *)
UpsertRelayRow(r, g) == relays' = [relays EXCEPT ![r] = g]

(* UpsertRelay: a relay announces itself, or its heartbeat moves it.       *)
UpsertRelay(r, g) ==
  /\ relays[r] # g
  /\ UpsertRelayRow(r, g)
  /\ UNCHANGED <<hubVars, services, agents, call, base, commits, stamp, torn>>

(* store.ResolveService: the row LEFT JOINed with the endpoint its relay   *)
(* advertised (NoRow when it has not).  (tenant, name) is unique, so the   *)
(* region preference of the ORDER BY has one row to choose from.           *)
ResolveService(t, n) ==
  {[row |-> s, endpoint |-> relays[s.relay]] : s \in {services[<<t, n>>]} \ {NoRow}}

(* Resolve: no provider is an empty answer, not an error.                  *)
Resolve(t, n) == {[agent |-> s.row.agent, relay |-> s.row.relay, endpoint |-> s.endpoint] : s \in ResolveService(t, n)}

(* Watch: register, then the loop.                                         *)
WatchServices(w, r) ==
  /\ Watch(w, r, "loop")
  /\ base' = [base EXCEPT ![w] = services]
  /\ UNCHANGED <<services, agents, relays, call, commits, stamp, torn>>

WatchStep(w) == (HandlerStep(w) \/ Cancel(w)) /\ UNCHANGED rvars

(* The process dies; the tables are on disk.                               *)
Restart ==
  /\ Crash
  /\ call' = [p \in Rpc |-> IF call[p] = Idle THEN Idle ELSE Finished]
  /\ UNCHANGED <<services, agents, relays, base, commits, stamp, torn>>

Next ==
  \/ \E p \in Rpc, t \in Tenant \cup {Missing}, n \in Name, u \in Agent, r \in Relay :
       RegisterService(p, t, n, u, r)
  \/ \E p \in Rpc, t \in Tenant, u \in Agent, r \in Relay : DeregisterAgent(p, t, u, r)
  \/ \E p \in Rpc : UpsertService(p) \/ DeleteServices(p) \/ Publish(p) \/ Reply(p) \/ StoreError(p)
  \/ \E r \in Relay, g \in Region : UpsertRelay(r, g)
  \/ \E w \in Watcher, r \in WatchRequest : WatchServices(w, r)
  \/ \E w \in Watcher : WatchStep(w)
  \/ Restart

Spec == Init /\ [][Next]_vars

-----------------------------------------------------------------------------
(* A service that resolves belongs to an agent the store knows, whatever   *)
(* was interrupted by a restart or an error (UpsertAgent precedes the      *)
(* binding in RegisterService).                                            *)
AgentKnown == \A k \in Key : \A s \in Resolve(k[1], k[2]) : agents[s.agent] # NoRow

(* The late DeregisterAgent of a relay an agent has left never unbinds the *)
(* service the agent has bound at another relay since: a binding is only   *)
(* removed by a call for its own agent and relay, and only replaced by a   *)
(* RegisterService for its name (store.DeregisterAgent's relay_id clause). *)
MigrationKept ==
  [][\A k \in Key : services'[k] # services[k] =>
       \E p \in Rpc :
         \/ call[p].st = "upsert" /\ call[p].key = k /\ services'[k] = call[p].row
         \/ call[p].st = "delete" /\ call[p].tenant = k[1] /\ call[p].row = services[k] /\ services'[k] = NoRow]_vars

(* What the client of w makes of its stream (external): the table it       *)
(* started from, overwritten by the events in the order they arrive.       *)
Known(w, k) ==
  LET about == {i \in 1 .. sent[w] : <<log[taken[w][i]].tenant, log[taken[w][i]].name>> = k}
      last == log[taken[w][CHOOSE i \in about : \A j \in about : j <= i]]
  IN IF about = {} THEN base[w][k]
     ELSE IF last.kind = "REGISTER" THEN last.row ELSE NoRow

Settled(w) ==
  /\ w \in watchers
  /\ pc[w] = "loop"
  /\ ch[w] = << >>
  /\ \A p \in Rpc : call[p].st # "publish"

(* Two statements on k were broadcast in the other order than executed.    *)
Inverted(k) ==
  \E i, j \in 1 .. Len(log) :
    /\ i < j
    /\ stamp[i] > stamp[j]
    /\ <<log[i].tenant, log[i].name>> = k
    /\ <<log[j].tenant, log[j].name>> = k

Asked(w, k) == Matches(want[w], [tenant |-> k[1], name |-> k[2]])

(* The events of a Watch stream account for every change of the table      *)
(* since the stream was registered, restarts included, except for a name   *)
(* on which the broadcasts of two RPCs overtook each other or a SELECT and *)
(* its DELETE saw different rows: those are the only ways a client that    *)
(* follows the stream goes stale.                                          *)
ExactUnlessRaced ==
  \A w \in Watcher, k \in Key :
    (Settled(w) /\ Asked(w, k) /\ k \notin torn /\ ~Inverted(k)) => Known(w, k) = services[k]

(* "Returns the names of services that were removed": DeregisterAgent      *)
(* reports exactly the rows its DELETE removed.                            *)
RemovedIsReported == torn = {}
=============================================================================
