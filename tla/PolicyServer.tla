---------------------------- MODULE PolicyServer ----------------------------
(***************************************************************************)
(* pkg/policy: the policies table of the store, the RPCs that change it,   *)
(* and the Watch streams through which relays keep a copy of it.           *)
(*                                                                         *)
(* Each SQL statement is atomic (the store has one connection), but a      *)
(* handler's statement and its broadcast are two steps: no lock spans      *)
(* them.  Watch lists the table, then registers, then sends: three steps.  *)
(* A call is one RPC; it ends after its last step.                         *)
(***************************************************************************)
EXTENDS WatchHub, PolicyCodec

CONSTANTS
  Rpc,        \* the AddPolicy and RemovePolicy calls made
  AddRequest, \* the PolicyRule messages offered to AddPolicy
  NoId,       \* the empty id: AddPolicy makes up a uuid
  NoRow       \* no row, no rule

VARIABLES
  policies,  \* the policies table, by its primary key
  call,      \* call[p]: where RPC p is, and the event it has to broadcast
  snap,      \* snap[w]: what Watch call w read from the table
  commits,   \* how many statements changed the table (history)
  stamp      \* stamp[k]: the statement log[k] reports (history)

pvars == <<policies, call, snap, commits, stamp>>
vars == <<hubVars, pvars>>

Row == [tenant : Tenant, decision : {"allow", "deny"},
        p2p : {"allowed", "forbidden", "required"}, relay : {"splice", "forward"}]
Rule == [tenant : Tenant, decision : {"ALLOW", "DENY"},
         p2p : {"ALLOWED", "FORBIDDEN", "REQUIRED"}, relay : {"SPLICE", "FORWARD"}]
PolicyEvent == [kind : {"ADDED"}, tenant : Tenant, name : Name, rule : Rule]
               \cup [kind : {"REMOVED"}, tenant : Tenant, name : Name, rule : {NoRow}]

ASSUME PolicyAssumption == PolicyEvent \subseteq Event /\ NoId \notin Name

-----------------------------------------------------------------------------
(* The rule the live ADDED event carries: the request's own.               *)
ruleOf(r) == [tenant |-> r.tenant, decision |-> r.decision, p2p |-> r.p2p, relay |-> r.relay]

-----------------------------------------------------------------------------
Idle == [st |-> "idle"]
Finished == [st |-> "done"]
Publishing(ev, n) == [st |-> "publish", ev |-> ev, cn |-> n]
Unread == [st |-> "none"]

Init ==
  /\ HubInit
  /\ policies = [id \in Name |-> NoRow]
  /\ call = [p \in Rpc |-> Idle]
  /\ snap = [w \in Watcher |-> Unread]
  /\ commits = 0
  /\ stamp = << >>

(* A statement that changes the table; the handler still has to broadcast. *)
Commit(p, id, row, ev) ==
  /\ policies' = [policies EXCEPT ![id] = row]
  /\ commits' = commits + 1
  /\ call' = [call EXCEPT ![p] = Publishing(ev, commits + 1)]
  /\ UNCHANGED <<hubVars, snap, stamp>>

(* An RPC that returns without having changed anything.                    *)
Refuse(p) == call' = [call EXCEPT ![p] = Finished] /\ UNCHANGED <<hubVars, policies, snap, commits, stamp>>

(* tenant, caller_pattern and target_pattern are set, and a decision.      *)
Acceptable(r) == r.tenant # AnyTenant /\ r.patterns /\ r.decision # "UNSPECIFIED"

(* An id no rule has had: what uuid.New() is relied on to return.          *)
Fresh(id) ==
  /\ policies[id] = NoRow
  /\ \A k \in 1 .. Len(log) : log[k].name # id
  /\ \A p \in Rpc : call[p].st = "publish" => call[p].ev.name # id

(* The INSERT fails when the id is taken, by whichever tenant, or because  *)
(* of the database.                                                        *)
AddPolicy(p, r) ==
  /\ call[p] = Idle
  /\ \/ ~Acceptable(r) /\ Refuse(p)
     \/ /\ Acceptable(r)
        /\ \E id \in Name :
             /\ IF r.id = NoId THEN Fresh(id) ELSE id = r.id
             /\ \/ Refuse(p)
                \/ /\ policies[id] = NoRow
                   /\ Commit(p, id, rowOf(r),
                             [kind |-> "ADDED", tenant |-> r.tenant, name |-> id, rule |-> ruleOf(r)])

(* store.RemovePolicy: WHERE tenant = ? AND id = ? finds a row.            *)
Removable(t, id) == policies[id] # NoRow /\ policies[id].tenant = t

(* A RemovePolicy that does not broadcast.                                 *)
SilentRemove(p, t, id) ==
  /\ call[p] = Idle
  /\ IF Removable(t, id)
     THEN policies' = [policies EXCEPT ![id] = NoRow] /\ commits' = commits + 1
     ELSE UNCHANGED <<policies, commits>>
  /\ call' = [call EXCEPT ![p] = Finished]
  /\ UNCHANGED <<hubVars, snap, stamp>>

(* The DELETE finds nothing, or fails, or removes the row.                 *)
RemovePolicy(p, t, id) ==
  /\ call[p] = Idle
  /\ \/ Refuse(p)
     \/ /\ Removable(t, id)
        /\ Commit(p, id, NoRow, [kind |-> "REMOVED", tenant |-> t, name |-> id, rule |-> NoRow])

(* The tail of AddPolicy and RemovePolicy.                                 *)
Publish(p) ==
  /\ call[p].st = "publish"
  /\ broadcast(call[p].ev)
  /\ stamp' = Append(stamp, call[p].cn)
  /\ call' = [call EXCEPT ![p] = Finished]
  /\ UNCHANGED <<policies, snap, commits>>

(* store.ListPolicies: WHERE tenant = ?, so the empty tenant lists nothing.*)
ListPolicies(t) ==
  [id \in Name |-> IF policies[id] # NoRow /\ policies[id].tenant = t THEN toPB(policies[id]) ELSE NoRow]

(* Watch, first step: the snapshot is read (or the read fails).            *)
WatchList(w, t) ==
  /\ snap[w] = Unread
  /\ \/ snap' = [snap EXCEPT ![w] = [st |-> "listed", tenant |-> t, rules |-> ListPolicies(t), at |-> commits]]
     \/ snap' = [snap EXCEPT ![w] = [st |-> "failed"]]
  /\ UNCHANGED <<hubVars, policies, call, commits, stamp>>

(* Watch, second step: addWatcher.                                         *)
WatchRegister(w) ==
  /\ snap[w].st = "listed"
  /\ Watch(w, [tenant |-> snap[w].tenant, names |-> {}], "snap")
  /\ UNCHANGED pvars

(* Watch, the rest: the snapshot is sent, then the live loop.              *)
WatchStep(w) == (HandlerStep(w) \/ Cancel(w)) /\ UNCHANGED pvars

(* The process dies; the table is on disk.                                 *)
Restart ==
  /\ Crash
  /\ call' = [p \in Rpc |-> IF call[p] = Idle THEN Idle ELSE Finished]
  /\ snap' = [w \in Watcher |-> IF pc[w] = "idle" /\ snap[w].st = "listed" THEN [st |-> "failed"] ELSE snap[w]]
  /\ UNCHANGED <<policies, commits, stamp>>

Next ==
  \/ \E p \in Rpc, r \in AddRequest : AddPolicy(p, r)
  \/ \E p \in Rpc, t \in Tenant, id \in Name : RemovePolicy(p, t, id)
  \/ \E p \in Rpc : Publish(p)
  \/ \E w \in Watcher, t \in Tenant \cup {AnyTenant} : WatchList(w, t)
  \/ \E w \in Watcher : WatchRegister(w)
  \/ \E w \in Watcher : WatchStep(w)
  \/ Restart

Spec == Init /\ [][Next]_vars

(* RPC handlers and Watch handlers run to their end.                       *)
Fairness ==
  /\ \A p \in Rpc : WF_vars(Publish(p))
  /\ \A w \in Watcher : WF_vars(HandlerStep(w) /\ UNCHANGED pvars)

-----------------------------------------------------------------------------
(* The relay's copy (external): the snapshot, overwritten by the events    *)
(* about an id in the order they arrive.                                   *)
RelayRule(w, id) ==
  LET about == {i \in 1 .. sent[w] : log[taken[w][i]].name = id}
  IN IF about = {} THEN snap[w].rules[id]
     ELSE log[taken[w][CHOOSE i \in about : \A j \in about : j <= i]].rule

(* The rule under id as a relay of tenant t should know it.                *)
Current(t, id) == ListPolicies(t)[id]

(* Nothing is on its way to the relay of w: every RPC that committed has   *)
(* broadcast, and the handler has sent all it was given.                   *)
Settled(w) ==
  /\ w \in watchers
  /\ pc[w] = "loop"
  /\ ch[w] = << >>
  /\ \A p \in Rpc : call[p].st # "publish"

(* A change of id committed after w listed and broadcast before w was      *)
(* registered.                                                             *)
Missed(w, id) == \E k \in 1 .. from[w] : log[k].name = id /\ stamp[k] > snap[w].at

(* Two changes of id were broadcast in the other order than committed.     *)
Inverted(id) ==
  \E j, k \in 1 .. Len(log) : j < k /\ log[j].name = id /\ log[k].name = id /\ stamp[j] > stamp[k]

(* A relay that watches a tenant ends up with exactly the tenant's table,  *)
(* through any interleaving of RPCs, broadcasts and restarts, except where *)
(* one of two races struck: a change inside the window between the list    *)
(* and addWatcher, or two changes of one id whose broadcasts overtook each *)
(* other.  These two are therefore the only ways a relay goes stale.       *)
ExactUnlessRaced ==
  \A w \in Watcher, id \in Name :
    (Settled(w) /\ want[w].tenant # AnyTenant /\ ~Missed(w, id) /\ ~Inverted(id))
      => RelayRule(w, id) = Current(want[w].tenant, id)

(* A relay that stays connected catches up with every committed change,    *)
(* races aside: each RPC that committed broadcasts and the handler sends.  *)
CatchesUp ==
  \A w \in Watcher :
    <>[](w \in watchers /\ pc[w] \in {"loop", "send"} /\ want[w].tenant # AnyTenant)
      => <>[](/\ snap[w].st = "listed"
              /\ \A id \in Name : \/ Missed(w, id)
                                  \/ Inverted(id)
                                  \/ RelayRule(w, id) = Current(want[w].tenant, id))

(* "Register before sending the snapshot so we don't lose any update":     *)
(* without overtaking broadcasts, a settled relay has the tenant's table.  *)
NoUpdateLost ==
  \A w \in Watcher, id \in Name :
    (Settled(w) /\ want[w].tenant # AnyTenant /\ ~Inverted(id))
      => RelayRule(w, id) = Current(want[w].tenant, id)
=============================================================================
