----------------------------- MODULE Controller -----------------------------
(***************************************************************************)
(* The controller process: cmd/outrelay-controller from store.Open to the  *)
(* graceful stop, the three gRPC services it registers, and the clients of *)
(* these: commands of outrelay-cli, relays that record audit events, and   *)
(* relays that hold a Watch stream.                                        *)
(* The audit server (pkg/audit) is modelled here in full; of the policy    *)
(* and the registry server only the answers are, their broadcasts being    *)
(* the subject of PolicyServer and RegistryServer.                         *)
(*                                                                         *)
(* A client makes one call.  cl[c] is the client's side of it and sv[c]    *)
(* the server's: a client may have given up while its handler still runs.  *)
(***************************************************************************)
EXTENDS Cli, PolicyCodec, FiniteSets, SequencesExt

CONSTANTS
  Operator,  \* runs of outrelay-cli
  Relay,     \* relays that make one unary call
  Watcher,   \* relays that open one Watch stream
  WatchMethod, \* of the registry or of the policy service
  Command,   \* the command lines offered to operators
  Event,     \* the events offered to Record
  OldAudit, OldPolicies,  \* what an earlier life of the process left in the tables
  NoEvent,   \* a RecordAuditRequest without an event
  Id,        \* policy ids
  NoPolicy,  \* a row that is not there
  Lives      \* how often the process is started

VARIABLES
  proc,      \* where main is
  sig,       \* the context of signalContext is cancelled
  stopped,   \* GracefulStop has been called
  life,      \* which start this is
  policies,  \* the policies table
  audit,     \* the audit_events table
  count,     \* the counter audit_events_total
  cl, sv,
  args,      \* args[c]: the command line of operator c
  seen,      \* seen[c]: what the tables held when c sent its call (history)
  did        \* did[c]: what the call of c changed (history)

store == <<policies, audit>>
process == <<proc, sig, stopped, life>>
history == <<args, seen, did>>
vars == <<process, store, count, cl, sv, history>>

Client == Operator \cup Relay \cup Watcher

Running == {"opening", "opened", "listening", "serving", "draining"}

(* The methods of the three service descriptors; the Watch of the policy   *)
(* service is WatchPolicies here.                                          *)
RegistryMethods == {"RegisterService", "DeregisterAgent", "Resolve", "UpsertRelay", "Watch"}
PolicyMethods == {"AddPolicy", "RemovePolicy", "ListPolicies", "WatchPolicies"}
AuditMethods == {"Record", "Query"}

Nothing == [k |-> "nothing"]
NoCall == [st |-> "none"]
Err == [ok |-> FALSE]

(* The calls a handler is still busy with, or whose answer is not out.     *)
Active == {c \in Client : sv[c].st \in {"run", "wrote", "send", "done"}}

Init ==
  /\ proc = "down" /\ sig = FALSE /\ stopped = FALSE /\ life = 0
  /\ policies = OldPolicies
  /\ audit = OldAudit
  /\ count = 0
  /\ cl = [c \in Client |-> [st |-> "new"]]
  /\ sv = [c \in Client |-> NoCall]
  /\ args = [c \in Client |-> Nothing]
  /\ seen = [c \in Client |-> {}]
  /\ did = [c \in Client |-> Nothing]

-----------------------------------------------------------------------------
(* main                                                                    *)

(* The process ends: whatever its goroutines were doing is cut off.        *)
Exit(how) ==
  /\ proc' = how
  /\ sv' = [c \in Client |-> IF sv[c].st \in {"none", "cut"} THEN sv[c] ELSE [st |-> "cut"]]
  /\ UNCHANGED <<sig, stopped, life, store, count, cl, history>>

Main(next) ==
  /\ proc' = next
  /\ UNCHANGED <<sig, stopped, life, store, count, cl, sv, history>>

Start ==
  /\ proc \notin Running /\ life < Lives
  /\ proc' = "opening"
  /\ sig' = FALSE /\ stopped' = FALSE /\ life' = life + 1 /\ count' = 0
  /\ UNCHANGED <<store, cl, sv, history>>

(* Open applies the schema under the context: a signal makes it fail.      *)
OpenStore ==
  /\ proc = "opening"
  /\ \/ ~sig /\ Main("opened")
     \/ Exit("failed")

Listen ==
  /\ proc = "opened"
  /\ Main("listening") \/ Exit("failed")

Signal ==
  /\ proc \in Running /\ ~sig
  /\ sig' = TRUE
  /\ UNCHANGED <<proc, stopped, life, store, count, cl, sv, history>>

(* A stop that came too early forgotten.                                   *)
ServeAnyway == proc = "listening" /\ Main("serving")

(* Serve after GracefulStop returns ErrServerStopped.                      *)
Serve ==
  /\ proc = "listening"
  /\ IF stopped THEN Exit("failed") ELSE Main("serving")

(* The listener breaks.                                                    *)
ServeErr == proc = "serving" /\ ~stopped /\ Exit("failed")

(* The goroutine behind Listen: with Serve running, the listener is closed *)
(* and the calls in progress are waited for.                               *)
GracefulStop ==
  /\ proc \in {"listening", "serving"} /\ sig /\ ~stopped
  /\ stopped' = TRUE
  /\ proc' = IF proc = "serving" THEN "draining" ELSE proc
  /\ UNCHANGED <<sig, life, store, count, cl, sv, history>>


(* Serve returns nil, and main with it: the deferred Close of the store.   *)
Drained == proc = "draining" /\ Active = {} /\ Exit("clean")

Kill == proc \in Running /\ Exit("failed")

-----------------------------------------------------------------------------
(* The client stubs                                                        *)

Waiting(req) == [st |-> "wait", req |-> req, out |-> << >>]
Exited(code, why, req, out) == [st |-> "exit", code |-> code, why |-> why, req |-> req, out |-> out]

(* The call goes out, or fails at once because nobody accepts it.          *)
Send(c, req) ==
  /\ IF proc \in {"listening", "serving"}
     THEN sv' = [sv EXCEPT ![c] = [st |-> "sent"]] /\ cl' = [cl EXCEPT ![c] = Waiting(req)]
     ELSE cl' = [cl EXCEPT ![c] = Exited(1, "refused", req, << >>)] /\ UNCHANGED sv
  /\ seen' = [seen EXCEPT ![c] =
       CASE req.m = "Query" -> audit
         [] req.m = "ListPolicies" -> {id \in Id : policies[id] # NoPolicy}
         [] OTHER -> {}]
  /\ UNCHANGED <<process, store, count, did>>

PolicyClient(c, req) == req.m \in PolicyMethods /\ Send(c, req)
AuditClient(c, req) == req.m \in AuditMethods /\ Send(c, req)
RegistryClient(c, req) == req.m \in RegistryMethods /\ Send(c, req)

(* outrelay-cli starts.                                                    *)
RunCli(c, f) ==
  /\ cl[c].st = "new"
  /\ args' = [args EXCEPT ![c] = f]
  /\ IF Usage(f)
     THEN /\ cl' = [cl EXCEPT ![c] = Exited(2, "usage", [m |-> "none"], << >>)]
          /\ UNCHANGED <<process, store, count, sv, seen, did>>
     ELSE PolicyClient(c, RequestOf(f)) \/ AuditClient(c, RequestOf(f))

(* A relay calls Record, or a unary method of the registry.                *)
RelayCalls(c) ==
  /\ cl[c].st = "new"
  /\ \/ \E ev \in Event \cup {NoEvent} : AuditClient(c, [m |-> "Record", ev |-> ev])
     \/ RegistryClient(c, [m |-> "UpsertRelay"])
  /\ UNCHANGED args

WatcherCalls(c) ==
  /\ cl[c].st = "new"
  /\ IF WatchMethod \in PolicyMethods
     THEN PolicyClient(c, [m |-> WatchMethod]) ELSE RegistryClient(c, [m |-> WatchMethod])
  /\ UNCHANGED args

(* The answer arrives.  A command that removes nothing exits with code 1.  *)
Answered(c) ==
  /\ cl[c].st = "wait" /\ sv[c].st = "done"
  /\ LET a == sv[c].answer
         code == IF a.ok /\ ("removed" \in DOMAIN a => a.removed) THEN 0 ELSE 1
         lines == IF "rules" \in DOMAIN a THEN SetToSeq({RuleLine(r) : r \in a.rules}) ELSE cl[c].out
     IN  cl' = [cl EXCEPT ![c] = Exited(code, "answer", @.req, lines)]
  /\ sv' = [sv EXCEPT ![c] = NoCall]
  /\ UNCHANGED <<process, store, count, history>>

(* The connection breaks under the call.                                   *)
Unavailable(c) ==
  /\ cl[c].st = "wait" /\ sv[c].st = "cut"
  /\ cl' = [cl EXCEPT ![c] = Exited(1, "cut", @.req, @.out)]
  /\ UNCHANGED <<process, store, count, sv, history>>

(* The context of the call ends: the 5 or 10 seconds of a command, or a    *)
(* relay that leaves.  An answer on its way is dropped.                    *)
GivesUp(c) ==
  /\ cl[c].st = "wait"
  /\ cl' = [cl EXCEPT ![c] = Exited(1, "deadline", @.req, @.out)]
  /\ sv' = [sv EXCEPT ![c] = IF @.st = "done" THEN NoCall ELSE @]
  /\ UNCHANGED <<process, store, count, history>>

-----------------------------------------------------------------------------
(* The handlers                                                            *)

(* The handler returns; nobody may be there any more to be answered.       *)
Reply(c, a) ==
  sv' = [sv EXCEPT ![c] = IF cl[c].st = "wait" THEN [st |-> "done", answer |-> a] ELSE NoCall]

(* A handler that returns without having changed anything.                 *)
JustReply(c, a) == Reply(c, a) /\ UNCHANGED <<process, store, count, cl, history>>

(* The server takes the call up; one that is being stopped may refuse it.  *)
Dispatch(c) ==
  /\ sv[c].st = "sent"
  /\ \/ /\ proc \in {"serving", "draining"}
        /\ sv' = [sv EXCEPT ![c] = [st |-> "run"]]
        /\ UNCHANGED <<process, store, count, cl, history>>
     \/ proc = "draining" /\ JustReply(c, Err)

(* An id no policy has had.                                                *)
Fresh(id) == OldPolicies[id] = NoPolicy /\ \A c \in Client : did[c].k # "nothing" => did[c].id # id

(* A statement that changed a table; the handler still has to return.      *)
Wrote(c, change, a) ==
  /\ did' = [did EXCEPT ![c] = change]
  /\ sv' = [sv EXCEPT ![c] = [st |-> "wrote", answer |-> a]]
  /\ UNCHANGED <<process, count, cl, args, seen>>

AddPolicy(c, req) ==
  \/ JustReply(c, Err)
  \/ \E id \in Id :
       /\ Fresh(id)
       /\ policies' = [policies EXCEPT ![id] =
            [row |-> rowOf(req), caller |-> req.caller, target |-> req.target, expires |-> req.expires]]
       /\ Wrote(c, [k |-> "added", id |-> id], [ok |-> TRUE])
       /\ UNCHANGED audit

(* The number of rows removed not looked at.                               *)
RemoveAlways(c, req) ==
  /\ policies' = [policies EXCEPT ![req.id] = NoPolicy]
  /\ IF policies[req.id] # NoPolicy
     THEN Wrote(c, [k |-> "removed", id |-> req.id], [ok |-> TRUE, removed |-> TRUE])
     ELSE Wrote(c, Nothing, [ok |-> TRUE, removed |-> TRUE])
  /\ UNCHANGED audit

RemovePolicy(c, req) ==
  \/ JustReply(c, Err)
  \/ IF policies[req.id] # NoPolicy /\ policies[req.id].row.tenant = req.tenant
     THEN /\ policies' = [policies EXCEPT ![req.id] = NoPolicy]
          /\ Wrote(c, [k |-> "removed", id |-> req.id], [ok |-> TRUE, removed |-> TRUE])
          /\ UNCHANGED audit
     ELSE JustReply(c, [ok |-> TRUE, removed |-> FALSE])

(* The PolicyRule of a row.                                                *)
RuleOf(id) ==
  LET p == policies[id]  r == toPB(p.row)
  IN  [id |-> id, caller |-> p.caller, target |-> p.target, decision |-> r.decision,
       p2p |-> r.p2p, relay |-> r.relay, expires |-> p.expires]

ListPolicies(c, req) ==
  \/ JustReply(c, Err)
  \/ JustReply(c, [ok |-> TRUE, rules |-> {RuleOf(id) : id \in
                     {i \in Id : policies[i] # NoPolicy /\ policies[i].row.tenant = req.tenant}}])

(* A Watch handler ends when its client has left, or is dropped.           *)
WatchEnds(c) == JustReply(c, Err)

PolicyHandler(c) ==
  LET req == cl[c].req IN
  /\ sv[c].st = "run"
  /\ \/ req.m = "AddPolicy" /\ AddPolicy(c, req)
     \/ req.m = "RemovePolicy" /\ RemovePolicy(c, req)
     \/ req.m = "ListPolicies" /\ ListPolicies(c, req)

(* Every unary method of the registry ends in an answer or an error.       *)
RegistryHandler(c) ==
  /\ sv[c].st = "run" /\ cl[c].req.m \in RegistryMethods \ {"Watch"}
  /\ JustReply(c, [ok |-> TRUE]) \/ JustReply(c, Err)

WatchHandler(c) ==
  /\ sv[c].st = "run" /\ cl[c].req.m \in {"Watch", "WatchPolicies"}
  /\ cl[c].st = "exit"
  /\ WatchEnds(c)

WatchDropped(c) ==
  /\ sv[c].st = "run" /\ cl[c].req.m \in {"Watch", "WatchPolicies"}
  /\ cl[c].st = "wait"
  /\ WatchEnds(c)

-----------------------------------------------------------------------------
(* The audit server                                                        *)

auditDecisionString(d) == IF d = "DENY" THEN "deny" ELSE "allow"
auditDecisionPB(s) == IF s = "deny" THEN "DENY" ELSE "ALLOW"

(* The row RecordAudit inserts; by is history: the call that inserted it.  *)
RowOf(c, ev) ==
  [ts |-> IF ev.ts = 0 THEN Now ELSE ev.ts, tenant |-> ev.tenant, caller |-> ev.caller,
   target |-> ev.target, decision |-> auditDecisionString(ev.decision), reason |-> ev.reason,
   by |-> c]

Record(c, ev) ==
  \/ JustReply(c, Err)
  \/ /\ ev # NoEvent
     /\ audit' = audit \cup {RowOf(c, ev)}
     /\ Wrote(c, [k |-> "recorded", id |-> c], [ok |-> TRUE])
     /\ UNCHANGED policies

(* The handler goes on behind its statement: the counter of Record, the    *)
(* broadcast of a policy, and the answer.                                  *)
Return(c) ==
  /\ sv[c].st = "wrote"
  /\ count' = IF cl[c].req.m = "Record" THEN count + 1 ELSE count
  /\ Reply(c, sv[c].answer)
  /\ UNCHANGED <<process, store, cl, history>>

(* The WHERE clause of QueryAudit.                                         *)
Selected(q) ==
  {r \in audit : /\ r.tenant = q.tenant
                 /\ q.caller # "" => r.caller = q.caller
                 /\ q.target # "" => r.target = q.target
                 /\ q.since > 0 => r.ts >= q.since}

(* ORDER BY ts_unix_ms DESC leaves rows of one instant in any order.       *)
Newest(R) == {s \in SetToSeqs(R) : \A i \in 1 .. Len(s) - 1 : s[i].ts >= s[i + 1].ts}

QueryAudit(q) ==
  {IF q.limit > 0 /\ q.limit < Len(s) THEN SubSeq(s, 1, q.limit) ELSE s : s \in Newest(Selected(q))}

Query(c, q) ==
  \/ JustReply(c, Err)
  \/ \E rows \in QueryAudit(q) :
       /\ sv' = [sv EXCEPT ![c] = [st |-> "send", rows |-> rows]]
       /\ UNCHANGED <<process, store, count, cl, history>>

(* The loop of Query, and the command's loop of Recv.                      *)
SendRow(c) ==
  /\ sv[c].st = "send"
  /\ IF sv[c].rows # << >> /\ cl[c].st = "wait"
     THEN LET r == Head(sv[c].rows)
              ev == [r EXCEPT !.decision = auditDecisionPB(@)]
          IN  /\ sv' = [sv EXCEPT ![c].rows = Tail(@)]
              /\ cl' = [cl EXCEPT ![c].out = Append(@, [line |-> EventLine(ev), row |-> r])]
              /\ UNCHANGED <<process, store, count, history>>
     ELSE JustReply(c, [ok |-> sv[c].rows = << >>])

AuditHandler(c) ==
  /\ sv[c].st = "run"
  /\ \/ cl[c].req.m = "Record" /\ Record(c, cl[c].req.ev)
     \/ cl[c].req.m = "Query" /\ Query(c, cl[c].req)

-----------------------------------------------------------------------------
Handler(c) ==
  \/ Dispatch(c) \/ PolicyHandler(c) \/ AuditHandler(c) \/ RegistryHandler(c)
  \/ WatchHandler(c) \/ Return(c) \/ SendRow(c)

MainStep == OpenStore \/ Listen \/ Serve \/ GracefulStop \/ Drained

ClientStep(c) == WatchDropped(c) \/ Answered(c) \/ Unavailable(c) \/ GivesUp(c)

Process == Start \/ MainStep \/ Signal \/ ServeErr \/ Kill

Next ==
  \/ Process
  \/ \E c \in Operator, f \in Command : RunCli(c, f)
  \/ \E c \in Relay : RelayCalls(c)
  \/ \E c \in Watcher : WatcherCalls(c)
  \/ \E c \in Client : Handler(c) \/ ClientStep(c)

Spec == Init /\ [][Next]_vars

(* main and the handlers are scheduled, answers arrive, and a command's    *)
(* context has a timeout.  Nothing makes a watcher leave.                  *)
Fairness ==
  /\ WF_vars(MainStep)
  /\ \A c \in Client : WF_vars(Handler(c)) /\ WF_vars(Answered(c))
  /\ \A c \in Operator : WF_vars(GivesUp(c))

FairSpec == Spec /\ Fairness

-----------------------------------------------------------------------------
(* The exit code of a command, and the answer a relay gets, tell what      *)
(* became of the call.  Success means that its row was written, exit code  *)
(* 2 that nothing was sent, and an error the server answered with that     *)
(* nothing was changed; only a call that was cut off or timed out leaves   *)
(* the question open.                                                      *)
ExitTellsTruth ==
  \A c \in Client : cl[c].st = "exit" =>
    /\ cl[c].code = 2 => sv[c] = NoCall /\ did[c] = Nothing
    /\ cl[c].code = 0 =>
         CASE cl[c].req.m = "AddPolicy" -> did[c].k = "added"
           [] cl[c].req.m = "RemovePolicy" -> did[c] = [k |-> "removed", id |-> cl[c].req.id]
           [] cl[c].req.m = "Record" -> \E r \in audit : r.by = c
           [] OTHER -> did[c] = Nothing
    /\ cl[c].code = 1 /\ cl[c].why = "answer" => did[c] = Nothing

(* policy list prints the rules as policy add was asked to make them: the  *)
(* spelling of a flag, the enum, the string in the table, the enum and the *)
(* string printed agree.  A list that succeeds has every policy that was   *)
(* there when it was asked for and still is.                               *)
ListShowsAsked ==
  \A c \in Operator : cl[c].st = "exit" /\ cl[c].req.m = "ListPolicies" =>
    LET lines == ToSet(cl[c].out) IN
    /\ \A l \in lines : OldPolicies[l.id] = NoPolicy =>
         \E a \in Operator :
           did[a] = [k |-> "added", id |-> l.id] /\ l = [id |-> l.id] @@ args[a].want
    /\ cl[c].code = 0 =>
         {id \in seen[c] : policies[id] # NoPolicy /\ policies[id].row.tenant = args[c].tenant}
           \subseteq {l.id : l \in lines}



(* Once signalled the process ends, unless a Watch stream is held open for *)
(* ever: GracefulStop waits for the Watch handlers, and these wait for     *)
(* their clients only.                                                     *)
StopsUnlessHeld ==
  (\A w \in Watcher : []<>(sv[w].st # "run")) => [](sig => <>(proc \notin Running))
=============================================================================
