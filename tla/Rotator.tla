------------------------------- MODULE Rotator -------------------------------
(***************************************************************************)
(* lib/identity/rotator.go: Run renews the certificate before it expires   *)
(* and tells the subscribers, who read it through Current.  Certificates   *)
(* have the validity pkg/pki/ca.go gives them.                             *)
(*                                                                         *)
(* Timers fire on time and the steps of Run between two waits take none;   *)
(* only the signer, a call to the controller, takes as long as it likes.   *)
(***************************************************************************)
EXTENDS Integers, Sequences

CONSTANTS
  Ttl,       \* validity of an issued certificate (an hour in the code)
  Backdate,  \* how far NotBefore lies in the past (a minute)
  Backoff,   \* the wait after a failed refresh (a minute)
  Percent,   \* the arguments of SetRotateAt, in percent
  Sub,       \* the subscribers
  NoCert     \* the nil *Cert

ASSUME RotatorAssumption ==
  /\ Ttl \in Nat \ {0}
  /\ Backdate \in Nat
  /\ Backoff \in Nat \ {0}
  /\ Percent \subseteq Int

VARIABLES
  clock,     \* the clock
  rotateAt,  \* Rotator.rotateAt, in percent
  cur,       \* Rotator.cur
  run,       \* where Run is
  subs,      \* the subscribers in Rotator.subs
  ch,        \* ch[s]: the content of the channel of s
  cons,      \* cons[s]: what subscriber s is doing
  held,      \* held[s]: the certificate s uses
  first,     \* the certificate of Bootstrap (history)
  due,       \* when Run meant to replace cur (history)
  spent,     \* time spent in the signer since (history)
  fails      \* refreshes that failed since (history)

clients == <<subs, ch, cons, held>>

history == <<first, due, spent, fails>>

rotatorVars == <<clock, rotateAt, cur, run, clients, history>>

Default == 70  \* DefaultRotateAt

(* CA.Sign at time t: NotBefore and NotAfter.                              *)
Validity(t) == [nb |-> t - Backdate, na |-> t + Ttl]


RefreshAt(c) == c.nb + ((c.na - c.nb) * rotateAt) \div 100

(* timeUntilRefresh, as the time it ends.                                  *)
WakeAt(c) == IF RefreshAt(c) < clock THEN clock ELSE RefreshAt(c)

Waiting(c) == [st |-> "wait", cert |-> c, wake |-> WakeAt(c)]

RotatorInit ==
  /\ clock = 0
  /\ rotateAt = Default
  /\ cur = NoCert
  /\ run = [st |-> "off"]
  /\ subs = {}
  /\ ch = [s \in Sub |-> << >>]
  /\ cons = [s \in Sub |-> "parked"]
  /\ held = [s \in Sub |-> NoCert]
  /\ first = NoCert
  /\ due = 0
  /\ spent = 0
  /\ fails = 0

(* Unsynchronized with Run, hence only before it.                          *)
SetRotateAt(f) ==
  /\ run.st = "off"
  /\ 0 < f /\ f < 100
  /\ rotateAt' = f
  /\ UNCHANGED <<clock, cur, run, clients, history>>

(* A failed Bootstrap changes nothing.                                     *)
Bootstrap ==
  /\ run.st = "off"
  /\ cur' = Validity(clock)
  /\ first' = Validity(clock)
  /\ UNCHANGED <<clock, rotateAt, run, clients, due, spent, fails>>

(* Run returns an error before Bootstrap has succeeded.                    *)
Run ==
  /\ run.st = "off"
  /\ cur # NoCert
  /\ run' = Waiting(cur)
  /\ due' = WakeAt(cur)
  /\ UNCHANGED <<clock, rotateAt, cur, clients, first, spent, fails>>

TimerFires ==
  /\ run.st = "wait"
  /\ clock >= run.wake
  /\ run' = [st |-> "sign", cert |-> run.cert, began |-> clock]
  /\ UNCHANGED <<clock, rotateAt, cur, clients, history>>

(* The certificate was issued at some time during the call.                *)
SignOk ==
  /\ run.st = "sign"
  /\ \E t \in run.began .. clock : run' = [st |-> "store", cert |-> Validity(t)]
  /\ UNCHANGED <<clock, rotateAt, cur, clients, history>>

(* A backoff that doubles.                                                 *)
SignErrDoubling ==
  /\ run.st = "sign"
  /\ run' = [st |-> "backoff", cert |-> run.cert, wake |-> clock + (fails + 1) * Backoff]
  /\ fails' = fails + 1
  /\ UNCHANGED <<clock, rotateAt, cur, clients, first, due, spent>>

SignErr ==
  /\ run.st = "sign"
  /\ run' = [st |-> "backoff", cert |-> run.cert, wake |-> clock + Backoff]
  /\ fails' = fails + 1
  /\ UNCHANGED <<clock, rotateAt, cur, clients, first, due, spent>>

(* continue: back to the head of the loop with the old certificate.        *)
BackoffOver ==
  /\ run.st = "backoff"
  /\ clock >= run.wake
  /\ run' = Waiting(run.cert)
  /\ UNCHANGED <<clock, rotateAt, cur, clients, history>>

Store ==
  /\ run.st = "store"
  /\ cur' = run.cert
  /\ run' = [run EXCEPT !.st = "notify"]
  /\ due' = WakeAt(run.cert)
  /\ spent' = 0
  /\ fails' = 0
  /\ UNCHANGED <<clock, rotateAt, clients, first>>

(* broadcast over unbuffered channels: a busy subscriber is passed over.   *)
UnbufferedBroadcast ==
  /\ run.st = "notify"
  /\ ch' = [s \in Sub |-> IF s \in subs /\ cons[s] = "parked" THEN <<run.cert>> ELSE ch[s]]
  /\ run' = Waiting(run.cert)
  /\ UNCHANGED <<clock, rotateAt, cur, subs, cons, held, history>>

(* A channel holds one certificate; a full one drops the new one.          *)
broadcast ==
  /\ run.st = "notify"
  /\ ch' = [s \in Sub |-> IF s \in subs /\ ch[s] = << >> THEN <<run.cert>> ELSE ch[s]]
  /\ run' = Waiting(run.cert)
  /\ UNCHANGED <<clock, rotateAt, cur, subs, cons, held, history>>

(* ctx is cancelled: both selects return.                                  *)
Stop ==
  /\ run.st \in {"wait", "backoff"}
  /\ run' = [st |-> "stopped"]
  /\ UNCHANGED <<clock, rotateAt, cur, clients, history>>

(* The subscriber's first call of Current follows.                         *)
Subscribe(s) ==
  /\ s \notin subs
  /\ subs' = subs \cup {s}
  /\ cons' = [cons EXCEPT ![s] = "woken"]
  /\ UNCHANGED <<clock, rotateAt, cur, run, ch, held, history>>

(* External: a subscriber takes the signal ...                             *)
Take(s) ==
  /\ cons[s] = "parked"
  /\ ch[s] # << >>
  /\ ch' = [ch EXCEPT ![s] = << >>]
  /\ cons' = [cons EXCEPT ![s] = "woken"]
  /\ UNCHANGED <<clock, rotateAt, cur, run, subs, held, history>>

(* ... and reads the latest via Current.                                   *)
Look(s) ==
  /\ cons[s] = "woken"
  /\ held' = [held EXCEPT ![s] = cur]
  /\ cons' = [cons EXCEPT ![s] = "busy"]
  /\ UNCHANGED <<clock, rotateAt, cur, run, subs, ch, history>>

(* It is done with the new certificate and waits again.                    *)
Park(s) ==
  /\ cons[s] = "busy"
  /\ cons' = [cons EXCEPT ![s] = "parked"]
  /\ UNCHANGED <<clock, rotateAt, cur, run, subs, ch, held, history>>

ClockTick ==
  /\ run.st \notin {"store", "notify"}
  /\ run.st \in {"wait", "backoff"} => clock < run.wake
  /\ clock' = clock + 1
  /\ spent' = IF run.st = "sign" THEN spent + 1 ELSE spent
  /\ UNCHANGED <<rotateAt, cur, run, clients, first, due, fails>>

RotatorNext ==
  \/ \E f \in Percent : SetRotateAt(f)
  \/ Bootstrap
  \/ Run
  \/ TimerFires
  \/ SignOk
  \/ SignErr
  \/ BackoffOver
  \/ Store
  \/ broadcast
  \/ Stop
  \/ \E s \in Sub : Subscribe(s) \/ Take(s) \/ Look(s) \/ Park(s)
  \/ ClockTick

RotatorSpec == RotatorInit /\ [][RotatorNext]_rotatorVars

-----------------------------------------------------------------------------
(* "dropped silently if the consumer is slow - consumers should always     *)
(* read the latest via Current()": the dropped signals do no harm.  A      *)
(* subscriber that calls Current after every signal it takes holds the     *)
(* current certificate whenever nothing is on its way to it, except that   *)
(* Bootstrap tells nobody.                                                 *)
LatestHeld ==
  \A s \in subs :
    (ch[s] = << >> /\ cons[s] = "parked" /\ run.st # "notify" /\ cur # first) => held[s] = cur

(* "leaving 18m headroom against the controller being briefly              *)
(* unreachable": a certificate runs out while Run is working only if the   *)
(* signer failed, or hung, for all the time from the refresh to expiry.    *)
HeadroomUsed ==
  (run.st \notin {"off", "stopped"} /\ clock >= cur.na) => spent + fails * Backoff >= cur.na - due

=============================================================================
