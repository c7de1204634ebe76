------------------------------- MODULE Enroller -------------------------------
(***************************************************************************)
(* pkg/pki/enroll.go: one-shot enrollment tokens.  Calls of Verify run     *)
(* concurrently; the check of the token comes before the lock, the         *)
(* recording of its jti under it.  Key and record are in memory only.      *)
(***************************************************************************)
EXTENDS Integers, Identity

CONSTANTS
  Call,        \* the calls of Verify
  TenantArg,   \* the tenants Issue is called with
  TtlArg,      \* the arguments of Issue, in ticks
  DefaultTtl,  \* DefaultEnrollTTL, in ticks
  Second,      \* ticks in the second a JWT date is truncated to
  MaxTokens    \* bound on the tokens issued

ASSUME EnrollerAssumption ==
  /\ TtlArg \subseteq Int
  /\ DefaultTtl \in Nat \ {0}
  /\ Second \in Nat \ {0}
  /\ MaxTokens \in Nat

VARIABLES
  now,     \* the clock
  key,     \* the number of the enroller's key pair
  used,    \* Enroller.used; a jti is the token's index in tokens
  tokens,  \* the tokens issued so far
  call     \* where each call of Verify is

vars == <<now, key, used, tokens, call>>

(* jwt.NewNumericDate truncates to whole seconds.                          *)
NumericDate(t) == (t \div Second) * Second

Init ==
  /\ now = Second
  /\ key = 0
  /\ used = {}
  /\ tokens = << >>
  /\ call = [p \in Call |-> [st |-> "idle"]]

(* Issue that takes ttl as it comes.                                       *)
IssueAsGiven(tenant, ttl) ==
  /\ IsValidTenant(tenant) /\ Len(tokens) < MaxTokens
  /\ tokens' = Append(tokens, [key |-> key, tenant |-> tenant, at |-> now, ttl |-> IF ttl <= 0 THEN DefaultTtl ELSE ttl,
                               nbf |-> NumericDate(now - Second), exp |-> NumericDate(now + ttl)])
  /\ UNCHANGED <<now, key, used, call>>

(* The fields at and ttl are the time of issue and the lifetime meant.     *)
Issue(tenant, ttl) ==
  LET life == IF ttl <= 0 THEN DefaultTtl ELSE ttl IN
  /\ IsValidTenant(tenant) /\ Len(tokens) < MaxTokens
  /\ tokens' = Append(tokens, [key |-> key, tenant |-> tenant, at |-> now, ttl |-> life,
                               nbf |-> NumericDate(now - Second), exp |-> NumericDate(now + life)])
  /\ UNCHANGED <<now, key, used, call>>

(* jwt.ParseWithClaims: signature and dates; issuer, audience and jti are  *)
(* right in every token Issue signs.                                       *)
Valid(tok) == tok.key = key /\ tok.nbf <= now /\ now < tok.exp /\ IsValidTenant(tok.tenant)

Verify(p, i) ==
  /\ call[p].st = "idle"
  /\ call' = [call EXCEPT ![p] = [st |-> IF Valid(tokens[i]) THEN "claim" ELSE "invalid", jti |-> i, at |-> now]]
  /\ UNCHANGED <<now, key, used, tokens>>

(* The critical section of Verify.                                         *)
VerifyLocked(p) ==
  /\ call[p].st = "claim"
  /\ call' = [call EXCEPT ![p].st = IF call[p].jti \in used THEN "replay" ELSE "ok"]
  /\ used' = used \cup {call[p].jti}
  /\ UNCHANGED <<now, key, tokens>>

(* A restart that brings the old key pair back.                            *)
RestartSameKey ==
  /\ used' = {}
  /\ call' = [p \in Call |-> IF call[p].st = "claim" THEN [call[p] EXCEPT !.st = "lost"] ELSE call[p]]
  /\ UNCHANGED <<now, key, tokens>>

(* NewEnroller: a fresh key pair, an empty record.                         *)
Restart ==
  /\ key' = key + 1
  /\ used' = {}
  /\ call' = [p \in Call |-> IF call[p].st = "claim" THEN [call[p] EXCEPT !.st = "lost"] ELSE call[p]]
  /\ UNCHANGED <<now, tokens>>

Tick == now' = now + 1 /\ UNCHANGED <<key, used, tokens, call>>

Next ==
  \/ \E tenant \in TenantArg, ttl \in TtlArg : Issue(tenant, ttl)
  \/ \E p \in Call : VerifyLocked(p) \/ \E i \in 1 .. Len(tokens) : Verify(p, i)
  \/ Restart
  \/ Tick

Spec == Init /\ [][Next]_vars

-----------------------------------------------------------------------------
(* "Verification is single-use": of all the calls that present a token,    *)
(* concurrent ones and ones after a restart included, one succeeds.        *)
(* Verify answers ErrTokenReplay only when another call has succeeded with *)
(* the token: no order of the calls uses a token up without enrolling.     *)
SingleUse ==
  \A p \in Call :
    /\ call[p].st = "ok" => \A q \in Call \ {p} : call[q].st = "ok" => call[p].jti # call[q].jti
    /\ call[p].st = "replay" => \E q \in Call : call[q].st = "ok" /\ call[q].jti = call[p].jti

(* Whatever the rounding of the dates, a token of this enroller passes the *)
(* check until less than a second of its lifetime is left, and never after.*)
ExpiryHonoured ==
  \A p \in Call : call[p].st # "idle" =>
    LET tok == tokens[call[p].jti] IN
    /\ call[p].st \in {"claim", "ok"} => call[p].at < tok.at + tok.ttl
    /\ (call[p].st = "invalid" /\ tok.key = key) => call[p].at > tok.at + tok.ttl - Second
=============================================================================
