--------------------------- MODULE EnrollerProofs ---------------------------
(***************************************************************************)
(* Enrollment tokens are single-use and their dates are honoured, for any  *)
(* number of calls, tokens and restarts and any resolution of the dates.   *)
(***************************************************************************)
EXTENDS Enroller, TLAPS

(* What jwt.NewNumericDate does to a time: it goes back by less than a     *)
(* second.                                                                 *)
LEMMA NumericDateRounds ==
  ASSUME NEW t \in Int
  PROVE  /\ NumericDate(t) \in Int
         /\ NumericDate(t) <= t
         /\ t < NumericDate(t) + Second
PROOF
  <1>1. Second \in Nat \ {0}
    BY EnrollerAssumption
  <1>2. t \div Second \in Int /\ t % Second \in 0 .. Second - 1
    BY <1>1
  <1>3. t = Second * (t \div Second) + (t % Second)
    BY <1>1
  <1>4. (t \div Second) * Second = Second * (t \div Second)
    BY <1>1, <1>2
  <1> QED
    BY <1>1, <1>2, <1>3, <1>4 DEF NumericDate

Tok == [key : Nat, tenant : Label, at : Int, ttl : Int, nbf : Int, exp : Int]

CallRecord ==
  [st : {"idle"}] \cup [st : {"claim", "ok", "replay", "invalid", "lost"}, jti : Nat, at : Int]

Shape ==
  /\ now \in Int
  /\ key \in Nat
  /\ tokens \in Seq(Tok)
  /\ call \in [Call -> CallRecord]
  /\ \A p \in Call : call[p].st # "idle" => call[p].jti \in 1 .. Len(tokens)

(* The dates of a token lie within a second of those meant, and its key is *)
(* not one of a later enroller.                                            *)
Dated(tok) ==
  /\ tok.key <= key
  /\ tok.nbf <= tok.at /\ tok.at <= now
  /\ tok.exp <= tok.at + tok.ttl /\ tok.at + tok.ttl < tok.exp + Second

TokensDated == \A i \in 1 .. Len(tokens) : Dated(tokens[i])

(* A call past the check has a token of the present key, a success with    *)
(* such a token is on record, and the record holds only successes.         *)
Recorded ==
  /\ \A p \in Call : call[p].st = "claim" => tokens[call[p].jti].key = key
  /\ \A p \in Call : (call[p].st = "ok" /\ tokens[call[p].jti].key = key) => call[p].jti \in used
  /\ \A j \in used : \E q \in Call : call[q].st = "ok" /\ call[q].jti = j

(* A refused token is of an earlier key, which never comes back, or is out *)
(* of date.                                                                *)
Refused ==
  \A p \in Call : call[p].st = "invalid" =>
    \/ tokens[call[p].jti].key < key
    \/ call[p].at > tokens[call[p].jti].at + tokens[call[p].jti].ttl - Second

Passed ==
  \A p \in Call : call[p].st \in {"claim", "ok"} =>
    call[p].at < tokens[call[p].jti].at + tokens[call[p].jti].ttl

EnrollerInv == Shape /\ TokensDated /\ Recorded /\ Refused /\ Passed /\ SingleUse

(* The claims of an issued token have their types.                         *)
LEMMA TokenFields ==
  ASSUME NEW tok \in Tok
  PROVE  /\ tok.key \in Nat /\ tok.tenant \in Label
         /\ tok.at \in Int /\ tok.ttl \in Int /\ tok.nbf \in Int /\ tok.exp \in Int
PROOF
  BY DEF Tok

(* The tokens Issue has returned are tokens.                               *)
LEMMA TokensIssued ==
  ASSUME Shape
  PROVE  \A i \in 1 .. Len(tokens) : tokens[i] \in Tok
PROOF
  <1>1. tokens \in Seq(Tok)
    BY DEF Shape
  <1> QED
    BY <1>1

(* NewEnroller, before any call, satisfies the invariant.                  *)
LEMMA EnrollerInitially == Init => EnrollerInv
PROOF
  <1> SUFFICES ASSUME Init PROVE EnrollerInv
    OBVIOUS
  <1>1. Shape
    <2>1. tokens \in Seq(Tok) /\ Len(tokens) = 0
      BY DEF Init
    <2>2. call \in [Call -> CallRecord] /\ \A p \in Call : call[p].st = "idle"
      BY DEF Init, CallRecord
    <2> QED
      BY <2>1, <2>2, EnrollerAssumption DEF Init, Shape
  <1>2. \A p \in Call : call[p].st = "idle"
    BY DEF Init
  <1> QED
    BY <1>1, <1>2 DEF Init, EnrollerInv, TokensDated, Recorded, Refused, Passed, SingleUse

(* A new token has its dates right and leaves the calls and the older      *)
(* tokens as they were (Issue).                                            *)
LEMMA IssueKeeps ==
  ASSUME EnrollerInv, NEW tenant \in TenantArg, NEW ttl \in TtlArg, Issue(tenant, ttl)
  PROVE  EnrollerInv'
PROOF
  <1> DEFINE life == IF ttl <= 0 THEN DefaultTtl ELSE ttl
             new == [key |-> key, tenant |-> tenant, at |-> now, ttl |-> life,
                     nbf |-> NumericDate(now - Second), exp |-> NumericDate(now + life)]
  <1>1. life \in Int /\ Second \in Nat \ {0} /\ now \in Int /\ key \in Nat
    BY EnrollerAssumption DEF EnrollerInv, Shape
  <1>2. /\ tokens' = Append(tokens, new)
        /\ tenant \in Label
        /\ UNCHANGED <<now, key, used, call>>
    BY DEF Issue, IsValidTenant
  <1>3. new \in Tok /\ Dated(new)
    <2> HIDE DEF life
    <2>1. NumericDate(now - Second) \in Int /\ NumericDate(now - Second) <= now - Second
      BY <1>1, NumericDateRounds
    <2>2. /\ NumericDate(now + life) \in Int /\ NumericDate(now + life) <= now + life
          /\ now + life < NumericDate(now + life) + Second
      BY <1>1, NumericDateRounds
    <2> QED
      BY <1>1, <1>2, <2>1, <2>2, SMTT(60) DEF Tok, Dated
  <1> HIDE DEF new
  <1>4. /\ tokens \in Seq(Tok) /\ tokens' \in Seq(Tok)
        /\ Len(tokens') = Len(tokens) + 1
        /\ \A i \in 1 .. Len(tokens) : tokens'[i] = tokens[i]
        /\ tokens'[Len(tokens) + 1] = new
    BY <1>2, <1>3 DEF EnrollerInv, Shape
  <1>5. \A p \in Call : call[p].st # "idle" => tokens'[call[p].jti] = tokens[call[p].jti]
    BY <1>4 DEF EnrollerInv, Shape
  <1>6. Shape'
    BY <1>2, <1>4 DEF EnrollerInv, Shape
  <1>7. TokensDated'
    BY <1>2, <1>3, <1>4 DEF EnrollerInv, TokensDated, Dated
  <1>8. Recorded' /\ Refused' /\ Passed'
    <2>1. \A p \in Call : call'[p] = call[p]
      BY <1>2
    <2>2. Recorded'
      <3>1. \A p \in Call : call[p].st = "claim" => tokens'[call[p].jti].key = key
        BY <1>5 DEF EnrollerInv, Recorded
      <3>2. \A p \in Call :
              (call[p].st = "ok" /\ tokens'[call[p].jti].key = key) => call[p].jti \in used
        BY <1>5 DEF EnrollerInv, Recorded
      <3>3. \A j \in used : \E q \in Call : call[q].st = "ok" /\ call[q].jti = j
        BY DEF EnrollerInv, Recorded
      <3> QED
        BY <1>2, <3>1, <3>2, <3>3, Zenon DEF Recorded
    <2>3. Refused'
      BY <1>2, <1>5, <2>1, Zenon DEF EnrollerInv, Refused
    <2>4. Passed'
      BY <1>2, <1>5, <2>1, Zenon DEF EnrollerInv, Passed
    <2> QED
      BY <2>2, <2>3, <2>4
  <1>9. SingleUse'
    BY <1>2 DEF EnrollerInv, SingleUse
  <1> QED
    BY <1>6, <1>7, <1>8, <1>9 DEF EnrollerInv

(* A call that is refused or passes the check, the tokens and the record   *)
(* being left alone (Verify up to the lock).                               *)
LEMMA VerifyKeeps ==
  ASSUME EnrollerInv, NEW p \in Call, NEW i \in 1 .. Len(tokens), Verify(p, i)
  PROVE  EnrollerInv'
PROOF
  <1> DEFINE outcome == IF Valid(tokens[i]) THEN "claim" ELSE "invalid"
             new == [st |-> outcome, jti |-> i, at |-> now]
  <1>1. /\ call[p].st = "idle"
        /\ call' = [call EXCEPT ![p] = new]
        /\ UNCHANGED <<now, key, used, tokens>>
    BY DEF Verify
  <1>2. /\ now \in Int /\ key \in Nat /\ tokens \in Seq(Tok) /\ call \in [Call -> CallRecord]
        /\ tokens[i] \in Tok /\ Dated(tokens[i])
    BY DEF EnrollerInv, Shape, TokensDated
  <1>3. new.st \in {"claim", "invalid"} /\ new.jti = i /\ new.at = now
    OBVIOUS
  <1>4. new \in CallRecord
    BY <1>2, <1>3 DEF CallRecord
  <1>5. new.st = "claim" => tokens[i].key = key /\ now < tokens[i].at + tokens[i].ttl
    <2>1. new.st = "claim" => Valid(tokens[i])
      OBVIOUS
    <2>2. Valid(tokens[i]) => tokens[i].key = key /\ now < tokens[i].exp
      BY Zenon DEF Valid
    <2>3. tokens[i].exp <= tokens[i].at + tokens[i].ttl
      BY <1>2, Zenon DEF Dated
    <2>4. tokens[i].exp \in Int /\ tokens[i].at \in Int /\ tokens[i].ttl \in Int
      BY <1>2, TokenFields, Zenon
    <2> HIDE DEF new
    <2> QED
      BY <1>2, <2>1, <2>2, <2>3, <2>4
  <1>6. new.st = "invalid" => tokens[i].key < key \/ now > tokens[i].at + tokens[i].ttl - Second
    <2>1. Second \in Nat \ {0}
      BY EnrollerAssumption
    <2>2. tokens[i].tenant \in Label /\ tokens[i].nbf <= now
      <3>1. tokens[i].nbf <= tokens[i].at /\ tokens[i].at <= now
        BY <1>2 DEF Dated
      <3> QED
        BY <1>2, <3>1, TokenFields
    <2>3. new.st = "invalid" => tokens[i].key # key \/ now >= tokens[i].exp
      BY <1>2, <2>2 DEF Valid, IsValidTenant, Tok
    <2>4. tokens[i].key <= key /\ tokens[i].at + tokens[i].ttl < tokens[i].exp + Second
      BY <1>2 DEF Dated
    <2>5. /\ tokens[i].key \in Int /\ tokens[i].exp \in Int
          /\ tokens[i].at \in Int /\ tokens[i].ttl \in Int
      BY <1>2, TokenFields
    <2> HIDE DEF new
    <2> QED
      BY <1>2, <2>1, <2>3, <2>4, <2>5, SMTT(60)
  <1> HIDE DEF new
  <1>7. /\ call' \in [Call -> CallRecord]
        /\ call'[p] = new
        /\ \A q \in Call : q # p => call'[q] = call[q]
    BY <1>1, <1>2, <1>4
  <1>8. Shape'
    BY <1>1, <1>3, <1>7 DEF EnrollerInv, Shape
  <1>9. TokensDated'
    BY <1>1 DEF EnrollerInv, TokensDated, Dated
  <1>10. Recorded'
    <2>1. \A q \in Call : call'[q].st = "claim" => tokens[call'[q].jti].key = key
      BY <1>3, <1>5, <1>7 DEF EnrollerInv, Recorded
    <2>2. \A q \in Call :
            (call'[q].st = "ok" /\ tokens[call'[q].jti].key = key) => call'[q].jti \in used
      BY <1>3, <1>7 DEF EnrollerInv, Recorded
    <2>3. \A j \in used : \E q \in Call : call'[q].st = "ok" /\ call'[q].jti = j
      <3> SUFFICES ASSUME NEW j \in used PROVE \E q \in Call : call'[q].st = "ok" /\ call'[q].jti = j
        OBVIOUS
      <3>1. PICK q \in Call : call[q].st = "ok" /\ call[q].jti = j
        BY DEF EnrollerInv, Recorded
      <3>2. q # p
        BY <1>1, <3>1
      <3> QED
        BY <1>7, <3>1, <3>2
    <2> QED
      BY <1>1, <2>1, <2>2, <2>3 DEF Recorded
  <1>11. Refused'
    BY <1>1, <1>3, <1>6, <1>7 DEF EnrollerInv, Refused
  <1>12. Passed'
    BY <1>1, <1>3, <1>5, <1>7 DEF EnrollerInv, Passed
  <1>13. SingleUse'
    <2>1. \A q \in Call : call'[q].st \in {"ok", "replay"} => q # p /\ call'[q] = call[q]
      BY <1>3, <1>7
    <2>2. \A q \in Call : call[q].st = "ok" => call'[q] = call[q]
      BY <1>1, <1>7
    <2> QED
      BY <2>1, <2>2 DEF EnrollerInv, SingleUse
  <1> QED
    BY <1>8, <1>9, <1>10, <1>11, <1>12, <1>13 DEF EnrollerInv

(* Under the lock a token that is not on record is accepted and recorded,  *)
(* one that is on record is refused as a replay (Verify under the lock).   *)
LEMMA VerifyLockedKeeps ==
  ASSUME EnrollerInv, NEW p \in Call, VerifyLocked(p)
  PROVE  EnrollerInv'
PROOF
  <1> DEFINE j == call[p].jti
             new == [call[p] EXCEPT !.st = IF j \in used THEN "replay" ELSE "ok"]
  <1>1. /\ call[p].st = "claim"
        /\ call' = [call EXCEPT ![p] = new]
        /\ used' = used \cup {j}
        /\ UNCHANGED <<now, key, tokens>>
    BY DEF VerifyLocked
  <1>2. /\ call \in [Call -> CallRecord]
        /\ call[p] \in [st : {"claim", "ok", "replay", "invalid", "lost"}, jti : Nat, at : Int]
        /\ j \in 1 .. Len(tokens)
    BY <1>1 DEF EnrollerInv, Shape, CallRecord
  <1>3. /\ new.st = IF j \in used THEN "replay" ELSE "ok"
        /\ new.jti = j /\ new.at = call[p].at
        /\ new \in CallRecord
    BY <1>2 DEF CallRecord
  <1> HIDE DEF new
  <1>4. /\ call' \in [Call -> CallRecord]
        /\ call'[p] = new
        /\ \A q \in Call : q # p => call'[q] = call[q]
    BY <1>1, <1>2, <1>3
  <1>5. \A q \in Call : call[q].st = "ok" => q # p /\ call'[q] = call[q]
    BY <1>1, <1>4
  <1>6. Shape'
    BY <1>1, <1>2, <1>3, <1>4 DEF EnrollerInv, Shape
  <1>7. TokensDated'
    BY <1>1, Zenon DEF EnrollerInv, TokensDated, Dated
  <1>8. Recorded'
    <2>1. \A q \in Call : call'[q].st = "claim" => tokens[call'[q].jti].key = key
      BY <1>3, <1>4 DEF EnrollerInv, Recorded
    <2>2. \A q \in Call :
            (call'[q].st = "ok" /\ tokens[call'[q].jti].key = key) => call'[q].jti \in used \cup {j}
      BY <1>3, <1>4 DEF EnrollerInv, Recorded
    <2>3. \A k \in used \cup {j} : \E q \in Call : call'[q].st = "ok" /\ call'[q].jti = k
      <3> SUFFICES ASSUME NEW k \in used \cup {j} PROVE \E q \in Call : call'[q].st = "ok" /\ call'[q].jti = k
        OBVIOUS
      <3>1. CASE k \in used
        <4>1. PICK q \in Call : call[q].st = "ok" /\ call[q].jti = k
          BY <3>1 DEF EnrollerInv, Recorded
        <4> QED
          BY <1>5, <4>1
      <3>2. CASE k \notin used
        <4>1. k = j /\ new.st = "ok"
          BY <1>3, <3>2, Zenon
        <4> QED
          BY <1>3, <1>4, <4>1
      <3> QED
        BY <3>1, <3>2
    <2> QED
      BY <1>1, <2>1, <2>2, <2>3 DEF Recorded
  <1>9. Refused'
    BY <1>1, <1>3, <1>4, Zenon DEF EnrollerInv, Refused
  <1>10. Passed'
    BY <1>1, <1>3, <1>4 DEF EnrollerInv, Passed
  <1>11. SingleUse'
    <2>1. new.st = "ok" => \A q \in Call : call[q].st = "ok" => call[q].jti # j
      <3>1. tokens[j].key = key
        BY <1>1 DEF EnrollerInv, Recorded
      <3> QED
        BY <1>3, <3>1 DEF EnrollerInv, Recorded
    <2>2. new.st = "replay" => \E q \in Call : call'[q].st = "ok" /\ call'[q].jti = j
      <3> SUFFICES ASSUME new.st = "replay" PROVE \E q \in Call : call'[q].st = "ok" /\ call'[q].jti = j
        OBVIOUS
      <3>1. PICK q \in Call : call[q].st = "ok" /\ call[q].jti = j
        BY <1>3 DEF EnrollerInv, Recorded
      <3> QED
        BY <1>5, <3>1
    <2>3. \A q \in Call \ {p} : call'[q].st = "replay" =>
            \E r \in Call : call'[r].st = "ok" /\ call'[r].jti = call'[q].jti
      BY <1>4, <1>5 DEF EnrollerInv, SingleUse
    <2>4. \A q, r \in Call \ {p} : (q # r /\ call'[q].st = "ok" /\ call'[r].st = "ok") => call'[q].jti # call'[r].jti
      BY <1>4 DEF EnrollerInv, SingleUse
    <2> QED
      BY <1>3, <1>4, <2>1, <2>2, <2>3, <2>4, SMTT(60) DEF SingleUse
  <1> QED
    BY <1>6, <1>7, <1>8, <1>9, <1>10, <1>11 DEF EnrollerInv

(* A restart begins a new key and an empty record: what was accepted under *)
(* the old key can no longer be presented (NewEnroller).                   *)
LEMMA RestartKeeps ==
  ASSUME EnrollerInv, Restart
  PROVE  EnrollerInv'
PROOF
  <1>1. /\ key' = key + 1 /\ key \in Nat /\ used' = {} /\ UNCHANGED <<now, tokens>>
        /\ tokens \in Seq(Tok) /\ now \in Int /\ call \in [Call -> CallRecord]
    BY DEF EnrollerInv, Shape, Restart
  <1>2. call' \in [Call -> CallRecord]
    BY <1>1, SMTT(60) DEF Restart, CallRecord
  <1>3. \A p \in Call : call[p].st # "claim" => call'[p] = call[p]
    BY DEF Restart
  <1>4. \A p \in Call : call[p].st = "claim" =>
          /\ call'[p].st = "lost"
          /\ call'[p].jti = call[p].jti
    BY <1>1 DEF Restart, CallRecord
  <1>5. \A i \in 1 .. Len(tokens) : tokens[i].key \in Nat /\ tokens[i].key <= key
    BY TokensIssued, TokenFields DEF EnrollerInv, TokensDated, Dated
  <1>6. \A p \in Call : call'[p].st # "claim" /\ (call'[p].st # "lost" => call'[p] = call[p])
    BY <1>3, <1>4
  <1>7. Shape'
    BY <1>1, <1>2, <1>3, <1>4 DEF EnrollerInv, Shape
  <1>8. TokensDated'
    BY <1>1, <1>5 DEF EnrollerInv, TokensDated, Dated
  <1>9. Recorded'
    <2>1. \A p \in Call : call'[p].st = "ok" => tokens[call'[p].jti].key # key + 1
      BY <1>1, <1>5, <1>6, SMTT(60) DEF EnrollerInv, Shape
    <2> QED
      BY <1>1, <1>6, <2>1 DEF Recorded
  <1>10. Refused'
    <2>1. \A p \in Call : call'[p].st = "invalid" => tokens[call'[p].jti].key < key + 1
      BY <1>1, <1>5, <1>6, SMTT(60) DEF EnrollerInv, Shape
    <2> QED
      BY <1>1, <2>1 DEF Refused
  <1>11. Passed'
    BY <1>1, <1>6 DEF EnrollerInv, Passed
  <1>12. SingleUse'
    <2>1. \A p \in Call : call'[p].st \in {"ok", "replay"} => call'[p] = call[p]
      BY <1>6
    <2>2. \A p \in Call : call[p].st = "ok" => call'[p] = call[p]
      BY <1>3
    <2> QED
      BY <2>1, <2>2 DEF EnrollerInv, SingleUse
  <1> QED
    BY <1>7, <1>8, <1>9, <1>10, <1>11, <1>12 DEF EnrollerInv

(* The clock moves on and nothing else does.                               *)
LEMMA TickKeeps ==
  ASSUME EnrollerInv, Tick
  PROVE  EnrollerInv'
PROOF
  <1>1. now \in Int /\ now' = now + 1 /\ UNCHANGED <<key, used, tokens, call>>
    BY DEF EnrollerInv, Shape, Tick
  <1>2. Shape'
    BY <1>1 DEF EnrollerInv, Shape
  <1>3. TokensDated'
    <2>1. \A i \in 1 .. Len(tokens) : tokens[i].at \in Int
      BY TokensIssued, TokenFields, Zenon DEF EnrollerInv
    <2> QED
      BY <1>1, <2>1 DEF EnrollerInv, TokensDated, Dated
  <1>4. Recorded' /\ SingleUse'
    BY <1>1, ZenonT(60) DEF EnrollerInv, Recorded, SingleUse
  <1>5. Refused' /\ Passed'
    BY <1>1 DEF EnrollerInv, Refused, Passed
  <1> QED
    BY <1>2, <1>3, <1>4, <1>5 DEF EnrollerInv

(* The inductive invariant: Issue, Verify, the lock, a restart and the     *)
(* clock all keep it.                                                      *)
THEOREM EnrollerInvariant == Spec => []EnrollerInv
PROOF
  <1>1. EnrollerInv /\ [Next]_vars => EnrollerInv'
    <2> SUFFICES ASSUME EnrollerInv, [Next]_vars PROVE EnrollerInv'
      OBVIOUS
    <2>1. ASSUME NEW tenant \in TenantArg, NEW ttl \in TtlArg, Issue(tenant, ttl) PROVE EnrollerInv'
      BY <2>1, IssueKeeps
    <2>2. ASSUME NEW p \in Call, VerifyLocked(p) PROVE EnrollerInv'
      BY <2>2, VerifyLockedKeeps
    <2>3. ASSUME NEW p \in Call, NEW i \in 1 .. Len(tokens), Verify(p, i) PROVE EnrollerInv'
      BY <2>3, VerifyKeeps
    <2>4. CASE Restart
      BY <2>4, RestartKeeps
    <2>5. CASE Tick
      BY <2>5, TickKeeps, Zenon
    <2>6. CASE UNCHANGED vars
      BY <2>6 DEF vars, EnrollerInv, Shape, TokensDated, Dated, Recorded, Refused, Passed, SingleUse
    <2> QED
      BY <2>1, <2>2, <2>3, <2>4, <2>5, <2>6 DEF Next
  <1> QED
    BY EnrollerInitially, <1>1, PTL DEF Spec

(* "Verification is single-use": of all the calls that present a token,    *)
(* however they interleave with each other and with restarts, at most one  *)
(* succeeds, and a replay is reported only when one has.                   *)
THEOREM EnrollerSingleUse == Spec => []SingleUse
PROOF
  <1>1. EnrollerInv => SingleUse
    BY Zenon DEF EnrollerInv
  <1> QED
    BY <1>1, EnrollerInvariant, PTL

(* A token passes the check of Verify until less than a second of its      *)
(* lifetime is left and never after, whatever the resolution of the dates. *)
THEOREM EnrollerExpiryHonoured == Spec => []ExpiryHonoured
PROOF
  <1>1. EnrollerInv => ExpiryHonoured
    <2> SUFFICES ASSUME EnrollerInv, NEW p \in Call, call[p].st # "idle"
                 PROVE  LET tok == tokens[call[p].jti] IN
                        /\ call[p].st \in {"claim", "ok"} => call[p].at < tok.at + tok.ttl
                        /\ (call[p].st = "invalid" /\ tok.key = key) => call[p].at > tok.at + tok.ttl - Second
      BY DEF ExpiryHonoured
    <2>1. call[p].st \in {"claim", "ok"} => call[p].at < tokens[call[p].jti].at + tokens[call[p].jti].ttl
      BY DEF EnrollerInv, Passed
    <2>2. ~(key < key)
      BY SMTT(60) DEF EnrollerInv, Shape
    <2>3. (call[p].st = "invalid" /\ tokens[call[p].jti].key = key) =>
            call[p].at > tokens[call[p].jti].at + tokens[call[p].jti].ttl - Second
      BY <2>2 DEF EnrollerInv, Refused
    <2> QED
      BY <2>1, <2>3, Zenon
  <1> QED
    BY <1>1, EnrollerInvariant, PTL
=============================================================================
