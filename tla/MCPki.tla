-------------------------------- MODULE MCPki --------------------------------
(* The two halves of the certificate life cycle for TLC, with bounds on    *)
(* time and restarts: the controller's enroller and CA, and an agent's     *)
(* rotator.  They share no state, so neither half moves while the other    *)
(* does: side says which one this behaviour is about.                      *)
EXTENDS Enrollment, Rotator, TLC

CONSTANTS MaxTime, MaxRestarts, MaxClock

VARIABLE side

MCTtl == {0, 1}

MCTenant == {"acme", "globex", "Not A Label"}

MCLabel == {"acme", "globex"}

MCUuidOf(p) == p

MCPercent == {0, 50, 100}

(* The first token is of one tenant and the second of the other.           *)
TenantOfToken == <<"acme", "globex">>

Idle == \E p \in Call : call[p].st = "idle"

(* Tokens and the clock only matter to calls of Verify that have not begun,*)
(* and the steps behind Verify do not: they are taken when all have begun. *)
ControllerSide ==
  /\ EnrollNext /\ now' <= MaxTime /\ key' <= MaxRestarts
  /\ \A i \in DOMAIN tokens' : tokens'[i].tenant = TenantOfToken[i]
  /\ IF Idle THEN csr' = csr ELSE now' = now /\ tokens' = tokens
  /\ UNCHANGED rotatorVars

AgentSide == RotatorNext /\ clock' <= MaxClock /\ UNCHANGED enrollVars

MCInit == EnrollInit /\ RotatorInit /\ side \in {"controller", "agent"}

MCNext ==
  \/ side = "controller" /\ ControllerSide /\ UNCHANGED side
  \/ side = "agent" /\ AgentSide /\ UNCHANGED side

MCSpec == MCInit /\ [][MCNext]_<<enrollVars, rotatorVars, side>>

Symmetric == Permutations(Call)
=============================================================================
