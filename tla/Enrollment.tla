----------------------------- MODULE Enrollment -----------------------------
(***************************************************************************)
(* From a token to a certificate: what pkg/pki/integration_test.go does in *)
(* one thread, with several enrolments at once.  A call of Verify that     *)
(* succeeds goes on to a name of the token's tenant (identity.NewAgent), a *)
(* CSR for it (pki.NewCSR, or one the agent built differently) and CA.Sign.*)
(* The transport between agent and controller is external: a CSR may be    *)
(* damaged, and may reach the controller in another agent's place.         *)
(***************************************************************************)
EXTENDS Enroller

CONSTANT UuidOf(_)  \* the uuid.New() of a call

VARIABLES
  csr,   \* csr[p]: the request of the agent behind call p, once it made one
  certs  \* the certificates signed

enrollVars == <<vars, csr, certs>>

NoCsr == [uris |-> {}, sig |-> FALSE]

(* The name the controller expects of call p.                              *)
NameOf(p) == NewAgent(tokens[call[p].jti].tenant, UuidOf(p))

EnrollInit == Init /\ csr = [p \in Call |-> NoCsr] /\ certs = {}

NewCSR(name) == [uris |-> {String(name)}, sig |-> TRUE]

(* Other requests for the name: without a URI, in a text that only parses  *)
(* to the name, with a second URI, or damaged.                             *)
OtherCSR(name) ==
  {[uris |-> {}, sig |-> TRUE],
   [uris |-> {[String(name) EXCEPT !.path[2] = Braced(name.agentID)]}, sig |-> TRUE],
   [uris |-> {[String(name) EXCEPT !.query = "q"]}, sig |-> TRUE],
   [uris |-> {String(name), String(NewRelay(name.tenant, name.tenant))}, sig |-> TRUE],
   [uris |-> {String(name)}, sig |-> FALSE]}

MakeCSR(p) ==
  /\ call[p].st = "ok" /\ csr[p] = NoCsr
  /\ \E r \in {NewCSR(NameOf(p))} \cup OtherCSR(NameOf(p)) : csr' = [csr EXCEPT ![p] = r]
  /\ UNCHANGED <<vars, certs>>

(* A request with any URI will do.                                         *)
hasAny(uris, want) == uris # {}

hasURI(uris, want) == want \in uris

(* CA.Sign in the enrolment of p, given the request of q.  The certificate *)
(* is for the name expected and for the key of the request.                *)
Sign(p, q) ==
  LET name == NameOf(p) IN
  /\ call[p].st = "ok" /\ csr[q] # NoCsr
  /\ csr[q].sig /\ hasURI(csr[q].uris, String(name))
  /\ certs' = certs \cup {[uri |-> String(name), key |-> q, for |-> p]}
  /\ UNCHANGED <<vars, csr>>

EnrollNext ==
  \/ Next /\ UNCHANGED <<csr, certs>>
  \/ \E p \in Call : MakeCSR(p) \/ \E q \in Call : Sign(p, q)

EnrollSpec == EnrollInit /\ [][EnrollNext]_enrollVars

-----------------------------------------------------------------------------
(* Who shows a certificate holds the key of an agent that asked for just   *)
(* the name in it, in the one text String writes, and that agent has used  *)
(* up a token of the name's tenant.  A token never yields two names, and a *)
(* peer that parses the URI SAN reads the name that was signed.            *)
CertTraced ==
  \A c \in certs :
    LET n == parseURL(c.uri) IN
    /\ n = NameOf(c.for) /\ n.role = "agent"
    /\ n.tenant = tokens[call[c.for].jti].tenant
    /\ c.uri \in csr[c.key].uris /\ c.key = c.for
    /\ \A d \in certs : call[c.for].jti = call[d.for].jti => c.uri = d.uri
=============================================================================
