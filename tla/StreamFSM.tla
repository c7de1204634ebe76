----------------------------- MODULE StreamFSM -----------------------------
(***************************************************************************)
(* lib/orp/stream.go: the table of the stream lifecycle.                   *)
(***************************************************************************)

StreamState == {"Init", "Opening", "Accepted", "Spliced", "Closing", "Closed"}

(* transition in which a spliced stream cannot be reset.                   *)
transitionSplicedStays ==
  {<<"Init", "Open", "Opening">>,
   <<"Opening", "Accept", "Accepted">>, <<"Opening", "Fin", "Closing">>,
   <<"Accepted", "Splice", "Spliced">>, <<"Accepted", "Fin", "Closing">>,
   <<"Spliced", "Fin", "Closing">>,
   <<"Closing", "Fin", "Closed">>}
  \cup {<<s, "Reset", "Closed">> : s \in StreamState \ {"Spliced"}}

(* The transitions, as <<state, event, next state>>.                       *)
transition ==
  {<<"Init", "Open", "Opening">>,
   <<"Opening", "Accept", "Accepted">>, <<"Opening", "Fin", "Closing">>,
   <<"Accepted", "Splice", "Spliced">>, <<"Accepted", "Fin", "Closing">>,
   <<"Spliced", "Fin", "Closing">>,
   <<"Closing", "Fin", "Closed">>}
  \cup {<<s, "Reset", "Closed">> : s \in StreamState}

Allowed(s, e) == \E t \in transition : t[1] = s /\ t[2] = e

(* Apply that closes the stream on an event out of order.                  *)
ApplyStrict(s, e) ==
  IF Allowed(s, e) THEN (CHOOSE t \in transition : t[1] = s /\ t[2] = e)[3] ELSE "Closed"

(* Apply leaves the state as it is when the transition is not allowed.     *)
Apply(s, e) ==
  IF Allowed(s, e) THEN (CHOOSE t \in transition : t[1] = s /\ t[2] = e)[3] ELSE s
=============================================================================
