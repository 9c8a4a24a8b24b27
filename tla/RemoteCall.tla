------------------------------- MODULE RemoteCall -------------------------------
(* What the TraCI client promises its callers: a method is a call carried out by SUMO  *)
(* once, between its invocation and its return, and it returns what SUMO made of that  *)
(* call and of no other. If SUMO or the connection goes, a call may be lost instead.   *)
EXTENDS Naturals

VARIABLES phase, verdict, outcome

rcVars == <<phase, verdict, outcome>>

Verdicts == {"ok", "refused"}

RCInit ==
  /\ phase = "idle"
  /\ verdict = "none"
  /\ outcome = "none"

Call ==
  /\ phase = "idle"
  /\ phase' = "called"
  /\ verdict' = "none"
  /\ outcome' = "none"

\* A request that cannot be written is never sent.
Reject ==
  /\ phase = "idle"
  /\ outcome' = "rejected"
  /\ verdict' = "none"
  /\ UNCHANGED phase

CarryOut ==
  /\ phase = "called"
  /\ phase' = "carriedOut"
  /\ verdict' \in Verdicts
  /\ UNCHANGED outcome

Return ==
  /\ phase = "carriedOut"
  /\ phase' = "idle"
  /\ outcome' = verdict
  /\ UNCHANGED verdict

Lose ==
  /\ phase \in {"called", "carriedOut"}
  /\ phase' = "idle"
  /\ outcome' = "lost"
  /\ UNCHANGED verdict

RCNext == Call \/ Reject \/ CarryOut \/ Return \/ Lose

RCSpec == RCInit /\ [][RCNext]_rcVars

=================================================================================
