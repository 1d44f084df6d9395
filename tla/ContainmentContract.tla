------------------------ MODULE ContainmentContract ------------------------
(***************************************************************************)
(* What a containment decision promises to whoever executes it, whatever   *)
(* the agents argue and however the solver ends: an agreement on a set of  *)
(* candidates, then a commitment to a plan inside it.                      *)
(***************************************************************************)
CONSTANTS Hosts

VARIABLES
  known,       \* hosts with hard evidence of infection
  guarded,     \* hosts whose isolation the veto holder may forbid
  stage,       \* "ARGUING", "AGREED" or "COMMITTED"
  candidates,  \* what the agents agreed to submit to the solver
  plan         \* the isolation set handed to the responders

vars == <<known, guarded, stage, candidates, plan>>

Init ==
  /\ known \in SUBSET Hosts
  /\ guarded \in SUBSET (Hosts \ known)
  /\ stage = "ARGUING"
  /\ candidates = {}
  /\ plan = {}

\* Every known host is submitted and no guarded one is.
Agree ==
  /\ stage = "ARGUING"
  /\ stage' = "AGREED"
  /\ candidates' \in SUBSET (Hosts \ guarded)
  /\ known \subseteq candidates'
  /\ UNCHANGED <<known, guarded, plan>>

\* The plan isolates every known host and nothing that was not agreed.
Commit ==
  /\ stage = "AGREED"
  /\ stage' = "COMMITTED"
  /\ plan' \in SUBSET candidates
  /\ known \subseteq plan'
  /\ UNCHANGED <<known, guarded, candidates>>

Next == Agree \/ Commit

Spec == Init /\ [][Next]_vars /\ WF_vars(Next)
=============================================================================
