---------------------------- MODULE MCTelemetry ----------------------------
(***************************************************************************)
(* A user over four ticks (users have no state in common), and a scenario  *)
(* with phases that overlap and one whose module does not exist.           *)
(***************************************************************************)
EXTENDS Telemetry

Phase(type, start, end) == [type |-> type, start |-> start, end |-> end]

MCPhases ==
  {Phase("credential_stuffing", 0, 0), Phase("ransomware", 1, 2),
   Phase("lateral_movement", 2, 3), Phase("wiper", 0, 3)}
=============================================================================
