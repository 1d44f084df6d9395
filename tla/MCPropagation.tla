--------------------------- MODULE MCPropagation ---------------------------
(***************************************************************************)
(* A corner of network/builder.py with its trusts and hardenings: two      *)
(* workstations, their file server and the jump host with an application   *)
(* server behind it.                                                       *)
(***************************************************************************)
EXTENDS Propagation

MCHostOrder == <<"app", "file", "jump", "ws1", "ws2">>

MCTrust ==
  [app  |-> [app |-> 0, file |-> 0, jump |-> 35, ws1 |-> 0, ws2 |-> 0],
   file |-> [app |-> 0, file |-> 0, jump |-> 0, ws1 |-> 65, ws2 |-> 65],
   jump |-> [app |-> 35, file |-> 0, jump |-> 0, ws1 |-> 30, ws2 |-> 30],
   ws1  |-> [app |-> 0, file |-> 65, jump |-> 30, ws1 |-> 0, ws2 |-> 85],
   ws2  |-> [app |-> 0, file |-> 65, jump |-> 30, ws1 |-> 85, ws2 |-> 0]]

MCHostType ==
  [app |-> "app_server", file |-> "file_server", jump |-> "jump_host",
   ws1 |-> "workstation", ws2 |-> "workstation"]
MCHardening == [app |-> 40, file |-> 30, jump |-> 60, ws1 |-> 10, ws2 |-> 10]
MCPii       == {"file"}
=============================================================================
