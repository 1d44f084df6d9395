--------------------------- MODULE MCNegotiation ---------------------------
(***************************************************************************)
(* Seven hosts in the shape of network/builder.py: a workstation, two file *)
(* servers, the jump host, an application server, a database and a domain  *)
(* controller.  Payments (gold) needs app and db, identity (gold) dc, the  *)
(* silver drive both file servers, and no path trust sits exactly on a     *)
(* threshold.  Each host has three observations, with the ML layer on for  *)
(* all hosts or off for all.                                               *)
(***************************************************************************)
EXTENDS Timeline

MCHostOrder    == <<"app", "db", "dc", "file1", "file2", "jump", "ws">>
MCServiceOrder == <<"admin", "drive", "identity", "index", "partner", "payments">>

MCHostType ==
  [app |-> "app_server", db |-> "db_server", dc |-> "domain_controller",
   file1 |-> "file_server", file2 |-> "file_server", jump |-> "jump_host",
   ws |-> "workstation"]

MCTrust ==
  [app |-> [app |-> 0, db |-> 60, dc |-> 0, file1 |-> 0, file2 |-> 0, jump |-> 70, ws |-> 0],
   db |-> [app |-> 60, db |-> 0, dc |-> 0, file1 |-> 0, file2 |-> 0, jump |-> 70, ws |-> 0],
   dc |-> [app |-> 0, db |-> 0, dc |-> 0, file1 |-> 0, file2 |-> 0, jump |-> 60, ws |-> 0],
   file1 |-> [app |-> 0, db |-> 0, dc |-> 0, file1 |-> 0, file2 |-> 60, jump |-> 0, ws |-> 35],
   file2 |-> [app |-> 0, db |-> 0, dc |-> 0, file1 |-> 60, file2 |-> 0, jump |-> 0, ws |-> 0],
   jump |-> [app |-> 70, db |-> 70, dc |-> 60, file1 |-> 0, file2 |-> 0, jump |-> 0, ws |-> 70],
   ws |-> [app |-> 0, db |-> 0, dc |-> 0, file1 |-> 35, file2 |-> 0, jump |-> 70, ws |-> 0]]

MCPii     == {"file1", "file2", "db", "dc"}
MCCentral == {"jump", "ws", "file1"}
MCCriticality ==
  [app |-> 4, db |-> 5, dc |-> 5, file1 |-> 3, file2 |-> 3, jump |-> 4, ws |-> 2]

MCDeps ==
  [admin |-> {"jump"}, drive |-> {"file1", "file2"}, identity |-> {"dc"},
   index |-> {"jump"}, partner |-> {"app"}, payments |-> {"app", "db"}]

MCRevenue ==
  [admin |-> 30, drive |-> 3000, identity |-> 2000, index |-> 50,
   partner |-> 900, payments |-> 5000]

MCSla ==
  [admin |-> "bronze", drive |-> "silver", identity |-> "gold",
   index |-> "bronze", partner |-> "silver", payments |-> "gold"]

\* What the sensors and the model may say of each host.  Alerts come at full
\* strength but for a beacon and a volume anomaly.
Weak    == AlertItem("c2_beacon", 90)
Trickle == AlertItem("data_exfil_volume", 50)

Saw(items, r) == [evidence |-> items \cup MlItems(r), risk |-> r]
At(types)     == {AlertItem(t, 100) : t \in types}

Observations(h) ==
  {Saw({}, 40)} \cup
  CASE h = "ws"    -> {Saw(At({"edr_malicious_process"}), 99), Saw({Weak}, 40)}
    [] h = "jump"  -> {Saw(At({"auth_anomaly"}), 92),
                       Saw(At({"auth_anomaly", "lateral_connection"}), 40)}
    [] h = "app"   -> {Saw(At({"edr_malicious_process"}), 40), Saw({}, 99)}
    [] h = "file1" -> {Saw(At({"data_exfil_volume"}), 92), Saw(At({"ransomware_canary"}), 95)}
    [] h = "file2" -> {Saw({}, 99), Saw({Trickle}, 40)}
    [] h = "db"    -> {Saw({Weak}, 95), Saw(At({"credential_dump"}), 95)}
    [] h = "dc"    -> {Saw(At({"auth_anomaly"}), 95),
                       Saw(At({"auth_anomaly", "lateral_connection", "data_exfil_volume"}), 40)}

WithoutMl(a) ==
  [evidence |-> {e \in a.evidence : e.type # "ml_anomaly"}, risk |-> NoRisk]

MCAssessments ==
  LET scored == {[app |-> app, db |-> db, dc |-> dc, file1 |-> file1,
                  file2 |-> file2, jump |-> jump, ws |-> ws] :
                    app \in Observations("app"), db \in Observations("db"),
                    dc \in Observations("dc"), file1 \in Observations("file1"),
                    file2 \in Observations("file2"), jump \in Observations("jump"),
                    ws \in Observations("ws")}
  IN  scored \cup {[h \in Hosts |-> WithoutMl(f[h])] : f \in scored}
=============================================================================
