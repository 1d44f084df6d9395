----------------------------- MODULE MCMonitors -----------------------------
\* One of the four monitors with at most four events: the smallest streams in
\* which a user fails twice, an address tries two users, three ports and none are
\* met, a file counts for two rules and files of two sensitivities for two keys,
\* and a command line is a pattern and a count.
\* Two failed logins by one user are alike, as are flows that differ in the port,
\* which is therefore named as its flow.
EXTENDS Monitors

CONSTANTS login1, login2, flow1, flow2, flow3, cmd2, cmd3   \* alike events

Logins   == {login1, login2, "login3"}
Flows    == {flow1, flow2, flow3, "flow4"}
Commands == {"cmd1", cmd2, cmd3}
Files    == {"file1", "file2", "file3"}
MCEvents == Logins \cup Flows \cup Commands \cup Files

MCReadBy ==
  [e \in MCEvents |-> IF e \in Logins THEN "identity" ELSE IF e \in Flows THEN "network"
                     ELSE IF e \in Commands THEN "endpoint" ELSE "data"]
MCTraits ==
  [e \in MCEvents |->
     CASE e \in Logins            -> {"failed_login"}
       [] e \in Flows \ {"flow4"} -> {"flow"}
       [] e = "flow4"             -> {"flow", "high_volume_transfer"}
       [] e \in {cmd2, cmd3}      -> {"encrypts"}
       [] e = "cmd1"              -> {"encrypts", "ransomware_activity"}
       [] e = "file1"             -> {"download", "sensitive"}
       [] e \in {"file2", "file3"} -> {"sensitive"}]
MCUser     == [e \in MCEvents |-> IF e = "login3" THEN "bob" ELSE "ann"]
MCSensitivity == [e \in MCEvents |-> IF e = "file2" THEN "confidential" ELSE "restricted"]
MCSource   == [e \in MCEvents |-> "host"]
MCPort     == [e \in MCEvents |-> IF e \in Flows \ {"flow4"} THEN e ELSE NoPort]

MCThreshold == [c \in Check |-> IF c = "ransomware_encryption" THEN 3 ELSE 2]
MCWindow    == [c \in Check |-> 2]

Alike == Permutations({login1, login2}) \cup Permutations({flow1, flow2, flow3})
           \cup Permutations({cmd2, cmd3})
=============================================================================
