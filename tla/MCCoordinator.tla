--------------------------- MODULE MCCoordinator ---------------------------
(***************************************************************************)
(* An SQL injection and a path traversal come from two addresses with the  *)
(* same attack class, and fall in or out of its window depending on the    *)
(* order they arrive in.  The other three are one user's: a login burst, a *)
(* scan from its address and a file access.                                *)
(***************************************************************************)
EXTENDS Coordinator, TLC

CONSTANTS sqli, traversal, burst, scan, access

MCTime   == (sqli :> 800) @@ (traversal :> 1000)
            @@ (burst :> 1000) @@ (scan :> 600) @@ (access :> 1100)
MCIp     == (sqli :> "10.0.0.7") @@ (traversal :> "10.0.0.8")
            @@ (burst :> "10.0.0.9") @@ (scan :> "10.0.0.9") @@ (access :> Nobody)
MCUser   == (sqli :> Nobody) @@ (traversal :> Nobody)
            @@ (burst :> "ann") @@ (scan :> Nobody) @@ (access :> "ann")
MCClass  == (sqli :> "http_exploitation") @@ (traversal :> "http_exploitation")
            @@ (burst :> "credential_theft") @@ (scan :> "reconnaissance")
            @@ (access :> "insider_threat")

MCSource == (sqli :> "network") @@ (traversal :> "network")
            @@ (burst :> "identity") @@ (scan :> "network") @@ (access :> "data")

Of(f) == [a \in Alerts |-> f[a]]

TimeOf  == Of(MCTime)
IpOf    == Of(MCIp)
UserOf  == Of(MCUser)
ClassOf == Of(MCClass)
SourceOf   == Of(MCSource)
MonitorsOf == {SourceOf[a] : a \in Alerts}
=============================================================================
