--------------------------- MODULE MCReportServer ---------------------------
(***************************************************************************)
(* Three regenerate requests and the first run of the server, with reports *)
(* of different length, so that a shorter one may be written over a longer *)
(* one.                                                                    *)
(***************************************************************************)
EXTENDS ReportServer, TLC

CONSTANTS boot, small, medium, large

Chunks == (boot :> 2) @@ (small :> 1) @@ (medium :> 1) @@ (large :> 3)
LengthOf == [c \in Children |-> Chunks[c]]
=============================================================================
