--------------------------- MODULE AlertContract ---------------------------
(***************************************************************************)
(* What the alert path promises to those who raise alerts, however many    *)
(* topics, consumers, copies and replays there are on the way: an alert    *)
(* waits, and then it is reported for good, or a crash or a failed         *)
(* delivery takes it.  Only a crash, whose replay reaches further back,    *)
(* can bring it again.                                                     *)
(***************************************************************************)
EXTENDS Naturals

CONSTANTS Alerts

VARIABLES waiting, reported, lost, crashes, failures

vars == <<waiting, reported, lost, crashes, failures>>

Init ==
  /\ waiting = {} /\ reported = {} /\ lost = {}
  /\ crashes = 0 /\ failures = 0

Raise(a) ==
  /\ a \notin waiting \cup reported \cup lost
  /\ waiting' = waiting \cup {a}
  /\ UNCHANGED <<reported, lost, crashes, failures>>

Report(a) ==
  /\ a \in waiting
  /\ waiting' = waiting \ {a} /\ reported' = reported \cup {a}
  /\ UNCHANGED <<lost, crashes, failures>>

\* Alerts are lost, and found again, together with a process, never by themselves.
Crash ==
  /\ \E taken \in SUBSET waiting, found \in SUBSET lost :
        /\ waiting' = (waiting \ taken) \cup found
        /\ lost' = (lost \ found) \cup taken
  /\ crashes' = crashes + 1
  /\ UNCHANGED <<reported, failures>>

\* A failed delivery takes at most one alert, and brings none back.
Fail(a) ==
  /\ \E taken \in SUBSET (waiting \cap {a}) :
        waiting' = waiting \ taken /\ lost' = lost \cup taken
  /\ failures' = failures + 1
  /\ UNCHANGED <<reported, crashes>>

Next == Crash \/ \E a \in Alerts : Raise(a) \/ Report(a) \/ Fail(a)

\* No alert waits for ever.
Settles == \A a \in Alerts : a \in waiting ~> a \notin waiting

Spec == Init /\ [][Next]_vars /\ Settles
=============================================================================
