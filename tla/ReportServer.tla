---------------------------- MODULE ReportServer ----------------------------
(***************************************************************************)
(* serve.py and the run_demo.py processes it starts.  The server makes     *)
(* sure of a report before it comes up, then answers each request on a     *)
(* thread of its own; every regenerate request runs the demo as a child    *)
(* process, and all children write one file in place.  A child is killed   *)
(* after 300 seconds, and all of them when the operator stops the server.  *)
(*                                                                         *)
(* The file is a sequence of chunks, as the child's buffered writer sends  *)
(* them; a chunk is named by the child that wrote it.  Reports differ in   *)
(* length, since a request chooses the size of its benchmark.              *)
(***************************************************************************)
EXTENDS Integers, FiniteSets, Sequences

CONSTANTS
  Requests,   \* regenerate requests, each made at most once
  Boot,       \* the child that ensure_report starts
  Length,     \* chunks of each child's report
  Absent,     \* no file
  Hole,       \* what lies between the end of a file and a write beyond it
  MaxStops    \* bound: how often the operator stops the server

Children == Requests \cup {Boot}

ASSUME ReportServerAssumption ==
  /\ Boot \notin Requests
  /\ Length \in [Children -> Nat \ {0}]
  /\ Absent \notin Seq(Children \cup {Hole}) /\ Hole \notin Children
  /\ MaxStops \in Nat

VARIABLES
  server,    \* "down", "ensuring", "up"
  file,      \* results/demo_report.json
  child,     \* child -> "idle", "computing", "writing", "exited", "failed", "killed"
  offset,    \* child -> chunks it has written
  answer,    \* request -> "none", "ok", "failed", "timeout"
  last,      \* history: the child that opened the file last
  shared,    \* history: children that wrote while another was writing
  stops

vars == <<server, file, child, offset, answer, last, shared, stops>>

Init ==
  /\ server = "down" /\ file = Absent
  /\ child = [c \in Children |-> "idle"] /\ offset = [c \in Children |-> 0]
  /\ answer = [r \in Requests |-> "none"]
  /\ last = Boot /\ shared = {} /\ stops = 0

Exists  == file # Absent
Writing == {c \in Children : child[c] = "writing"}
Running == {c \in Children : child[c] \in {"computing", "writing"}}

-----------------------------------------------------------------------------
\* ensure_report: any file that is not empty is taken for a report.
HasReport == Exists /\ file # <<>>

\* main(): with --no-initial-run the report is not asked for.
Start ==
  /\ server = "down"
  /\ \/ HasReport /\ server' = "up" /\ UNCHANGED <<child, offset>>
     \/ /\ ~HasReport /\ server' = "ensuring"
        /\ child' = [child EXCEPT ![Boot] = "computing"]
        /\ offset' = [offset EXCEPT ![Boot] = 0]
     \/ server' = "up" /\ UNCHANGED <<child, offset>>
  /\ UNCHANGED <<file, answer, last, shared, stops>>

\* The endpoint regenerate starts its child and waits for it; the endpoints
\* report and health only read.
Regenerate(r) ==
  /\ server = "up" /\ child[r] = "idle"
  /\ child' = [child EXCEPT ![r] = "computing"]
  /\ UNCHANGED <<server, file, offset, answer, last, shared, stops>>

-----------------------------------------------------------------------------
\* run_demo.py ends with: open(out_path, "w"), which truncates, and json.dump;
\* the fault is to open without truncating.
Kept      == IF Exists THEN file ELSE <<>>
Truncated == <<>>

Open(c) ==
  /\ child[c] = "computing"
  /\ child' = [child EXCEPT ![c] = "writing"]
  /\ file' = Truncated
  /\ last' = c
  /\ shared' = IF Writing = {} THEN shared ELSE shared \cup Writing \cup {c}
  /\ UNCHANGED <<server, offset, answer, stops>>

\* A write at an offset, over what another child may have put there.
Written(c) ==
  LET at == offset[c] + 1
      size == IF Len(file) > at THEN Len(file) ELSE at
  IN  [i \in 1..size |-> IF i = at THEN c ELSE IF i <= Len(file) THEN file[i] ELSE Hole]

\* The fault is one write too many.
OneMore(c)   == offset[c] <= Length[c]
Unwritten(c) == offset[c] < Length[c]

Write(c) ==
  /\ child[c] = "writing" /\ Unwritten(c)
  /\ file' = Written(c)
  /\ offset' = [offset EXCEPT ![c] = @ + 1]
  /\ UNCHANGED <<server, child, answer, last, shared, stops>>

\* check=True: a server that waited for its first report comes up only if the run
\* was a success; the fault is to come up anyway.
UpAnyway(c, how)    == IF c = Boot THEN "up" ELSE server
ServerAfter(c, how) ==
  IF c # Boot THEN server ELSE IF how = "exited" THEN "up" ELSE "down"

\* A child has ended with this outcome, and its request is answered.
Ended(c, how, reply) ==
  /\ child' = [child EXCEPT ![c] = how]
  /\ answer' = [r \in Requests |-> IF r = c THEN reply ELSE answer[r]]
  /\ server' = ServerAfter(c, how)
  /\ UNCHANGED <<file, offset, last, shared, stops>>

\* The child closes the file when all is written.
Exit(c) == child[c] = "writing" /\ offset[c] = Length[c] /\ Ended(c, "exited", "ok")

\* The demo raises, before it comes to the report or in the middle of json.dump.
Fail(c) == c \in Running /\ Ended(c, "failed", "failed")

\* timeout=300: the child is killed wherever it is; the fault is to watch only
\* until the report is opened.
Computing(r) == child[r] = "computing"
StillRuns(r) == r \in Running
Timeout(r)   == StillRuns(r) /\ Ended(r, "killed", "timeout")

-----------------------------------------------------------------------------
\* Ctrl+C ends the server and every child it has; the file stays as it is.
Stop ==
  /\ server # "down" /\ stops < MaxStops
  /\ stops' = stops + 1
  /\ server' = "down"
  /\ child' = [c \in Children |-> IF c \in Running THEN "killed" ELSE child[c]]
  /\ UNCHANGED <<file, offset, answer, last, shared>>

Next ==
  \/ Start \/ Stop
  \/ \E r \in Requests : Regenerate(r) \/ Timeout(r)
  \/ \E c \in Children : Open(c) \/ Write(c) \/ Exit(c) \/ Fail(c)

\* The timer of subprocess.run fires if its child does not end; a child may hang.
Fairness == \A r \in Requests : WF_vars(Timeout(r))

Spec == Init /\ [][Next]_vars /\ Fairness

-----------------------------------------------------------------------------
ReportOf(c) == [i \in 1..Length[c] |-> c]
Complete(f) == \E c \in Children : f = ReportOf(c)

\* Shape of the state; a file that a child writes exists.
TypeOK ==
  /\ server \in {"down", "ensuring", "up"}
  /\ file = Absent \/ file \in Seq(Children \cup {Hole})
  /\ Writing # {} => Exists
  /\ child \in [Children -> {"idle", "computing", "writing", "exited", "failed", "killed"}]
  /\ offset \in [Children -> Nat] /\ \A c \in Children : offset[c] <= Length[c]
  /\ answer \in [Requests -> {"none", "ok", "failed", "timeout"}]
  /\ server = "ensuring" => child[Boot] \in {"computing", "writing"}
  /\ shared \subseteq Children /\ last \in Children /\ stops \in 0..MaxStops

\* A run that ended with success and had the file to itself leaves its whole
\* report there until another run opens the file, whatever was there before and
\* however earlier runs ended.
SuccessLeavesReport ==
  \A c \in Children :
     child[c] = "exited" /\ last = c /\ c \notin shared => file = ReportOf(c)

\* A server that had to wait for its first report comes up with that report.
FirstRunEnsures ==
  [][server = "ensuring" /\ server' = "up" => file' = ReportOf(Boot)]_vars

\* Every regenerate request is answered, or the server is stopped.
EveryRequestAnswered ==
  \A r \in Requests :
     child[r] = "computing" ~> (answer[r] # "none" \/ child[r] = "killed")

\* What the safety properties rest on.  The first run is never beside another;
\* a run that shares the file with nobody is the only writer, has opened it last,
\* and what it wrote is all there is; and a file opened alone stays alone.
ServerOwnsRuns ==
  /\ server = "down" => Running = {}
  /\ server = "ensuring" => Running = {Boot}
  /\ server = "up" => Boot \notin Running
  /\ Boot \notin shared

LoneWriterOwnsFile ==
  /\ \A c \in Children : child[c] \in {"idle", "computing"} => offset[c] = 0
  /\ \A c \in Writing : c \notin shared => last = c /\ file = [i \in 1..offset[c] |-> c]
  /\ last \notin shared => Writing \subseteq {last}

IInv == TypeOK /\ ServerOwnsRuns /\ LoneWriterOwnsFile /\ SuccessLeavesReport

-----------------------------------------------------------------------------
\* What ensure_report is documented to do: the server comes up with a report, so
\* that "the dashboard has data".  (With --no-initial-run nothing is ensured.)
EnsuredReport ==
  [][server = "down" /\ server' = "up" /\ HasReport => Complete(file')]_vars
=============================================================================
