------------------------- MODULE ReportServerProofs -------------------------
(***************************************************************************)
(* Proofs about ReportServer: a run that ends with success and never       *)
(* shared the file leaves its whole report, whatever the number of         *)
(* requests, the lengths of the reports, the time-outs and the restarts.   *)
(***************************************************************************)
EXTENDS ReportServer, TLAPS

USE DEF Children

\* What a write does to the file of a writer that is alone with it: it appends.
LEMMA WriteAppends ==
  ASSUME NEW c \in Children, offset[c] \in Nat,
         file = [i \in 1..offset[c] |-> c]
  PROVE  Written(c) = [i \in 1..(offset[c] + 1) |-> c]
<1>1. Len(file) = offset[c]
  OBVIOUS
<1>2. QED
  BY <1>1 DEF Written

\* A write keeps the file a sequence of chunks and holes.
LEMMA WrittenType ==
  ASSUME NEW c \in Children, offset[c] \in Nat,
         file \in Seq(Children \cup {Hole})
  PROVE  Written(c) \in Seq(Children \cup {Hole})
<1> DEFINE at == offset[c] + 1
           size == IF Len(file) > at THEN Len(file) ELSE at
           W == [i \in 1..size |-> IF i = at THEN c ELSE IF i <= Len(file) THEN file[i] ELSE Hole]
<1>1. Len(file) \in Nat /\ at \in Nat /\ size \in Nat
  OBVIOUS
<1>2. \A i \in 1..size : W[i] \in Children \cup {Hole}
  BY <1>1
<1>3. W \in [1..size -> Children \cup {Hole}]
  BY <1>2
<1>4. QED
  BY <1>1, <1>3 DEF Written

\* The inductive invariant holds at the start.
LEMMA Base == Init => IInv
<1> SUFFICES ASSUME Init PROVE IInv
  OBVIOUS
<1> USE ReportServerAssumption DEF Init
<1>1. TypeOK
  <2>1. Writing = {}
    BY DEF Writing
  <2>2. QED
    BY <2>1 DEF TypeOK
<1>2. ServerOwnsRuns
  BY DEF ServerOwnsRuns, Running
<1>3. LoneWriterOwnsFile
  BY DEF LoneWriterOwnsFile, Writing
<1>4. SuccessLeavesReport
  BY DEF SuccessLeavesReport
<1>5. QED
  BY <1>1, <1>2, <1>3, <1>4 DEF IInv

\* Every step keeps the shape of the state.
LEMMA TypeStep ==
  ASSUME TypeOK, ServerOwnsRuns, [Next]_vars PROVE TypeOK'
<1> USE ReportServerAssumption
<1> USE DEF Writing, Exists
<1>1. CASE Start
  BY <1>1 DEF TypeOK, Start
<1>2. CASE Stop
  <2>1. \A c \in Children : child'[c] # "writing"
    BY <1>2 DEF TypeOK, Stop, Running
  <2>2. child' \in [Children -> {"idle", "computing", "writing", "exited", "failed", "killed"}]
    BY <1>2 DEF TypeOK, Stop
  <2>3. Writing' = {}
    BY <2>1
  <2>4. stops' \in 0..MaxStops
    BY <1>2 DEF TypeOK, Stop
  <2>5. UNCHANGED <<file, offset, answer, last, shared>> /\ server' = "down"
    BY <1>2 DEF Stop
  <2>6. QED
    BY <2>2, <2>3, <2>4, <2>5 DEF TypeOK
<1>3. ASSUME NEW r \in Requests, Regenerate(r) PROVE TypeOK'
  BY <1>3 DEF TypeOK, Regenerate, ServerOwnsRuns, Running
<1>4. ASSUME NEW c \in Children, Open(c) PROVE TypeOK'
  <2>1. file' \in Seq(Children \cup {Hole})
    BY <1>4 DEF Open, Truncated
  <2>2. QED
    BY <1>4, <2>1 DEF TypeOK, Open
<1>5. ASSUME NEW c \in Children, Write(c) PROVE TypeOK'
  <2>1. offset[c] \in Nat /\ offset[c] + 1 <= Length[c]
    BY <1>5 DEF TypeOK, Write, Unwritten
  <2>2. file \in Seq(Children \cup {Hole})
    BY <1>5 DEF TypeOK, Write
  <2>3. file' \in Seq(Children \cup {Hole})
    BY <1>5, <2>1, <2>2, WrittenType DEF Write
  <2>4. offset' \in [Children -> Nat] /\ \A d \in Children : offset'[d] <= Length[d]
    BY <1>5, <2>1 DEF TypeOK, Write
  <2>5. QED
    BY <1>5, <2>3, <2>4 DEF TypeOK, Write
<1>6. ASSUME NEW c \in Children, Exit(c) PROVE TypeOK'
  BY <1>6 DEF TypeOK, Exit, Ended, ServerAfter
<1>7. ASSUME NEW c \in Children, Fail(c) PROVE TypeOK'
  BY <1>7 DEF TypeOK, Fail, Ended, ServerAfter
<1>8. ASSUME NEW r \in Requests, Timeout(r) PROVE TypeOK'
  BY <1>8 DEF TypeOK, Timeout, Ended, ServerAfter
<1>9. CASE UNCHANGED vars
  BY <1>9 DEF TypeOK, vars
<1>10. QED
  BY <1>1, <1>2, <1>3, <1>4, <1>5, <1>6, <1>7, <1>8, <1>9 DEF Next

\* The first run is alone: no request is taken before the server is up.
LEMMA OwnsStep ==
  ASSUME TypeOK, ServerOwnsRuns, [Next]_vars PROVE ServerOwnsRuns'
<1> USE ReportServerAssumption DEF ServerOwnsRuns, Running, TypeOK
<1>1. CASE Start
  BY <1>1 DEF Start
<1>2. CASE Stop
  BY <1>2 DEF Stop
<1>3. ASSUME NEW r \in Requests, Regenerate(r) PROVE ServerOwnsRuns'
  BY <1>3 DEF Regenerate
<1>4. ASSUME NEW c \in Children, Open(c) PROVE ServerOwnsRuns'
  BY <1>4 DEF Open, Writing
<1>5. ASSUME NEW c \in Children, Write(c) PROVE ServerOwnsRuns'
  BY <1>5 DEF Write
<1>6. ASSUME NEW c \in Children, Exit(c) PROVE ServerOwnsRuns'
  BY <1>6 DEF Exit, Ended, ServerAfter
<1>7. ASSUME NEW c \in Children, Fail(c) PROVE ServerOwnsRuns'
  BY <1>7 DEF Fail, Ended, ServerAfter
<1>8. ASSUME NEW r \in Requests, Timeout(r) PROVE ServerOwnsRuns'
  BY <1>8 DEF Timeout, Ended, ServerAfter
<1>9. CASE UNCHANGED vars
  BY <1>9 DEF vars
<1>10. QED
  BY <1>1, <1>2, <1>3, <1>4, <1>5, <1>6, <1>7, <1>8, <1>9 DEF Next

\* A run that opened the file alone stays its only writer and owns every chunk.
LEMMA WriterStep ==
  ASSUME IInv, [Next]_vars PROVE LoneWriterOwnsFile'
<1> USE ReportServerAssumption DEF IInv, TypeOK, LoneWriterOwnsFile, Writing
<1>1. CASE Start
  BY <1>1 DEF Start, ServerOwnsRuns, Running
<1>2. CASE Stop
  BY <1>2 DEF Stop, Running
<1>3. ASSUME NEW r \in Requests, Regenerate(r) PROVE LoneWriterOwnsFile'
  BY <1>3 DEF Regenerate
<1>4. ASSUME NEW c \in Children, Open(c) PROVE LoneWriterOwnsFile'
  BY <1>4 DEF Open, Truncated
<1>5. ASSUME NEW c \in Children, Write(c) PROVE LoneWriterOwnsFile'
  <2>1. \A d \in Writing' : d \notin shared' => d = c
    BY <1>5 DEF Write
  <2>2. c \notin shared => file' = [i \in 1..offset'[c] |-> c]
    BY <1>5, WriteAppends DEF Write
  <2>3. QED
    BY <1>5, <2>1, <2>2 DEF Write
<1>6. ASSUME NEW c \in Children, Exit(c) PROVE LoneWriterOwnsFile'
  BY <1>6 DEF Exit, Ended
<1>7. ASSUME NEW c \in Children, Fail(c) PROVE LoneWriterOwnsFile'
  BY <1>7 DEF Fail, Ended
<1>8. ASSUME NEW r \in Requests, Timeout(r) PROVE LoneWriterOwnsFile'
  BY <1>8 DEF Timeout, Ended
<1>9. CASE UNCHANGED vars
  BY <1>9 DEF vars
<1>10. QED
  BY <1>1, <1>2, <1>3, <1>4, <1>5, <1>6, <1>7, <1>8, <1>9 DEF Next

\* What a successful lone run has left, only the next run to open takes away.
LEMMA SuccessStep ==
  ASSUME IInv, [Next]_vars PROVE SuccessLeavesReport'
<1> USE ReportServerAssumption DEF IInv, TypeOK, SuccessLeavesReport, ReportOf
<1>1. CASE Start
  BY <1>1 DEF Start
<1>2. CASE Stop
  BY <1>2 DEF Stop, Running
<1>3. ASSUME NEW r \in Requests, Regenerate(r) PROVE SuccessLeavesReport'
  BY <1>3 DEF Regenerate
<1>4. ASSUME NEW c \in Children, Open(c) PROVE SuccessLeavesReport'
  BY <1>4 DEF Open
<1>5. ASSUME NEW c \in Children, Write(c) PROVE SuccessLeavesReport'
  BY <1>5 DEF Write, LoneWriterOwnsFile, Writing
<1>6. ASSUME NEW c \in Children, Exit(c) PROVE SuccessLeavesReport'
  BY <1>6 DEF Exit, Ended, LoneWriterOwnsFile, Writing
<1>7. ASSUME NEW c \in Children, Fail(c) PROVE SuccessLeavesReport'
  BY <1>7 DEF Fail, Ended
<1>8. ASSUME NEW r \in Requests, Timeout(r) PROVE SuccessLeavesReport'
  BY <1>8 DEF Timeout, Ended
<1>9. CASE UNCHANGED vars
  BY <1>9 DEF vars
<1>10. QED
  BY <1>1, <1>2, <1>3, <1>4, <1>5, <1>6, <1>7, <1>8, <1>9 DEF Next

\* The invariant of the server: its shape, who runs when, who owns the file.
THEOREM ServerInvariant == Spec => []IInv
<1>1. Init => IInv
  BY Base
<1>2. IInv /\ [Next]_vars => IInv'
  BY TypeStep, OwnsStep, WriterStep, SuccessStep DEF IInv
<1>3. QED
  BY <1>1, <1>2, PTL DEF Spec

\* The shape of the state: the file is chunks and holes, or absent with no writer,
\* and no child writes more than its report.
THEOREM TypeCorrect == Spec => []TypeOK
<1>1. IInv => TypeOK
  BY DEF IInv
<1>2. QED
  BY <1>1, ServerInvariant, PTL

\* run_demo.py writes in place, yet a run that ended with success and shared the
\* file with no other leaves its whole report, until another run opens the file.
THEOREM SuccessKept == Spec => []SuccessLeavesReport
<1>1. IInv => SuccessLeavesReport
  BY DEF IInv
<1>2. QED
  BY <1>1, ServerInvariant, PTL

\* ensure_report: a server that waited for its first run comes up with the whole
\* report of that run.
THEOREM FirstRunKept == Spec => FirstRunEnsures
<1> DEFINE Ensures == server = "ensuring" /\ server' = "up" => file' = ReportOf(Boot)
<1>1. ASSUME IInv, [Next]_vars PROVE [Ensures]_vars
  <2> SUFFICES ASSUME server = "ensuring", server' = "up"
               PROVE file' = ReportOf(Boot)
    OBVIOUS
  <2>1. Exit(Boot)
    BY <1>1 DEF Next, vars, Start, Stop, Regenerate, Open, Write, Exit, Fail, Timeout,
               Ended, ServerAfter
  <2>2. Boot \in Writing /\ Boot \notin shared /\ offset[Boot] = Length[Boot]
    BY <2>1, <1>1 DEF Exit, Writing, IInv, ServerOwnsRuns
  <2>3. QED
    BY <2>1, <2>2, <1>1 DEF Exit, Ended, ReportOf, IInv, LoneWriterOwnsFile
<1>2. QED
  BY <1>1, ServerInvariant, PTL DEF Spec, FirstRunEnsures, Ensures
=============================================================================
