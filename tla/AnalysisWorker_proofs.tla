------------------------ MODULE AnalysisWorker_proofs ------------------------
(***************************************************************************)
(* Proofs about AnalysisWorker for any number of workers, dispatchers and  *)
(* readers, of copies of the task and of faults, lost tasks and locks among *)
(* them.                                                                   *)
(***************************************************************************)
EXTENDS AnalysisWorker, FiniteSetTheorems, TLAPS

Artifacts == [id: ReportIds \cup {NoReport}, state: {"none", "ready", "failed"}]
Records ==
    [pc: Working \cup {"idle", "reconcile", "failResource", "completeFailed", "failPair", "recheck", "handler"},
     outcome: {"none", "completed", "not_score_ready"}, late: BOOLEAN, artifact: Artifacts]

Begun == {"running"} \cup Final
Prepared == {"head", "pair", "reconcile", "failResource", "completeFailed", "failPair", "recheck"}

(* A worker that is busy has an analysis, one past its first look a running or  *)
(* ended one, and one past the rendering an artifact of its own.               *)
JobSound(w) ==
    /\ job[w].pc # "idle" => analysis # "none"
    /\ job[w].pc \in Prepared \cup {"execute", "outcome", "render"} => analysis \in Begun
    /\ job[w].pc \in Prepared =>
          job[w].artifact.id \in ReportIds /\ job[w].artifact.state \in {"ready", "failed"}
JobsOK == job \in [Workers -> Records] /\ \A w \in Workers : JobSound(w)

RowsOK ==
    /\ analysis \in Begun \cup {"none", "queued"}
    /\ success \in BOOLEAN /\ late \in BOOLEAN /\ finite \in BOOLEAN
    /\ report \in Artifacts
    /\ analysis = "completed" <=> report.id # NoReport
    /\ report.id = NoReport <=> report.state = "none"
    /\ SuccessIsProtected

Failures == [count: 0..MaxFaults, lost: SUBSET {"task", "lock"}]
WorldOK ==
    /\ object \in ReportIds \cup {NoReport} /\ lock \in Workers \cup {NoWorker}
    /\ faults \in Failures

(* Nothing is dispatched or queued before the analysis exists. *)
BrokerOK ==
    /\ outbox \in {"none", "pending", "dispatched"} /\ disp \in [Dispatchers -> {"idle", "publish", "mark"}]
    /\ tasks \in Nat /\ Copies <= MaxTasks
    /\ analysis = "none" => outbox = "none" /\ tasks = 0 /\ \A d \in Dispatchers : disp[d] = "idle"

(* A reader under way has read the row of the one report there is. *)
ReadersOK ==
    /\ reader \in [Readers -> [pc: {"idle", "row", "served"}, id: ReportIds \cup {NoReport}]]
    /\ \A r \in Readers : reader[r].pc # "idle" => reader[r].id = report.id /\ report.id # NoReport

Inductive == RowsOK /\ WorldOK /\ BrokerOK /\ JobsOK /\ ReadersOK

-----------------------------------------------------------------------------
(* What a step does to the rows: the analysis never goes back, the report stays the one it is, *)
(* and the service sees a step of its own or none.                                             *)
Monotone ==
    /\ analysis # "none" => analysis' # "none"
    /\ analysis \in Begun => analysis' \in Begun
    /\ report.id # NoReport => report'.id = report.id
Seen == IF report.id = NoReport THEN "none" ELSE report.state
ServiceStep == [Service!Next]_<<analysis, Seen>>
RowsMove == RowsOK' /\ WorldOK' /\ Monotone /\ ServiceStep

(* What a busy worker does besides: it goes on, or puts its task away or back. *)
JobMove(w) ==
    /\ job' = [job EXCEPT ![w] = job'[w]] /\ job'[w] \in Records /\ JobSound(w)'
    /\ job[w].pc # "idle" /\ (tasks' = tasks \/ (job'[w].pc = "idle" /\ tasks' = tasks + 1))
    /\ UNCHANGED <<outbox, disp, reader>>

Busy == {w \in Workers : ~At(w, "idle")}

LEMMA BusyIsFinite == IsFiniteSet(Busy) /\ Cardinality(Busy) \in Nat
<1>1. IsFiniteSet(Workers) /\ Busy \in SUBSET Workers
      BY WorkerAssumption DEF Busy
<1>2. IsFiniteSet(Busy)
      BY <1>1, FS_Subset
<1> QED
    BY <1>2, FS_CardinalityType

(* A worker that goes on leaves the copies as they are; one that stops frees its own. *)
LEMMA CopiesMove ==
    ASSUME JobsOK, BrokerOK, NEW w \in Workers, JobMove(w)
    PROVE  tasks' \in Nat /\ Copies' <= MaxTasks
<1>1. /\ MaxTasks \in Nat /\ IsFiniteSet(Busy) /\ Cardinality(Busy) \in Nat /\ tasks \in Nat
      /\ tasks + Cardinality(Busy) <= MaxTasks
      BY BusyIsFinite, WorkerAssumption DEF BrokerOK, Copies, Busy
<1>2. \A p \in Workers \ {w} : job'[p] = job[p]
      BY DEF JobMove, JobsOK
<1>3. CASE job'[w].pc = "idle"
  <2>1. w \in Busy /\ Busy' = Busy \ {w}
        BY <1>2, <1>3 DEF Busy, At, JobMove
  <2>2. Cardinality(Busy') = Cardinality(Busy) - 1
        BY <1>1, <2>1, FS_RemoveElement
  <2> QED
      BY <1>1, <2>2 DEF JobMove, Copies, Busy
<1>4. CASE job'[w].pc # "idle"
  <2>1. Busy' = Busy
        BY <1>2, <1>4 DEF Busy, At, JobMove
  <2> QED
      BY <1>1, <1>4, <2>1 DEF JobMove, Copies, Busy
<1> QED
    BY <1>3, <1>4

LEMMA MoveKeepsInductive ==
    ASSUME Inductive, NEW w \in Workers, RowsMove, JobMove(w)
    PROVE  Inductive'
<1>1. BrokerOK'
  <2>1. tasks' \in Nat /\ Copies' <= MaxTasks
        BY CopiesMove DEF Inductive
  <2>2. analysis # "none"
        BY DEF Inductive, JobsOK, JobSound, JobMove
  <2> QED
      BY <2>1, <2>2 DEF Inductive, BrokerOK, RowsMove, Monotone, JobMove
<1>2. JobsOK'
  <2>1. job' \in [Workers -> Records]
        BY DEF Inductive, JobsOK, JobMove
  <2>2. ASSUME NEW p \in Workers, p # w PROVE JobSound(p)'
    <3>1. job'[p] = job[p] /\ JobSound(p)
          BY <2>2 DEF Inductive, JobsOK, JobMove
    <3> QED
        BY <3>1 DEF JobSound, RowsMove, Monotone
  <2> QED
      BY <2>1, <2>2 DEF JobsOK, JobMove
<1>3. ReadersOK'
      BY DEF Inductive, ReadersOK, RowsMove, Monotone, JobMove
<1> QED
    BY <1>1, <1>2, <1>3 DEF Inductive, RowsMove

-----------------------------------------------------------------------------
(* The ways a worker moves on, and the ways it moves the rows. *)

(* A task that is acknowledged or put back leaves its worker at rest. *)
LEMMA AnswerMovesJob ==
    ASSUME Inductive, NEW w \in Workers, ~At(w, "idle"), UNCHANGED <<broker, reader>>,
           Acknowledge(w) \/ Retry(w)
    PROVE  JobMove(w) /\ lock' \in Workers \cup {NoWorker}
<1>1. job \in [Workers -> Records] /\ lock \in Workers \cup {NoWorker}
      BY DEF Inductive, JobsOK, WorldOK
<1>2. job' = [job EXCEPT ![w] = Rest] /\ job'[w] = Rest
      BY <1>1 DEF Acknowledge, Retry
<1>3. Rest \in Records /\ Rest.pc = "idle"
      BY DEF Rest, Records, NoArtifact, Artifacts
<1>4. JobSound(w)'
      BY <1>2, <1>3 DEF JobSound, Prepared
<1>5. tasks' = tasks \/ tasks' = tasks + 1
      BY DEF Acknowledge, Retry
<1>6. UNCHANGED <<outbox, disp, reader>> /\ job[w].pc # "idle"
      BY DEF broker, At
<1>7. lock' \in Workers \cup {NoWorker}
      BY <1>1 DEF Acknowledge, Retry, Release
<1> QED
    BY <1>2, <1>3, <1>4, <1>5, <1>6, <1>7 DEF JobMove

(* A worker that goes on with a sound record moves its job and nothing else. *)
LEMMA RecordMovesJob ==
    ASSUME Inductive, NEW w \in Workers, ~At(w, "idle"), UNCHANGED <<broker, tasks, reader>>,
           NEW r \in Records, job' = [job EXCEPT ![w] = r], analysis' # "none",
           r.pc \in Prepared \cup {"execute", "outcome", "render"} => analysis' \in Begun,
           r.pc \in Prepared => r.artifact.id \in ReportIds /\ r.artifact.state \in {"ready", "failed"}
    PROVE  JobMove(w)
<1>1. job'[w] = r
      BY DEF Inductive, JobsOK
<1>2. JobSound(w)'
      BY <1>1 DEF JobSound
<1> QED
    BY <1>1, <1>2 DEF JobMove, At, broker

(* The same for a worker of which only the place in its program changes. *)
LEMMA GoMovesJob ==
    ASSUME Inductive, NEW w \in Workers, ~At(w, "idle"), UNCHANGED <<broker, tasks, reader>>,
           NEW pc \in Working \cup {"reconcile", "failResource", "completeFailed", "failPair", "recheck", "handler"},
           Go(w, pc), analysis' # "none",
           pc \in Prepared \cup {"execute", "outcome", "render"} => analysis' \in Begun,
           pc \in Prepared => job[w].pc \in Prepared
    PROVE  JobMove(w)
<1> DEFINE r == [job[w] EXCEPT !.pc = pc]
<1>1. job[w] \in Records /\ JobSound(w)
      BY DEF Inductive, JobsOK
<1>2. r \in Records /\ r.pc = pc /\ r.artifact = job[w].artifact
      BY <1>1 DEF Records
<1>3. job' = [job EXCEPT ![w] = r]
      BY DEF Go
<1>4. pc \in Prepared => r.artifact.id \in ReportIds /\ r.artifact.state \in {"ready", "failed"}
      BY <1>1, <1>2 DEF JobSound
<1> HIDE DEF r
<1> QED
    BY <1>2, <1>3, <1>4, RecordMovesJob

(* Rows that nobody writes. *)
LEMMA RowsStay ==
    ASSUME Inductive, UNCHANGED rows, WorldOK'
    PROVE  RowsMove
<1>1. RowsOK'
      BY DEF Inductive, RowsOK, SuccessIsProtected, rows
<1>2. Monotone /\ ServiceStep
      BY DEF Inductive, Monotone, ServiceStep, Seen, rows
<1> QED
    BY <1>1, <1>2 DEF RowsMove

(* An analysis without a protected success is ended. *)
LEMMA StopMovesRows ==
    ASSUME Inductive, WorldOK', UNCHANGED <<success, late, finite, report>>, ~success,
           analysis \in {"queued", "running"},
           \/ analysis' \in {"failed", "timed_out"}
           \/ analysis = "running" /\ analysis' = "not_score_ready"
    PROVE  RowsMove
<1>1. RowsOK'
      BY DEF Inductive, RowsOK, SuccessIsProtected, Begun, Final
<1>2. Monotone
      BY DEF Monotone, Begun, Final
<1>3. Seen' = Seen
      BY DEF Seen
<1>4. Service!Stop
      BY <1>3 DEF Service!Stop, Seen
<1>5. ServiceStep
      BY <1>4 DEF ServiceStep, Service!Next
<1> QED
    BY <1>1, <1>2, <1>5 DEF RowsMove

(* A running analysis is completed together with its report. *)
LEMMA PairMovesRows ==
    ASSUME Inductive, WorldOK', UNCHANGED <<success, late, finite>>, analysis = "running",
           NEW a \in Artifacts, a.id \in ReportIds, a.state \in {"ready", "failed"},
           WritePair(a)
    PROVE  RowsMove
<1>1. analysis' = "completed" /\ report' = a /\ a.id # NoReport
      BY WorkerAssumption DEF WritePair
<1>2. RowsOK'
      BY <1>1 DEF Inductive, RowsOK, SuccessIsProtected, Begun, Final
<1>3. report.id = NoReport
      BY DEF Inductive, RowsOK
<1>4. Monotone
      BY <1>1, <1>3 DEF Monotone, Begun, Final
<1>5. Service!Complete
      BY <1>1 DEF Service!Complete, Service!ReportStates
<1>6. ServiceStep
      BY <1>5 DEF ServiceStep, Service!Next
<1> QED
    BY <1>2, <1>4, <1>6 DEF RowsMove

(* The report that is told of is failed. *)
LEMMA RetractMovesRows ==
    ASSUME Inductive, WorldOK', UNCHANGED <<analysis, success, late, finite>>,
           report.id # NoReport, report' = Failed(report)
    PROVE  RowsMove
<1>1. report \in Artifacts /\ report.state # "none"
      BY DEF Inductive, RowsOK
<1>2. report' \in Artifacts /\ report'.id = report.id /\ report'.state = "failed"
      BY <1>1 DEF Failed, Artifacts
<1>3. RowsOK'
      BY <1>2 DEF Inductive, RowsOK, SuccessIsProtected
<1>4. Monotone
      BY <1>2 DEF Monotone
<1>5. CASE report.state = "ready"
  <2>1. Service!Retract
        BY <1>2, <1>5 DEF Service!Retract
  <2> QED
      BY <1>3, <1>4, <2>1 DEF RowsMove, ServiceStep, Service!Next
<1>6. CASE report.state # "ready"
  <2>1. Seen' = Seen
        BY <1>1, <1>2, <1>6 DEF Seen, Artifacts
  <2> QED
      BY <1>3, <1>4, <2>1 DEF RowsMove, ServiceStep
<1> QED
    BY <1>5, <1>6

(* Work is on an analysis, and past its first look on a running or an ended one. *)
LEMMA AtWork ==
    ASSUME Inductive, NEW w \in Workers
    PROVE  /\ job[w] \in Records /\ job[w].artifact \in Artifacts
           /\ ~At(w, "idle") => analysis # "none"
           /\ job[w].pc \in Prepared \cup {"execute", "outcome", "render"} =>
                 analysis \in Begun /\ (analysis \notin Final => analysis = "running")
           /\ job[w].pc \in Prepared =>
                 job[w].artifact.id \in ReportIds /\ job[w].artifact.state \in {"ready", "failed"}
           /\ analysis \in Begun \cup {"none", "queued"}
BY DEF Inductive, JobsOK, JobSound, RowsOK, Records, Begun, At

(* A failure is counted within the bound, and what it lost is remembered. *)
LEMMA LossesAreBounded ==
    ASSUME Inductive, NEW what \in SUBSET {"task", "lock"}, Lose(what) \/ NoFault
    PROVE  faults' \in Failures /\ faults.lost \subseteq faults'.lost
<1>1. faults \in Failures /\ MaxFaults \in Nat
      BY WorkerAssumption DEF Inductive, WorldOK
<1>2. CASE Lose(what)
  <2>1. faults.count + 1 \in 0..MaxFaults
    <3>1. faults.count \in 0..MaxFaults /\ faults.count < MaxFaults
          BY <1>1, <1>2 DEF Lose, Failures
    <3> QED
        BY <1>1, <3>1
  <2>2. faults.lost \cup what \in SUBSET {"task", "lock"}
    <3>1. faults.lost \in SUBSET {"task", "lock"}
          BY <1>1 DEF Failures
    <3> QED
        BY <3>1
  <2>3. faults' = [count |-> faults.count + 1, lost |-> faults.lost \cup what]
        BY <1>2 DEF Lose
  <2> QED
      BY <2>1, <2>2, <2>3 DEF Failures
<1>3. CASE NoFault
      BY <1>1, <1>3 DEF NoFault
<1> QED
    BY <1>2, <1>3

(* A counted failure and its absence leave the failures in their bound. *)
LEMMA FaultsStayBounded ==
    ASSUME Inductive, Fault \/ NoFault PROVE faults' \in Failures
BY LossesAreBounded DEF Fault

-----------------------------------------------------------------------------
(* One lemma for each step of a worker. *)

(* The first look ends an analysis that is late, or sets it running. *)
LEMMA BeginMoves ==
    ASSUME Inductive, NEW w \in Workers, Begin(w) PROVE RowsMove /\ JobMove(w)
<1>1. ~At(w, "idle") /\ UNCHANGED <<broker, reader, success, late, finite, report, object, faults>>
      BY DEF Begin, At
<1>2. CASE analysis \in Final /\ Acknowledge(w) /\ UNCHANGED analysis
  <2>1. JobMove(w) /\ lock' \in Workers \cup {NoWorker}
        BY <1>1, <1>2, AnswerMovesJob
  <2>2. WorldOK'
        BY <1>1, <2>1 DEF Inductive, WorldOK
  <2> QED
      BY <1>1, <1>2, <2>1, <2>2, RowsStay DEF rows
<1>3. CASE analysis \notin Final /\ ~success /\ late /\ analysis' = "timed_out" /\ Acknowledge(w)
  <2>1. JobMove(w) /\ lock' \in Workers \cup {NoWorker}
        BY <1>1, <1>3, AnswerMovesJob
  <2>2. WorldOK'
        BY <1>1, <2>1 DEF Inductive, WorldOK
  <2>3. analysis \in {"queued", "running"}
        BY <1>1, <1>3, AtWork DEF Begun
  <2> QED
      BY <1>1, <1>3, <2>1, <2>2, <2>3, StopMovesRows
<1>4. CASE /\ analysis \notin Final /\ (success \/ ~late)
           /\ analysis' = "running" /\ Go(w, "execute") /\ UNCHANGED <<tasks, lock>>
  <2>1. JobMove(w)
        BY <1>1, <1>4, GoMovesJob DEF Working, Begun, Prepared
  <2>2. WorldOK'
        BY <1>1, <1>4 DEF Inductive, WorldOK
  <2>3. analysis \in {"queued", "running"} /\ report.id = NoReport
        BY <1>1, <1>4, AtWork DEF Inductive, RowsOK, Begun, Final
  <2>4. RowsOK' /\ Monotone
        BY <1>1, <1>4, <2>3 DEF Inductive, RowsOK, SuccessIsProtected, Monotone, Begun, Final
  <2>5. ServiceStep
        BY <1>1, <1>4, <2>3 DEF ServiceStep, Seen, Service!Next, Service!Run
  <2> QED
      BY <2>1, <2>2, <2>4, <2>5 DEF RowsMove
<1> QED
    BY <1>2, <1>3, <1>4 DEF Begin

(* The executor answers. *)
LEMMA ExecuteMoves ==
    ASSUME Inductive, NEW w \in Workers, Execute(w) PROVE RowsMove /\ JobMove(w)
<1>1. PICK outcome \in {"completed", "not_score_ready"} :
         /\ IF success /\ outcome # "completed" THEN Fault ELSE NoFault
         /\ job' = [job EXCEPT ![w].pc = "outcome", ![w].outcome = outcome, ![w].late = late]
      BY DEF Execute
<1> DEFINE r == [job[w] EXCEPT !.pc = "outcome", !.outcome = outcome, !.late = late]
<1>2. At(w, "execute") /\ UNCHANGED <<rows, object, broker, tasks, lock, reader>>
      BY DEF Execute
<1>3. job[w] \in Records /\ late \in BOOLEAN /\ analysis \in Begun /\ job \in [Workers -> Records]
      BY <1>2, AtWork DEF Inductive, RowsOK, JobsOK, At
<1>4. r \in Records /\ r.pc = "outcome"
      BY <1>3 DEF Records, Working
<1>5. job' = [job EXCEPT ![w] = r]
      BY <1>1, <1>3
<1>6. analysis' \in Begun /\ analysis' # "none"
      BY <1>2, <1>3 DEF rows, Begun, Final
<1>7. ~At(w, "idle") /\ "outcome" \notin Prepared
      BY <1>2 DEF At, Prepared
<1>8. JobMove(w)
  <2> HIDE DEF r
  <2> QED
      BY <1>2, <1>4, <1>5, <1>6, <1>7, RecordMovesJob
<1>9. WorldOK'
      BY <1>1, <1>2, FaultsStayBounded DEF Inductive, WorldOK
<1> QED
    BY <1>2, <1>8, <1>9, RowsStay

(* A result without a score ends the analysis, or contradicts its success. *)
LEMMA NotScoreReadyMoves ==
    ASSUME Inductive, NEW w \in Workers, NotScoreReady(w) PROVE RowsMove /\ JobMove(w)
<1>1. /\ At(w, "outcome") /\ UNCHANGED <<success, late, finite, report, object, broker, reader, faults>>
      /\ Acknowledge(w) \/ Retry(w)
      BY DEF NotScoreReady
<1>2. ~At(w, "idle")
      BY <1>1 DEF At
<1>3. JobMove(w) /\ lock' \in Workers \cup {NoWorker}
      BY <1>1, <1>2, AnswerMovesJob
<1>4. WorldOK'
      BY <1>1, <1>3 DEF Inductive, WorldOK
<1>5. CASE UNCHANGED analysis
      BY <1>1, <1>3, <1>4, <1>5, RowsStay DEF rows
<1>6. CASE ~(UNCHANGED analysis)
  <2>1. /\ ~success /\ analysis \notin Final
        /\ analysis' = "timed_out" \/ analysis' = "not_score_ready"
        BY <1>6 DEF NotScoreReady
  <2>2. analysis = "running"
        BY <1>1, <2>1, AtWork DEF At
  <2> QED
      BY <1>1, <1>3, <1>4, <2>1, <2>2, StopMovesRows
<1> QED
    BY <1>5, <1>6

(* A success in time is protected; any other answer ends the analysis. *)
LEMMA ProtectMoves ==
    ASSUME Inductive, NEW w \in Workers, Protect(w) PROVE RowsMove /\ JobMove(w)
<1>1. At(w, "outcome") /\ UNCHANGED <<late, finite, report, object, broker, reader, faults>>
      BY DEF Protect
<1>2. ~At(w, "idle") /\ analysis \in Begun /\ (analysis \notin Final => analysis = "running")
      BY <1>1, AtWork DEF At
<1>3. CASE analysis \in {"queued", "running"} /\ (success \/ ~job[w].late)
  <2>1. /\ success' = TRUE /\ analysis' = "running" /\ Go(w, "render") /\ UNCHANGED <<tasks, lock>>
        /\ analysis = "running"
        BY <1>2, <1>3 DEF Protect, Begun, Final
  <2>2. JobMove(w)
        BY <1>1, <1>2, <2>1, GoMovesJob DEF Working, Begun, Prepared
  <2>3. WorldOK'
        BY <1>1, <2>1 DEF Inductive, WorldOK
  <2>4. RowsOK'
        BY <1>1, <2>1 DEF Inductive, RowsOK, SuccessIsProtected
  <2>5. Monotone /\ ServiceStep
        BY <1>1, <2>1 DEF Monotone, ServiceStep, Seen
  <2> QED
      BY <2>2, <2>3, <2>4, <2>5 DEF RowsMove
<1>4. CASE ~(analysis \in {"queued", "running"} /\ (success \/ ~job[w].late))
  <2>1. /\ Acknowledge(w) /\ UNCHANGED success
        /\ analysis' = IF analysis \in Final THEN analysis ELSE "timed_out"
        BY <1>4 DEF Protect
  <2>2. JobMove(w) /\ lock' \in Workers \cup {NoWorker}
        BY <1>1, <1>2, <2>1, AnswerMovesJob
  <2>3. WorldOK'
        BY <1>1, <2>2 DEF Inductive, WorldOK
  <2>4. CASE analysis \in Final
        BY <1>1, <2>1, <2>2, <2>3, <2>4, RowsStay DEF rows
  <2>5. CASE analysis \notin Final
    <3>1. ~success
          BY <1>2, <1>4, <2>5 DEF Inductive, RowsOK
    <3> QED
        BY <1>1, <1>2, <2>1, <2>2, <2>3, <2>5, <3>1, StopMovesRows
  <2> QED
      BY <2>4, <2>5
<1> QED
    BY <1>3, <1>4

(* The rendering gives the worker an artifact under a new identifier. *)
LEMMA RenderMoves ==
    ASSUME Inductive, NEW w \in Workers, Render(w) PROVE RowsMove /\ JobMove(w)
<1>1. At(w, "render") /\ UNCHANGED <<rows, broker, tasks, lock, reader, faults>>
      BY DEF Render
<1>2. PICK id \in ReportIds, pc \in {"head", "pair"}, state \in {"ready", "failed"} :
         /\ job' = [job EXCEPT ![w].pc = pc, ![w].artifact = [id |-> id, state |-> state]]
         /\ object' \in {object, id}
      BY DEF Render
<1> DEFINE r == [job[w] EXCEPT !.pc = pc, !.artifact = [id |-> id, state |-> state]]
<1>3. job[w] \in Records /\ analysis \in Begun /\ job \in [Workers -> Records] /\ ~At(w, "idle")
      BY <1>1, AtWork DEF Inductive, JobsOK, At
<1>4. r \in Records /\ r.pc = pc /\ r.artifact = [id |-> id, state |-> state]
      BY <1>3 DEF Records, Artifacts, Working
<1>5. job' = [job EXCEPT ![w] = r]
      BY <1>2, <1>3
<1>6. analysis' \in Begun /\ analysis' # "none"
      BY <1>1, <1>3 DEF rows, Begun, Final
<1>7. JobMove(w)
  <2>1. r.artifact.id \in ReportIds /\ r.artifact.state \in {"ready", "failed"}
        BY <1>4
  <2> HIDE DEF r
  <2> QED
      BY <1>1, <1>3, <1>4, <1>5, <1>6, <2>1, RecordMovesJob
<1>8. WorldOK'
      BY <1>1, <1>2 DEF Inductive, WorldOK
<1> QED
    BY <1>1, <1>7, <1>8, RowsStay

(* The upload is confirmed or its artifact is failed. *)
LEMMA ConfirmMoves ==
    ASSUME Inductive, NEW w \in Workers, Confirm(w) PROVE RowsMove /\ JobMove(w)
<1>1. At(w, "head") /\ UNCHANGED <<rows, broker, tasks, lock, reader, faults>>
      BY DEF Confirm
<1>2. /\ job[w] \in Records /\ job[w].artifact \in Artifacts /\ job[w].artifact.id \in ReportIds
      /\ analysis \in Begun /\ job \in [Workers -> Records] /\ ~At(w, "idle") /\ job[w].pc \in Prepared
      BY <1>1, AtWork DEF Inductive, JobsOK, At, Prepared
<1>3. analysis' \in Begun /\ analysis' # "none"
      BY <1>1, <1>2 DEF rows, Begun, Final
<1>4. WorldOK'
      BY <1>1 DEF Confirm, Inductive, WorldOK
<1>5. CASE Go(w, "pair")
      BY <1>1, <1>2, <1>3, <1>4, <1>5, GoMovesJob, RowsStay DEF Working
<1>6. CASE job' = [job EXCEPT ![w].pc = "pair", ![w].artifact.state = "failed"]
  <2> DEFINE r == [job[w] EXCEPT !.pc = "pair", !.artifact.state = "failed"]
  <2>1. r \in Records /\ r.artifact.id \in ReportIds /\ r.artifact.state \in {"ready", "failed"}
        BY <1>2 DEF Records, Artifacts, Working
  <2>2. job' = [job EXCEPT ![w] = r]
        BY <1>2, <1>6
  <2> HIDE DEF r
  <2>3. JobMove(w)
        BY <1>1, <1>2, <1>3, <2>1, <2>2, RecordMovesJob
  <2> QED
      BY <1>1, <1>4, <2>3, RowsStay
<1> QED
    BY <1>5, <1>6 DEF Confirm

(* Deleting the object leaves the store in its domain. *)
LEMMA CompensateKeepsStore ==
    ASSUME Inductive, NEW w \in Workers, Compensate(w) PROVE object' \in ReportIds \cup {NoReport}
BY DEF Compensate, Inductive, WorldOK

(* The pair is written in one commit, refused, or left with an unknown outcome. *)
LEMMA PairMoves ==
    ASSUME Inductive, NEW w \in Workers, Pair(w) PROVE RowsMove /\ JobMove(w)
<1>1. At(w, "pair") /\ UNCHANGED <<success, late, finite, broker, reader>>
      BY DEF Pair
<1>2. /\ job[w].artifact \in Artifacts /\ job[w].artifact.id \in ReportIds
      /\ job[w].artifact.state \in {"ready", "failed"} /\ job[w].pc \in Prepared
      /\ analysis \in Begun /\ (analysis \notin Final => analysis = "running") /\ ~At(w, "idle")
      BY <1>1, AtWork DEF At, Prepared
<1>3. faults' \in Failures
      BY FaultsStayBounded DEF Pair
<1>4. object' \in ReportIds \cup {NoReport}
      BY CompensateKeepsStore DEF Pair, Inductive, WorldOK
<1>5. CASE Acknowledge(w)
  <2>1. JobMove(w) /\ lock' \in Workers \cup {NoWorker}
        BY <1>1, <1>2, <1>5, AnswerMovesJob
  <2>2. WorldOK'
        BY <1>3, <1>4, <2>1 DEF WorldOK
  <2>3. CASE UNCHANGED <<analysis, report>>
        BY <1>1, <2>1, <2>2, <2>3, RowsStay DEF rows
  <2>4. CASE analysis \notin Final /\ WritePair(job[w].artifact)
        BY <1>1, <1>2, <2>1, <2>2, <2>4, PairMovesRows
  <2>5. job' = [job EXCEPT ![w] = Rest] /\ job \in [Workers -> Records]
        BY <1>5 DEF Acknowledge, Inductive, JobsOK
  <2>6. ~Go(w, "reconcile")
        BY <2>5 DEF Go, Rest
  <2> QED
      BY <2>3, <2>4, <2>6 DEF Pair
<1>6. CASE Go(w, "reconcile") /\ UNCHANGED <<tasks, lock>>
  <2>1. WorldOK'
        BY <1>3, <1>4, <1>6 DEF Inductive, WorldOK
  <2>2. CASE UNCHANGED <<analysis, report>>
    <3>1. JobMove(w)
          BY <1>1, <1>2, <1>6, <2>2, GoMovesJob DEF Working, Begun, Final
    <3> QED
        BY <1>1, <2>1, <2>2, <3>1, RowsStay DEF rows
  <2>3. CASE analysis \notin Final /\ WritePair(job[w].artifact)
    <3>1. JobMove(w)
          BY <1>1, <1>2, <1>6, <2>3, GoMovesJob DEF Working, Begun, Final, WritePair
    <3> QED
        BY <1>1, <1>2, <1>6, <2>1, <2>3, <3>1, PairMovesRows
  <2>4. job' = [job EXCEPT ![w].pc = "reconcile"] /\ job \in [Workers -> Records]
        BY <1>6 DEF Go, Inductive, JobsOK
  <2>5. ~Acknowledge(w)
        BY <2>4 DEF Acknowledge, Rest
  <2> QED
      BY <1>6, <2>2, <2>3, <2>5 DEF Pair
<1> QED
    BY <1>5, <1>6 DEF Pair

(* What is found of the pair decides the way on; the rows are only read. *)
LEMMA ReconcileMoves ==
    ASSUME Inductive, NEW w \in Workers, Reconcile(w) PROVE RowsMove /\ JobMove(w)
<1>1. At(w, "reconcile") /\ UNCHANGED <<rows, broker, reader>>
      BY DEF Reconcile
<1>2. job[w].pc \in Prepared /\ analysis \in Begun /\ ~At(w, "idle")
      BY <1>1, AtWork DEF At, Prepared
<1>3. faults' \in Failures
      BY FaultsStayBounded DEF Reconcile
<1>4. object' \in ReportIds \cup {NoReport}
      BY CompensateKeepsStore DEF Reconcile, Inductive, WorldOK
<1>5. CASE Acknowledge(w) \/ Retry(w)
  <2>1. JobMove(w) /\ lock' \in Workers \cup {NoWorker}
        BY <1>1, <1>2, <1>5, AnswerMovesJob
  <2>2. WorldOK'
        BY <1>3, <1>4, <2>1 DEF WorldOK
  <2> QED
      BY <1>1, <2>1, <2>2, RowsStay
<1>6. CASE (Go(w, "failResource") \/ Go(w, "failPair")) /\ UNCHANGED <<tasks, lock>>
  <2>1. analysis' \in Begun /\ analysis' # "none"
        BY <1>1, <1>2 DEF rows, Begun, Final
  <2>2. JobMove(w)
        BY <1>1, <1>2, <1>6, <2>1, GoMovesJob DEF Working
  <2>3. WorldOK'
        BY <1>3, <1>4, <1>6 DEF Inductive, WorldOK
  <2> QED
      BY <1>1, <2>2, <2>3, RowsStay
<1> QED
    BY <1>5, <1>6 DEF Reconcile

(* A report that is told of is failed before its object is deleted. *)
LEMMA FailResourceMoves ==
    ASSUME Inductive, NEW w \in Workers, FailResource(w) PROVE RowsMove /\ JobMove(w)
<1>1. At(w, "failResource") /\ UNCHANGED <<analysis, success, late, finite, broker, reader>>
      BY DEF FailResource
<1>2. job[w].pc \in Prepared /\ analysis \in Begun /\ ~At(w, "idle")
      BY <1>1, AtWork DEF At, Prepared
<1>3. faults' \in Failures
      BY FaultsStayBounded DEF FailResource
<1>4. object' \in ReportIds \cup {NoReport}
      BY CompensateKeepsStore DEF FailResource, Inductive, WorldOK
<1>5. CASE Retry(w) /\ UNCHANGED object
  <2>1. JobMove(w) /\ lock' \in Workers \cup {NoWorker}
        BY <1>1, <1>2, <1>5, AnswerMovesJob
  <2>2. WorldOK'
        BY <1>3, <1>4, <2>1 DEF WorldOK
  <2>3. CASE UNCHANGED report
        BY <1>1, <1>5, <2>1, <2>2, <2>3, RowsStay DEF rows
  <2>4. CASE report.id # NoReport /\ report' = Failed(report)
        BY <1>1, <2>1, <2>2, <2>4, RetractMovesRows
  <2>5. ~Go(w, "completeFailed")
    <3>1. job' = [job EXCEPT ![w] = Rest] /\ job \in [Workers -> Records]
          BY <1>5 DEF Retry, Inductive, JobsOK
    <3> QED
        BY <3>1 DEF Go, Rest
  <2> QED
      BY <2>3, <2>4, <2>5 DEF FailResource
<1>6. CASE /\ report.id # NoReport /\ report' = Failed(report)
           /\ Go(w, "completeFailed") /\ UNCHANGED <<tasks, lock>>
  <2>1. analysis' \in Begun /\ analysis' # "none"
        BY <1>1, <1>2 DEF Begun, Final
  <2>2. JobMove(w)
        BY <1>1, <1>2, <1>6, <2>1, GoMovesJob DEF Working
  <2>3. WorldOK'
        BY <1>3, <1>4, <1>6 DEF Inductive, WorldOK
  <2> QED
      BY <1>1, <1>6, <2>2, <2>3, RetractMovesRows
<1> QED
    BY <1>5, <1>6 DEF FailResource

(* An analysis with a failed report is a completed one already. *)
LEMMA CompleteFailedMoves ==
    ASSUME Inductive, NEW w \in Workers, CompleteFailed(w) PROVE RowsMove /\ JobMove(w)
<1>1. At(w, "completeFailed") /\ UNCHANGED <<success, late, finite, report, object, broker, reader>>
      BY DEF CompleteFailed
<1>2. ~At(w, "idle")
      BY <1>1 DEF At
<1>3. faults' \in Failures
      BY FaultsStayBounded DEF CompleteFailed
<1>4. (Acknowledge(w) \/ Retry(w)) /\ UNCHANGED analysis
  <2>1. analysis \notin Final => report.state # "failed"
        BY DEF Inductive, RowsOK, Final
  <2> QED
      BY <2>1 DEF CompleteFailed
<1>5. JobMove(w) /\ lock' \in Workers \cup {NoWorker}
      BY <1>1, <1>2, <1>4, AnswerMovesJob
<1>6. WorldOK'
      BY <1>1, <1>3, <1>5 DEF Inductive, WorldOK
<1> QED
    BY <1>1, <1>4, <1>5, <1>6, RowsStay DEF rows

(* A pair with a failed report is written, or its commit is looked at again. *)
LEMMA FailPairMoves ==
    ASSUME Inductive, NEW w \in Workers, FailPair(w) PROVE RowsMove /\ JobMove(w)
<1> DEFINE a == Failed(job[w].artifact)
<1>1. At(w, "failPair") /\ UNCHANGED <<success, late, finite, object, broker, reader>>
      BY DEF FailPair
<1>2. /\ job[w] \in Records /\ job[w].artifact \in Artifacts /\ job[w].artifact.id \in ReportIds
      /\ analysis \in Begun /\ (analysis \notin Final => analysis = "running") /\ ~At(w, "idle")
      BY <1>1, AtWork DEF At, Prepared
<1>3. faults' \in Failures
      BY FaultsStayBounded DEF FailPair
<1>4. a \in Artifacts /\ a.id \in ReportIds /\ a.state \in {"ready", "failed"}
      BY <1>2 DEF Failed, Artifacts
<1>5. UNCHANGED <<analysis, report>> \/ (analysis \notin Final /\ WritePair(a))
      BY DEF FailPair
<1>6. JobMove(w) /\ lock' \in Workers \cup {NoWorker}
  <2>1. CASE Acknowledge(w)
        BY <1>1, <1>2, <2>1, AnswerMovesJob
  <2>2. CASE job' = [job EXCEPT ![w].pc = "recheck", ![w].artifact = a] /\ UNCHANGED <<tasks, lock>>
    <3> DEFINE r == [job[w] EXCEPT !.pc = "recheck", !.artifact = a]
    <3>1. r \in Records /\ r.pc = "recheck" /\ r.artifact = a
          BY <1>2, <1>4 DEF Records
    <3>2. job' = [job EXCEPT ![w] = r]
          BY <1>2, <2>2 DEF Inductive, JobsOK
    <3>3. analysis' \in Begun /\ analysis' # "none"
          BY <1>2, <1>5 DEF WritePair, Begun, Final
    <3> HIDE DEF r, a
    <3> QED
        BY <1>1, <1>2, <1>4, <2>2, <3>1, <3>2, <3>3, RecordMovesJob DEF Inductive, WorldOK
  <2> QED
      BY <2>1, <2>2 DEF FailPair
<1>7. WorldOK'
      BY <1>1, <1>3, <1>6 DEF Inductive, WorldOK
<1>8. CASE UNCHANGED <<analysis, report>>
      BY <1>1, <1>6, <1>7, <1>8, RowsStay DEF rows
<1>9. CASE analysis \notin Final /\ WritePair(a)
  <2> HIDE DEF a
  <2> QED
      BY <1>1, <1>2, <1>4, <1>6, <1>7, <1>9, PairMovesRows
<1> QED
    BY <1>5, <1>8, <1>9

(* The second look at the pair only reads the rows. *)
LEMMA RecheckMoves ==
    ASSUME Inductive, NEW w \in Workers, Recheck(w) PROVE RowsMove /\ JobMove(w)
<1>1. At(w, "recheck") /\ UNCHANGED <<rows, object, broker, reader>>
      BY DEF Recheck
<1>2. job[w].pc \in Prepared /\ analysis \in Begun /\ ~At(w, "idle")
      BY <1>1, AtWork DEF At, Prepared
<1>3. faults' \in Failures
      BY FaultsStayBounded DEF Recheck
<1>4. JobMove(w) /\ lock' \in Workers \cup {NoWorker}
  <2>1. CASE Acknowledge(w) \/ Retry(w)
        BY <1>1, <1>2, <2>1, AnswerMovesJob
  <2>2. CASE Go(w, "failResource") /\ UNCHANGED <<tasks, lock>>
    <3>1. analysis' \in Begun /\ analysis' # "none"
          BY <1>1, <1>2 DEF rows, Begun, Final
    <3> QED
        BY <1>1, <1>2, <2>2, <3>1, GoMovesJob DEF Working, Inductive, WorldOK
  <2> QED
      BY <2>1, <2>2 DEF Recheck
<1>5. WorldOK'
      BY <1>1, <1>3, <1>4 DEF Inductive, WorldOK
<1> QED
    BY <1>1, <1>4, <1>5, RowsStay

(* The handler ends what is not protected and retries what is. *)
LEMMA HandleMoves ==
    ASSUME Inductive, NEW w \in Workers, Handle(w) PROVE RowsMove /\ JobMove(w)
<1>1. /\ At(w, "handler") /\ UNCHANGED <<success, late, finite, report, object, broker, reader, faults>>
      /\ Acknowledge(w) \/ Retry(w)
      BY DEF Handle
<1>2. ~At(w, "idle") /\ analysis # "none"
      BY <1>1, AtWork DEF At
<1>3. JobMove(w) /\ lock' \in Workers \cup {NoWorker}
      BY <1>1, <1>2, AnswerMovesJob
<1>4. WorldOK'
      BY <1>1, <1>3 DEF Inductive, WorldOK
<1>5. CASE UNCHANGED analysis
      BY <1>1, <1>3, <1>4, <1>5, RowsStay DEF rows
<1>6. CASE ~(UNCHANGED analysis)
  <2>1. ~success /\ analysis \notin Final /\ analysis' \in {"failed", "timed_out"}
        BY <1>6 DEF Handle
  <2>2. analysis \in {"queued", "running"}
        BY <1>2, <2>1, AtWork DEF Begun
  <2> QED
      BY <1>1, <1>3, <1>4, <2>1, <2>2, StopMovesRows
<1> QED
    BY <1>5, <1>6

(* An exception, a death or a lost task leaves the rows to others. *)
LEMMA FaultMoves ==
    ASSUME Inductive, NEW w \in Workers, Raise(w) \/ Crash(w) \/ LoseTask(w)
    PROVE  RowsMove /\ JobMove(w)
<1>1. /\ UNCHANGED <<rows, object, broker, reader>> /\ ~At(w, "idle")
      /\ Fault \/ NoFault \/ Lose({"task"})
      BY DEF Raise, Crash, LoseTask, Working, At
<1>2. faults' \in Failures
      BY <1>1, FaultsStayBounded, LossesAreBounded
<1>3. CASE Acknowledge(w) \/ Retry(w)
  <2>1. JobMove(w) /\ lock' \in Workers \cup {NoWorker}
        BY <1>1, <1>3, AnswerMovesJob
  <2>2. WorldOK'
        BY <1>1, <1>2, <2>1 DEF Inductive, WorldOK
  <2> QED
      BY <1>1, <2>1, <2>2, RowsStay
<1>4. CASE Go(w, "handler") /\ UNCHANGED <<tasks, lock>>
  <2>1. analysis' # "none"
        BY <1>1, AtWork DEF rows
  <2>2. JobMove(w)
        BY <1>1, <1>4, <2>1, GoMovesJob DEF Prepared
  <2>3. WorldOK'
        BY <1>1, <1>2, <1>4 DEF Inductive, WorldOK
  <2> QED
      BY <1>1, <2>2, <2>3, RowsStay
<1> QED
    BY <1>3, <1>4 DEF Raise, Crash, LoseTask

-----------------------------------------------------------------------------
(* The steps of everybody else. *)

(* A delivery takes the lock and begins, or finds the worker busy. *)
LEMMA StartKeeps ==
    ASSUME Inductive, NEW w \in Workers, Start(w) PROVE Inductive' /\ ServiceStep
<1>1. /\ At(w, "idle") /\ tasks > 0 /\ tasks' = tasks - 1
      /\ UNCHANGED <<rows, object, broker, reader, faults>>
      /\ \/ lock' = w /\ Go(w, "begin")
         \/ UNCHANGED <<lock, job>>
      BY DEF Start
<1>2. tasks \in Nat /\ analysis # "none" /\ Copies <= MaxTasks /\ MaxTasks \in Nat
      BY <1>1, WorkerAssumption DEF Inductive, BrokerOK
<1>3. WorldOK' /\ RowsMove
      BY <1>1, RowsStay DEF Inductive, WorldOK
<1>4. JobsOK'
  <2>1. CASE UNCHANGED job
        BY <1>1, <2>1 DEF Inductive, JobsOK, JobSound, rows
  <2>2. CASE Go(w, "begin")
    <3>1. job[w] \in Records /\ job \in [Workers -> Records]
          BY DEF Inductive, JobsOK
    <3>2. [job[w] EXCEPT !.pc = "begin"] \in Records
          BY <3>1 DEF Records, Working
    <3>3. job' \in [Workers -> Records] /\ job'[w].pc = "begin" /\ \A p \in Workers \ {w} : job'[p] = job[p]
          BY <2>2, <3>1, <3>2 DEF Go, Records
    <3>4. JobSound(w)'
          BY <1>1, <1>2, <3>3 DEF JobSound, Prepared, rows
    <3>5. \A p \in Workers \ {w} : JobSound(p)'
          BY <1>1, <3>3 DEF Inductive, JobsOK, JobSound, rows
    <3> QED
        BY <3>3, <3>4, <3>5 DEF JobsOK
  <2> QED
      BY <1>1, <2>1, <2>2
<1>5. tasks' \in Nat /\ Copies' <= MaxTasks
  <2>1. IsFiniteSet(Busy) /\ Cardinality(Busy) \in Nat
        BY BusyIsFinite
  <2>2. tasks' \in Nat
        BY <1>1, <1>2
  <2>3. CASE UNCHANGED job
    <3>1. Busy' = Busy
          BY <2>3 DEF Busy, At
    <3> QED
        BY <1>1, <1>2, <2>1, <2>2, <3>1 DEF Copies, Busy
  <2>4. CASE Go(w, "begin")
    <3>1. Busy' = Busy \cup {w} /\ w \notin Busy
          BY <1>1, <2>4 DEF Busy, At, Go, Inductive, JobsOK, Records
    <3>2. Cardinality(Busy') = Cardinality(Busy) + 1
          BY <2>1, <3>1, FS_AddElement
    <3> QED
        BY <1>1, <1>2, <2>1, <2>2, <3>2 DEF Copies, Busy
  <2> QED
      BY <1>1, <2>3, <2>4
<1>6. BrokerOK'
      BY <1>1, <1>2, <1>5 DEF Inductive, BrokerOK, broker, rows
<1>7. ReadersOK'
      BY <1>1 DEF Inductive, ReadersOK, rows
<1> QED
    BY <1>3, <1>4, <1>6, <1>7 DEF Inductive, RowsMove

(* An accepted analysis, the clock and the reconciliation write the rows and no job. *)
LEMMA RowWritersKeep ==
    ASSUME Inductive, Submit \/ Deadline \/ Expire PROVE Inductive' /\ ServiceStep
<1>1. UNCHANGED <<success, finite, report, object, tasks, lock, job, disp, reader, faults>>
      BY DEF Submit, Deadline, Expire
<1>2. WorldOK' /\ Seen' = Seen
      BY <1>1 DEF Inductive, WorldOK, Seen
<1>3. RowsOK' /\ Monotone
      BY <1>1 DEF Submit, Deadline, Expire, Inductive, RowsOK, SuccessIsProtected, Monotone, Begun, Final
<1>4. ServiceStep
      BY <1>2 DEF Submit, Deadline, Expire, ServiceStep, Seen, Service!Next, Service!Submit, Service!Stop
<1>5. JobsOK'
      BY <1>1, <1>3 DEF Inductive, JobsOK, JobSound, Monotone
<1>6. Copies' = Copies
      BY <1>1 DEF Copies, At
<1>7. BrokerOK'
      BY <1>1, <1>6 DEF Submit, Deadline, Expire, Inductive, BrokerOK
<1>8. ReadersOK'
      BY <1>1 DEF Inductive, ReadersOK
<1> QED
    BY <1>2, <1>3, <1>4, <1>5, <1>7, <1>8 DEF Inductive

(* The dispatchers move the task between the outbox row and the broker. *)
LEMMA DispatchKeeps ==
    ASSUME Inductive, NEW d \in Dispatchers, Dispatching(d) PROVE Inductive' /\ ServiceStep
<1>1. UNCHANGED <<rows, object, lock, job, reader>> /\ (Fault \/ NoFault)
      BY DEF Dispatching, LoadPending, Publish, Mark, NoFault
<1>2. faults' \in Failures
      BY <1>1, FaultsStayBounded
<1>3. RowsMove /\ WorldOK'
      BY <1>1, <1>2, RowsStay DEF Inductive, WorldOK
<1>4. JobsOK' /\ ReadersOK'
      BY <1>1 DEF Inductive, JobsOK, JobSound, ReadersOK, rows
<1>5. outbox' \in {"none", "pending", "dispatched"} /\ disp' \in [Dispatchers -> {"idle", "publish", "mark"}]
      BY DEF Dispatching, LoadPending, Publish, Mark, Inductive, BrokerOK
<1>6. analysis # "none"
      BY DEF Dispatching, LoadPending, Publish, Mark, Inductive, BrokerOK
<1>7. tasks' \in Nat /\ Copies' <= MaxTasks
  <2>1. Cardinality(Busy) \in Nat /\ tasks \in Nat /\ MaxTasks \in Nat /\ Copies = tasks + Cardinality(Busy)
        BY BusyIsFinite, WorkerAssumption DEF Inductive, BrokerOK, Copies, Busy
  <2>2. Copies' = tasks' + Cardinality(Busy)
        BY <1>1 DEF Copies, Busy, At
  <2>3. tasks' = tasks \/ (Copies < MaxTasks /\ tasks' = tasks + 1)
        BY DEF Dispatching, LoadPending, Publish, Mark
  <2> QED
      BY <2>1, <2>2, <2>3 DEF Inductive, BrokerOK
<1>8. BrokerOK'
      BY <1>1, <1>5, <1>6, <1>7 DEF BrokerOK, rows
<1> QED
    BY <1>3, <1>4, <1>8 DEF Inductive, RowsMove

(* A lost lock and the readers touch neither rows nor jobs. *)
LEMMA OthersKeep ==
    ASSUME Inductive,
           \/ \E w \in Workers : LoseLock(w)
           \/ \E r \in Readers : ReadRow(r) \/ ReadObject(r)
    PROVE  Inductive' /\ ServiceStep
<1>1. UNCHANGED <<rows, object, broker, tasks, job>> /\ (Lose({"lock"}) \/ NoFault)
      BY DEF LoseLock, ReadRow, ReadObject, NoFault
<1>2. faults' \in Failures
      BY <1>1, LossesAreBounded
<1>3. RowsMove /\ WorldOK'
      BY <1>1, <1>2, RowsStay DEF Inductive, WorldOK, LoseLock, ReadRow, ReadObject
<1>4. JobsOK'
      BY <1>1 DEF Inductive, JobsOK, JobSound, rows
<1>5. BrokerOK'
  <2>1. Copies' = Copies
        BY <1>1 DEF Copies, At
  <2> QED
      BY <1>1, <2>1 DEF Inductive, BrokerOK, broker, rows
<1>6. ReadersOK'
  <2>1. CASE UNCHANGED reader
        BY <1>1, <2>1 DEF Inductive, ReadersOK, rows
  <2>2. ASSUME NEW r \in Readers, ReadRow(r) PROVE ReadersOK'
    <3>1. report \in Artifacts /\ report.id # NoReport /\ report' = report
          BY <1>1, <2>2 DEF ReadRow, Inductive, RowsOK, rows
    <3> QED
        BY <2>2, <3>1 DEF ReadRow, Inductive, ReadersOK, Artifacts
  <2>3. ASSUME NEW r \in Readers, ReadObject(r) PROVE ReadersOK'
    <3>1. report' = report /\ object \in ReportIds \cup {NoReport}
          BY <1>1 DEF Inductive, WorldOK, rows
    <3> QED
        BY <2>3, <3>1 DEF ReadObject, Inductive, ReadersOK
  <2> QED
      BY <2>1, <2>2, <2>3 DEF LoseLock
<1> QED
    BY <1>3, <1>4, <1>5, <1>6 DEF Inductive, RowsMove

-----------------------------------------------------------------------------
(* The invariant, and what follows from it. *)

(* The initial state is sound. *)
LEMMA InitIsSound == Init => Inductive
<1> SUFFICES ASSUME Init PROVE Inductive
    OBVIOUS
<1>1. Copies = 0 /\ MaxTasks \in Nat
  <2>1. {w \in Workers : ~At(w, "idle")} = {} /\ tasks = 0
        BY DEF Init, At, Rest
  <2> QED
      BY <2>1, FS_EmptySet, WorkerAssumption DEF Copies
<1>2. RowsOK
  <2>1. report = NoArtifact /\ NoArtifact.id = NoReport /\ NoArtifact.state = "none" /\ NoArtifact \in Artifacts
        BY DEF Init, NoArtifact, Artifacts
  <2> QED
      BY <2>1 DEF Init, RowsOK, SuccessIsProtected, Begun
<1>3. BrokerOK
      BY <1>1 DEF Init, BrokerOK
<1>4. JobsOK /\ ReadersOK
      BY DEF Init, JobsOK, JobSound, ReadersOK, Rest, NoArtifact, Records, Artifacts, Prepared
<1>5. WorldOK
  <2>1. faults = [count |-> 0, lost |-> {}] /\ 0 \in 0..MaxFaults
        BY WorkerAssumption DEF Init
  <2>2. faults \in Failures
        BY <2>1 DEF Failures
  <2> QED
      BY <2>2 DEF Init, WorldOK
<1> QED
    BY <1>2, <1>3, <1>4, <1>5 DEF Inductive

(* Every step keeps the state sound and is one of the service's, or none. *)
LEMMA StepIsSound == Inductive /\ [Next]_vars => Inductive' /\ ServiceStep
<1> SUFFICES ASSUME Inductive, [Next]_vars PROVE Inductive' /\ ServiceStep
    OBVIOUS
<1>1. CASE UNCHANGED vars
  <2>1. Copies' = Copies
        BY <1>1 DEF vars, Copies, At
  <2> QED
      BY <1>1, <2>1 DEF vars, Inductive, RowsOK, SuccessIsProtected, WorldOK, BrokerOK, JobsOK, JobSound,
                        ReadersOK, ServiceStep, Seen
<1>2. CASE Submit \/ Deadline \/ Expire
      BY <1>2, RowWritersKeep
<1>3. ASSUME NEW d \in Dispatchers, LoadPending(d) \/ Publish(d) \/ Mark(d) PROVE Inductive' /\ ServiceStep
      BY <1>3, DispatchKeeps DEF Dispatching
<1>4. ASSUME NEW w \in Workers, Start(w) PROVE Inductive' /\ ServiceStep
      BY <1>4, StartKeeps
<1>5. ASSUME NEW w \in Workers, Step(w) \/ Raise(w) \/ Crash(w) \/ LoseTask(w) PROVE Inductive' /\ ServiceStep
  <2>1. RowsMove /\ JobMove(w)
        BY <1>5, BeginMoves, ExecuteMoves, NotScoreReadyMoves, ProtectMoves, RenderMoves, ConfirmMoves,
           PairMoves, ReconcileMoves, FailResourceMoves, CompleteFailedMoves, FailPairMoves, RecheckMoves, HandleMoves,
           FaultMoves DEF Step
  <2> QED
      BY <2>1, MoveKeepsInductive DEF RowsMove
<1>6. CASE \/ \E w \in Workers : LoseLock(w)
           \/ \E r \in Readers : ReadRow(r) \/ ReadObject(r)
      BY <1>6, OthersKeep
<1> QED
    BY <1>1, <1>2, <1>3, <1>4, <1>5, <1>6 DEF Next

(* The inductive invariant holds in every reachable state. *)
THEOREM Soundness == Spec => []Inductive
BY InitIsSound, StepIsSound, PTL DEF Spec

(* Rows, queues, workers and readers never leave their domains, the copies of the task stay in *)
(* their bound, and a completed analysis and its report come and stay together.                *)
THEOREM TypeCorrect == Spec => []TypeOK
<1>1. Inductive => TypeOK
  <2> SUFFICES ASSUME Inductive PROVE TypeOK
      OBVIOUS
  <2>1. tasks \in 0..MaxTasks
        BY BusyIsFinite, WorkerAssumption DEF Inductive, BrokerOK, Copies, Busy
  <2>2. analysis \in Final \cup {"none", "queued", "running"} /\ (analysis = "completed" <=> report.id # NoReport)
        BY DEF Inductive, RowsOK, Begun
  <2>3. success \in BOOLEAN /\ late \in BOOLEAN /\ finite \in BOOLEAN /\ report \in Artifacts
        BY DEF Inductive, RowsOK
  <2> QED
      BY <2>1, <2>2, <2>3 DEF TypeOK, Inductive, WorldOK, Failures, BrokerOK, JobsOK, ReadersOK, Records, Artifacts
<1> QED
    BY <1>1, Soundness, PTL

(* A success that was recorded in time is never timed out, failed or called unscorable, with any  *)
(* number of workers that run the task twice, die, lose their lock or their task.                 *)
THEOREM SuccessStaysProtected == Spec => []SuccessIsProtected
<1>1. Inductive => SuccessIsProtected
      BY DEF Inductive, RowsOK
<1> QED
    BY <1>1, Soundness, PTL

(* No reader is served another rendering than the one the analysis was completed with. *)
THEOREM ReadersGetTheReport == Spec => []ServedIsTheReport
<1>1. Inductive => ServedIsTheReport
      BY DEF Inductive, ReadersOK, ServedIsTheReport
<1> QED
    BY <1>1, Soundness, PTL

(* What the rows show of any run is a run of AnalysisService: terminal states stay, and the report *)
(* appears in the step that completes the analysis.                                                *)
THEOREM ImplementsAnalysisService == Spec => ImplementsService
<1>1. Init => Service!Init
      BY DEF Init, Service!Init, NoArtifact
<1>2. Inductive /\ [Next]_vars =>
         [Service!Next]_<<analysis, IF report.id = NoReport THEN "none" ELSE report.state>>
      BY StepIsSound DEF ServiceStep, Seen
<1> QED
    BY <1>1, <1>2, Soundness, PTL DEF Spec, ImplementsService, Service!Spec

(* A loss is never taken back, so that there is none now if there is none later. *)
LEMMA LossesStay ==
    ASSUME Inductive, [Next]_vars PROVE faults.lost \subseteq faults'.lost
<1>1. NoFault \/ Lose({}) \/ Lose({"task"}) \/ Lose({"lock"})
      BY DEF Next, vars, NoFault, Fault, Submit, Deadline, Expire, LoadPending, Publish, Mark, Start, Step, Begin,
             Execute, NotScoreReady, Protect, Render, Confirm, Pair, Reconcile, FailResource, CompleteFailed,
             FailPair, Recheck, Handle, Raise, Crash, LoseTask, LoseLock, ReadRow, ReadObject
<1> QED
    BY <1>1, LossesAreBounded

-----------------------------------------------------------------------------
(* Nothing that was accepted is forgotten, as long as tasks are not lost. *)

Wanted == analysis = "queued" \/ (analysis = "running" /\ success)
Held == tasks > 0 \/ \E w \in Workers : job[w].pc # "idle"
WorkKept ==
    /\ Wanted => Held \/ (outbox = "pending" /\ \A d \in Dispatchers : disp[d] # "mark")
    /\ lock # NoWorker => job[lock].pc # "idle"

(* How a step of a worker leaves its task: in hand, put back, or done for good. *)
InHand(w) == job'[w].pc # "idle" /\ UNCHANGED <<tasks, lock>>
PutBack(w) == Retry(w)
Done(w) == Acknowledge(w) /\ analysis' \in Final

(* A worker that goes to a place is at that place. *)
LEMMA GoIsInHand ==
    ASSUME Inductive, NEW w \in Workers, NEW pc, pc # "idle", Go(w, pc), UNCHANGED <<tasks, lock>>
    PROVE  InHand(w)
BY DEF Inductive, JobsOK, Records, Go, InHand

(* No step of a worker puts its task away before the analysis has ended. *)
LEMMA TasksAreAnswered ==
    ASSUME Inductive, NEW w \in Workers, Step(w) \/ Raise(w) \/ Crash(w)
    PROVE  InHand(w) \/ PutBack(w) \/ Done(w)
<1>1. CASE Begin(w)
      BY <1>1, GoIsInHand DEF Begin, Done, Final
<1>2. CASE Execute(w)
  <2>1. job'[w].pc = "outcome" /\ UNCHANGED <<tasks, lock>>
        BY <1>2 DEF Execute, Inductive, JobsOK, Records
  <2> QED
      BY <2>1 DEF InHand
<1>3. CASE NotScoreReady(w)
      BY <1>3 DEF NotScoreReady, PutBack, Done, Final
<1>4. CASE Protect(w)
      BY <1>4, GoIsInHand DEF Protect, Done, Final
<1>5. CASE Render(w) \/ Confirm(w)
  <2>1. job'[w].pc \in {"head", "pair"} /\ UNCHANGED <<tasks, lock>>
        BY <1>5 DEF Render, Confirm, Go, Inductive, JobsOK, Records
  <2> QED
      BY <2>1 DEF InHand
<1>6. CASE Pair(w)
      BY <1>6, GoIsInHand DEF Pair, WritePair, Done, Final
<1>7. CASE Reconcile(w)
  <2>1. ASSUME NEW finding \in Findings(w), finding \in {"ready", "failed"} PROVE analysis = "completed"
        BY <2>1 DEF Findings
  <2>2. UNCHANGED analysis
        BY <1>7 DEF Reconcile, rows
  <2> QED
      BY <1>7, <2>1, <2>2, GoIsInHand DEF Reconcile, PutBack, Done, Final
<1>8. CASE FailResource(w)
      BY <1>8, GoIsInHand DEF FailResource, PutBack
<1>9. CASE CompleteFailed(w)
      BY <1>9 DEF CompleteFailed, PutBack, Done, Final
<1>10. CASE FailPair(w)
  <2>1. CASE Acknowledge(w) /\ analysis' \in Final
        BY <2>1 DEF Done
  <2>2. CASE job' = [job EXCEPT ![w].pc = "recheck", ![w].artifact = Failed(@)] /\ UNCHANGED <<tasks, lock>>
        BY <2>2 DEF InHand, Inductive, JobsOK, Records
  <2> QED
      BY <1>10, <2>1, <2>2 DEF FailPair, WritePair, Final
<1>13. CASE Recheck(w)
  <2>1. ASSUME NEW finding \in Findings(w), finding = "failed" PROVE analysis = "completed"
        BY <2>1 DEF Findings
  <2>2. UNCHANGED analysis
        BY <1>13 DEF Recheck, rows
  <2> QED
      BY <1>13, <2>1, <2>2, GoIsInHand DEF Recheck, PutBack, Done, Final
<1>11. CASE Handle(w)
      BY <1>11 DEF Handle, PutBack, Done, Final
<1>12. CASE Raise(w) \/ Crash(w)
      BY <1>12, GoIsInHand DEF Raise, Crash, PutBack
<1> QED
    BY <1>1, <1>2, <1>3, <1>4, <1>5, <1>6, <1>7, <1>8, <1>9, <1>10, <1>11, <1>12, <1>13 DEF Step

(* A worker's step leaves its task in hand or at the broker, or the analysis ended. *)
LEMMA StepKeepsWork ==
    ASSUME Inductive, WorkKept, NEW w \in Workers, JobMove(w), InHand(w) \/ PutBack(w) \/ Done(w)
    PROVE  WorkKept'
<1>1. /\ job \in [Workers -> Records] /\ tasks \in Nat
      /\ \A p \in Workers \ {w} : job'[p] = job[p]
      BY DEF Inductive, JobsOK, BrokerOK, JobMove
<1>2. CASE InHand(w)
      BY <1>1, <1>2 DEF InHand, WorkKept, Held, Inductive, WorldOK
<1>3. CASE PutBack(w) \/ Done(w)
  <2>1. (lock' # NoWorker => lock' = lock /\ lock # w) /\ lock \in Workers \cup {NoWorker}
        BY <1>3 DEF PutBack, Done, Retry, Acknowledge, Release, Inductive, WorldOK
  <2>2. lock' # NoWorker => job'[lock'].pc # "idle"
        BY <1>1, <2>1 DEF WorkKept
  <2>3. Wanted' => Held'
    <3>1. CASE PutBack(w)
          BY <1>1, <3>1 DEF PutBack, Retry, Held
    <3>2. CASE Done(w)
          BY <3>2 DEF Done, Wanted, Final
    <3> QED
        BY <1>3, <3>1, <3>2
  <2> QED
      BY <2>2, <2>3 DEF WorkKept
<1> QED
    BY <1>2, <1>3

(* Every other step keeps the work as well. *)
LEMMA OthersKeepWork ==
    ASSUME Inductive, WorkKept,
           \/ Submit \/ Deadline \/ Expire
           \/ \E d \in Dispatchers : LoadPending(d) \/ Publish(d) \/ Mark(d)
           \/ \E w \in Workers : Start(w) \/ LoseLock(w)
           \/ \E r \in Readers : ReadRow(r) \/ ReadObject(r)
    PROVE  WorkKept'
<1>1. tasks \in Nat /\ disp \in [Dispatchers -> {"idle", "publish", "mark"}] /\ job \in [Workers -> Records]
      BY DEF Inductive, BrokerOK, JobsOK
<1>2. CASE Submit
  <2>1. outbox' = "pending" /\ UNCHANGED <<disp, lock, job>> /\ \A d \in Dispatchers : disp[d] = "idle"
        BY <1>2 DEF Submit, Inductive, BrokerOK
  <2> QED
      BY <2>1 DEF WorkKept
<1>3. CASE Deadline
      BY <1>3 DEF Deadline, WorkKept, Wanted, Held
<1>4. CASE Expire
      BY <1>4 DEF Expire, WorkKept, Wanted
<1>5. ASSUME NEW d \in Dispatchers, LoadPending(d) \/ Publish(d) \/ Mark(d) PROVE WorkKept'
  <2>1. UNCHANGED <<analysis, success, lock, job>>
        BY <1>5 DEF LoadPending, Publish, Mark, rows
  <2>2. CASE LoadPending(d)
        BY <1>1, <2>1, <2>2 DEF LoadPending, WorkKept, Wanted, Held
  <2>3. CASE Publish(d)
    <3>1. CASE tasks' = tasks + 1
          BY <1>1, <2>1, <3>1 DEF WorkKept, Held
    <3>2. CASE disp' = [disp EXCEPT ![d] = "idle"] /\ UNCHANGED <<tasks, outbox>>
          BY <1>1, <2>1, <3>2 DEF WorkKept, Wanted, Held
    <3> QED
        BY <2>3, <3>1, <3>2 DEF Publish
  <2>4. CASE Mark(d)
        BY <1>1, <2>1, <2>4 DEF Mark, WorkKept, Wanted, Held
  <2> QED
      BY <1>5, <2>2, <2>3, <2>4
<1>6. ASSUME NEW w \in Workers, Start(w) PROVE WorkKept'
  <2>1. CASE lock = NoWorker /\ lock' = w /\ Go(w, "begin")
    <3>1. job'[w].pc = "begin"
          BY <1>1, <2>1 DEF Go, Records
    <3> QED
        BY <2>1, <3>1 DEF WorkKept, Held
  <2>2. CASE lock # NoWorker /\ UNCHANGED <<lock, job>>
        BY <2>2 DEF WorkKept, Held, Inductive, WorldOK
  <2> QED
      BY <1>6, <2>1, <2>2 DEF Start
<1>7. ASSUME NEW w \in Workers, LoseLock(w) PROVE WorkKept'
      BY <1>7 DEF LoseLock, WorkKept, Wanted, Held, rows, broker
<1>8. ASSUME NEW r \in Readers, ReadRow(r) \/ ReadObject(r) PROVE WorkKept'
      BY <1>8 DEF ReadRow, ReadObject, WorkKept, Wanted, Held, rows, broker
<1> QED
    BY <1>2, <1>3, <1>4, <1>5, <1>6, <1>7, <1>8

(* An accepted analysis that has not ended, unless it runs without a success, is pending in the outbox, *)
(* queued at the broker or carried by a worker, whatever crashes, until a task is lost.                 *)
THEOREM WorkStays == Spec => []WorkIsNeverForgotten
<1> DEFINE Kept == "task" \notin faults.lost => WorkKept
<1>1. Init => Kept
      BY DEF Init, WorkKept, Wanted
<1>2. Inductive /\ Kept /\ [Next]_vars => Kept'
  <2> SUFFICES ASSUME Inductive, Kept, [Next]_vars, "task" \notin faults'.lost PROVE WorkKept'
      OBVIOUS
  <2>1. WorkKept
        BY LossesStay
  <2>2. CASE UNCHANGED vars
        BY <2>1, <2>2 DEF vars, WorkKept, Wanted, Held
  <2>3. ASSUME NEW w \in Workers, Step(w) \/ Raise(w) \/ Crash(w) PROVE WorkKept'
    <3>1. JobMove(w)
          BY <2>3, BeginMoves, ExecuteMoves, NotScoreReadyMoves, ProtectMoves, RenderMoves, ConfirmMoves,
             PairMoves, ReconcileMoves, FailResourceMoves, CompleteFailedMoves, FailPairMoves, RecheckMoves, HandleMoves,
             FaultMoves DEF Step
    <3> QED
        BY <2>1, <2>3, <3>1, TasksAreAnswered, StepKeepsWork
  <2>4. \A w \in Workers : ~LoseTask(w)
        BY DEF LoseTask, Lose
  <2> QED
      BY <2>1, <2>2, <2>3, <2>4, OthersKeepWork DEF Next
<1>3. Inductive /\ Kept => WorkIsNeverForgotten
  <2> SUFFICES ASSUME Inductive, Held PROVE Copies > 0
      BY DEF WorkKept, Wanted, WorkIsNeverForgotten
  <2>1. tasks \in Nat /\ IsFiniteSet(Busy) /\ Cardinality(Busy) \in Nat
        BY BusyIsFinite DEF Inductive, BrokerOK
  <2>2. tasks > 0 \/ Busy # {}
        BY DEF Held, Busy, At
  <2>3. tasks > 0 \/ Cardinality(Busy) > 0
        BY <2>1, <2>2, FS_EmptySet
  <2> QED
      BY <2>1, <2>3 DEF Copies, Busy
<1> QED
    BY <1>1, <1>2, <1>3, Soundness, PTL DEF Spec

-----------------------------------------------------------------------------
(* The stored bytes are those of the report, as long as locks are kept: the holder alone is busy, *)
(* and the bytes it has confirmed are the ones it writes into the pair.                           *)

Alone == \A w \in Workers : job[w].pc # "idle" => lock = w
Holder(w) ==
    /\ job[w].pc \in {"execute", "outcome", "render", "head", "pair", "failPair"} => analysis = "running"
    /\ job[w].pc \in {"head", "pair", "reconcile"} /\ job[w].artifact.state = "ready" =>
          object = job[w].artifact.id
    /\ job[w].pc = "reconcile" => analysis = "running" \/ (analysis = "completed" /\ report = job[w].artifact)
ObjectKept == report.state = "ready" => object = report.id
StoreKept == Alone /\ (\A w \in Workers : Holder(w)) /\ ObjectKept

(* A running analysis has no report yet. *)
LEMMA NoReportWhileRunning ==
    ASSUME Inductive, analysis # "completed" PROVE report.id = NoReport /\ report.state = "none"
BY DEF Inductive, RowsOK

(* The holder's own record and the store stay right in each of its steps. *)
LEMMA HolderStays ==
    ASSUME Inductive, NEW w \in Workers, Holder(w), ObjectKept, lock = w, JobMove(w),
           Step(w) \/ Raise(w) \/ Crash(w) \/ LoseTask(w)
    PROVE  Holder(w)' /\ ObjectKept'
<1>1. /\ job \in [Workers -> Records] /\ job[w] \in Records /\ job[w].artifact \in Artifacts
      /\ report \in Artifacts /\ object \in ReportIds \cup {NoReport} /\ analysis \in Begun \cup {"none", "queued"}
      /\ analysis # "completed" => report.id = NoReport /\ report.state = "none"
      BY AtWork, NoReportWhileRunning DEF Inductive, JobsOK, RowsOK, WorldOK
<1>2. ASSUME job'[w].pc \in {"idle", "handler"}, UNCHANGED <<object, report>>
      PROVE  Holder(w)' /\ ObjectKept'
      BY <1>2 DEF Holder, ObjectKept
<1>3. ASSUME NEW pc, Go(w, pc)
      PROVE  job'[w].pc = pc /\ job'[w].artifact = job[w].artifact
      BY <1>1, <1>3 DEF Go, Records
<1>4. ASSUME Acknowledge(w) \/ Retry(w) PROVE job'[w].pc = "idle"
      BY <1>1, <1>4 DEF Acknowledge, Retry, Rest
<1>5. CASE Begin(w)
  <2>1. UNCHANGED <<object, report>>
        BY <1>5 DEF Begin
  <2>2. CASE Acknowledge(w)
        BY <1>2, <1>4, <2>1, <2>2
  <2>3. CASE analysis' = "running" /\ Go(w, "execute")
        BY <1>3, <2>1, <2>3 DEF Holder, ObjectKept
  <2> QED
      BY <1>5, <2>2, <2>3 DEF Begin
<1>6. CASE Execute(w)
  <2>1. job'[w].pc = "outcome" /\ UNCHANGED <<analysis, object, report>> /\ analysis = "running"
        BY <1>1, <1>6 DEF Execute, Records, Holder, At, rows
  <2> QED
      BY <2>1 DEF Holder, ObjectKept
<1>7. CASE NotScoreReady(w) \/ Handle(w) \/ CompleteFailed(w)
      BY <1>2, <1>4, <1>7 DEF NotScoreReady, Handle, CompleteFailed
<1>8. CASE Protect(w)
  <2>1. UNCHANGED <<object, report>>
        BY <1>8 DEF Protect
  <2>2. CASE Acknowledge(w)
        BY <1>2, <1>4, <2>1, <2>2
  <2>3. CASE analysis' = "running" /\ Go(w, "render")
        BY <1>3, <2>1, <2>3 DEF Holder, ObjectKept
  <2> QED
      BY <1>8, <2>2, <2>3 DEF Protect
<1>9. CASE Render(w)
  <2>1. analysis = "running" /\ UNCHANGED <<analysis, report>>
        BY <1>9 DEF Render, Holder, At, rows
  <2>2. /\ job'[w].pc \in {"head", "pair"}
        /\ job'[w].artifact.state = "ready" => object' = job'[w].artifact.id
        BY <1>1, <1>9 DEF Render, Records
  <2> QED
      BY <1>1, <2>1, <2>2 DEF Holder, ObjectKept
<1>10. CASE Confirm(w)
  <2>1. analysis = "running" /\ UNCHANGED <<analysis, report>>
        BY <1>10 DEF Confirm, Holder, At, rows
  <2>2. CASE Go(w, "pair") /\ UNCHANGED object
        BY <1>1, <1>3, <1>10, <2>1, <2>2 DEF Confirm, Holder, ObjectKept, At
  <2>3. CASE job' = [job EXCEPT ![w].pc = "pair", ![w].artifact.state = "failed"]
    <3>1. job'[w].pc = "pair" /\ job'[w].artifact.state = "failed"
          BY <1>1, <2>3 DEF Records, Artifacts
    <3> QED
        BY <1>1, <2>1, <3>1 DEF Holder, ObjectKept
  <2> QED
      BY <1>10, <2>2, <2>3 DEF Confirm
<1>11. CASE Pair(w)
  <2>1. /\ analysis = "running" /\ analysis \notin Final /\ At(w, "pair")
        /\ job[w].artifact.state = "ready" => object = job[w].artifact.id
        BY <1>11 DEF Pair, Holder, At, Final
  <2>2. UNCHANGED object
        BY <1>11, <2>1 DEF Pair
  <2>3. ObjectKept'
        BY <1>1, <1>11, <2>1, <2>2 DEF Pair, WritePair, ObjectKept
  <2>4. CASE Acknowledge(w)
        BY <1>4, <2>3, <2>4 DEF Holder
  <2>5. CASE Go(w, "reconcile")
    <3>1. job'[w].pc = "reconcile" /\ job'[w].artifact = job[w].artifact
          BY <1>3, <2>5
    <3>2. analysis' = "running" \/ (analysis' = "completed" /\ report' = job[w].artifact)
          BY <1>11, <2>1 DEF Pair, WritePair
    <3> QED
        BY <2>1, <2>2, <2>3, <3>1, <3>2 DEF Holder
  <2> QED
      BY <1>11, <2>1, <2>4, <2>5 DEF Pair
<1>12. CASE Reconcile(w)
  <2>1. /\ UNCHANGED <<analysis, report>> /\ At(w, "reconcile")
        /\ analysis = "running" \/ (analysis = "completed" /\ report = job[w].artifact)
        BY <1>12 DEF Reconcile, rows, Holder, At
  <2>2. CASE UNCHANGED object
    <3>1. ObjectKept'
          BY <2>1, <2>2 DEF ObjectKept
    <3>2. job'[w].pc \in {"idle", "failResource"} \/ (job'[w].pc = "failPair" /\ analysis = "running")
      <4>1. ASSUME NEW finding \in Findings(w), finding = "absent" PROVE analysis = "running"
            BY <2>1, <4>1 DEF Findings
      <4> QED
          BY <1>3, <1>4, <1>12, <4>1 DEF Reconcile
    <3> QED
        BY <2>1, <3>1, <3>2 DEF Holder
  <2>3. CASE ~(UNCHANGED object)
    <3>1. PICK finding \in Findings(w) :
             \/ finding = "failed" /\ Acknowledge(w)
             \/ finding = "absent" /\ Go(w, "failPair")
          BY <1>12, <2>3 DEF Reconcile
    <3>2. CASE finding = "failed" /\ Acknowledge(w)
      <4>1. report.state = "failed"
            BY <3>2 DEF Findings
      <4> QED
          BY <1>4, <2>1, <3>2, <4>1 DEF Holder, ObjectKept
    <3>3. CASE finding = "absent" /\ Go(w, "failPair")
      <4>1. analysis = "running"
            BY <2>1, <3>3 DEF Findings
      <4> QED
          BY <1>1, <1>3, <2>1, <3>3, <4>1 DEF Holder, ObjectKept
    <3> QED
        BY <3>1, <3>2, <3>3
  <2> QED
      BY <2>2, <2>3
<1>13. CASE FailResource(w)
  <2>1. CASE Retry(w) /\ UNCHANGED <<object, report>>
        BY <1>2, <1>4, <2>1
  <2>3. CASE Retry(w) /\ report' = Failed(report)
    <3>1. report'.state = "failed"
          BY <1>1, <2>3 DEF Failed, Artifacts
    <3> QED
        BY <1>4, <2>3, <3>1 DEF Holder, ObjectKept
  <2>2. CASE report' = Failed(report) /\ Go(w, "completeFailed")
    <3>1. report'.state = "failed"
          BY <1>1, <2>2 DEF Failed, Artifacts
    <3> QED
        BY <1>3, <2>2, <3>1 DEF Holder, ObjectKept
  <2> QED
      BY <1>13, <2>1, <2>2, <2>3 DEF FailResource
<1>14. CASE FailPair(w)
  <2>1. /\ UNCHANGED object /\ (UNCHANGED report \/ report' = Failed(job[w].artifact))
        /\ job'[w].pc \in {"idle", "recheck"}
    <3>1. CASE Acknowledge(w)
          BY <1>4, <1>14, <3>1 DEF FailPair, WritePair
    <3>2. CASE job' = [job EXCEPT ![w].pc = "recheck", ![w].artifact = Failed(job[w].artifact)]
      <4>1. job'[w].pc = "recheck"
            BY <1>1, <3>2 DEF Records
      <4> QED
          BY <1>14, <4>1 DEF FailPair, WritePair
    <3> QED
        BY <1>14, <3>1, <3>2 DEF FailPair
  <2>2. Failed(job[w].artifact).state = "failed"
        BY <1>1 DEF Failed, Artifacts
  <2> QED
      BY <2>1, <2>2 DEF Holder, ObjectKept
<1>16. CASE Recheck(w)
  <2>1. UNCHANGED <<object, report>> /\ job'[w].pc \in {"idle", "failResource"}
        BY <1>3, <1>4, <1>16 DEF Recheck, rows
  <2> QED
      BY <2>1 DEF Holder, ObjectKept
<1>15. CASE Raise(w) \/ Crash(w) \/ LoseTask(w)
      BY <1>2, <1>3, <1>4, <1>15 DEF Raise, Crash, LoseTask, rows
<1> QED
    BY <1>5, <1>6, <1>7, <1>8, <1>9, <1>10, <1>11, <1>12, <1>13, <1>14, <1>15, <1>16 DEF Step

(* A worker that steps holds the lock, and only it is busy afterwards, if at all. *)
LEMMA WorkersKeepStore ==
    ASSUME Inductive, StoreKept, NEW w \in Workers, Step(w) \/ Raise(w) \/ Crash(w) \/ LoseTask(w)
    PROVE  StoreKept'
<1>1. JobMove(w)
      BY BeginMoves, ExecuteMoves, NotScoreReadyMoves, ProtectMoves, RenderMoves, ConfirmMoves,
         PairMoves, ReconcileMoves, FailResourceMoves, CompleteFailedMoves, FailPairMoves, RecheckMoves, HandleMoves,
         FaultMoves DEF Step
<1>2. lock = w
      BY <1>1 DEF JobMove, StoreKept, Alone
<1>3. \A p \in Workers \ {w} : job'[p].pc = "idle"
      BY <1>1, <1>2 DEF StoreKept, Alone, JobMove, Inductive, JobsOK
<1>4. Holder(w)' /\ ObjectKept'
      BY <1>1, <1>2, HolderStays DEF StoreKept
<1>5. \A p \in Workers \ {w} : Holder(p)'
      BY <1>3 DEF Holder
<1>6. job'[w].pc # "idle" => lock' = w
  <2>1. CASE InHand(w) \/ PutBack(w) \/ Done(w)
        BY <1>2, <2>1 DEF InHand, PutBack, Done, Retry, Acknowledge, Rest, Inductive, JobsOK
  <2>2. CASE LoseTask(w)
        BY <2>2 DEF LoseTask, Acknowledge, Rest, Inductive, JobsOK
  <2> QED
      BY <2>1, <2>2, TasksAreAnswered
<1> QED
    BY <1>3, <1>4, <1>5, <1>6 DEF StoreKept, Alone

(* Everybody else finds the workers idle or leaves the rows and the store alone. *)
LEMMA OthersKeepStore ==
    ASSUME Inductive, StoreKept,
           \/ Submit \/ Deadline \/ Expire
           \/ \E d \in Dispatchers : LoadPending(d) \/ Publish(d) \/ Mark(d)
           \/ \E w \in Workers : Start(w)
           \/ \E r \in Readers : ReadRow(r) \/ ReadObject(r)
    PROVE  StoreKept'
<1>1. UNCHANGED <<object, report>>
      BY DEF Submit, Deadline, Expire, LoadPending, Publish, Mark, Start, ReadRow, ReadObject, rows
<1>2. CASE Submit \/ Expire
  <2>1. UNCHANGED <<job, lock>> /\ \A w \in Workers : job[w].pc = "idle"
        BY <1>2, WorkerAssumption DEF Submit, Expire, StoreKept, Alone, Inductive, JobsOK, JobSound
  <2> QED
      BY <1>1, <2>1 DEF StoreKept, Alone, Holder, ObjectKept
<1>3. CASE UNCHANGED <<analysis, job, lock>>
      BY <1>1, <1>3 DEF StoreKept, Alone, Holder, ObjectKept
<1>4. ASSUME NEW w \in Workers, Start(w), lock = NoWorker PROVE StoreKept'
  <2>1. lock' = w /\ Go(w, "begin") /\ UNCHANGED analysis
        BY <1>4 DEF Start, rows
  <2>2. \A p \in Workers : job[p].pc = "idle"
        BY <1>4, WorkerAssumption DEF StoreKept, Alone
  <2>3. job'[w].pc = "begin" /\ \A p \in Workers \ {w} : job'[p].pc = "idle"
        BY <2>1, <2>2 DEF Go, Inductive, JobsOK, Records
  <2> QED
      BY <1>1, <2>1, <2>3 DEF StoreKept, Alone, Holder, ObjectKept
<1> QED
    BY <1>2, <1>3, <1>4 DEF Deadline, LoadPending, Publish, Mark, Start, ReadRow, ReadObject, rows

(* A report that readers are told is ready has its bytes in the store, whichever commit lost its *)
(* acknowledgement and whatever was compensated, until a lock is lost.                           *)
THEOREM ReadyReportsAreStored == Spec => []ReadyHasItsObject
<1> DEFINE Kept == "lock" \notin faults.lost => StoreKept
<1>1. Init => Kept
      BY DEF Init, StoreKept, Alone, Holder, ObjectKept, Rest, NoArtifact
<1>2. Inductive /\ Kept /\ [Next]_vars => Kept'
  <2> SUFFICES ASSUME Inductive, Kept, [Next]_vars, "lock" \notin faults'.lost PROVE StoreKept'
      OBVIOUS
  <2>1. StoreKept
        BY LossesStay
  <2>2. CASE UNCHANGED vars
        BY <2>1, <2>2 DEF vars, StoreKept, Alone, Holder, ObjectKept
  <2>3. \A w \in Workers : ~LoseLock(w)
        BY DEF LoseLock, Lose
  <2> QED
      BY <2>1, <2>2, <2>3, WorkersKeepStore, OthersKeepStore DEF Next
<1>3. Kept => ReadyHasItsObject
      BY DEF StoreKept, ObjectKept, ReadyHasItsObject
<1> QED
    BY <1>1, <1>2, <1>3, Soundness, PTL DEF Spec
=============================================================================
