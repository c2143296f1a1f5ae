---------------------------- MODULE AnalysisWorker ----------------------------
(***************************************************************************)
(* One analysis inside sitescore-api: its row, its outbox row, its report   *)
(* row and the stored PDF, the copies of its Celery task, the workers that  *)
(* execute it under an advisory lock, the writers that time it out, and the *)
(* readers of its report.  AnalysisService is what all of this promises.    *)
(***************************************************************************)
EXTENDS Naturals, FiniteSets

CONSTANTS
    Workers,      \* Celery worker processes
    Dispatchers,  \* POST handlers and drains of the outbox
    Readers,      \* GET /v1/reports/{id}/content
    ReportIds,    \* uuid4 values; an unused one is new
    NoWorker, NoReport,
    MaxTasks,     \* bound: copies of the task at the broker and in the workers
    MaxFaults     \* bound: failures of a process, the database or a provider

ASSUME WorkerAssumption ==
    /\ NoWorker \notin Workers /\ NoReport \notin ReportIds
    /\ IsFiniteSet(Workers) /\ MaxTasks \in Nat /\ MaxFaults \in Nat

VARIABLES
    analysis,  \* analyses.state, or none
    success,   \* canonical_success_at is set
    late,      \* deadline_at has passed
    finite,    \* the result of the command has no infinite figure
    report,    \* the reports row [id, state], id NoReport while there is none
    object,    \* the report whose bytes are stored under the key of the analysis
    outbox,    \* none, pending or dispatched
    tasks,     \* copies of the task at the broker
    lock,      \* the worker whose session holds the advisory lock
    job,       \* what each worker carries: [pc, outcome, late, artifact]
    disp,      \* dispatch_analysis: idle, publish or mark
    reader,    \* content(): [pc, id]
    faults     \* [count, lost]: how many failures there were, and whether a task in a
               \* worker's hands or an advisory lock was lost by one

rows == <<analysis, success, late, finite, report>>
broker == <<outbox, disp>>
vars == <<analysis, success, late, finite, report, object, outbox, tasks, lock, job, disp, reader, faults>>

Service == INSTANCE AnalysisService
           WITH ReportMayFail <- TRUE, analysis <- analysis,
                report <- IF report.id = NoReport THEN "none" ELSE report.state

Final == {"completed", "not_score_ready", "failed", "timed_out"}
NoArtifact == [id |-> NoReport, state |-> "none"]
Rest == [pc |-> "idle", outcome |-> "none", late |-> FALSE, artifact |-> NoArtifact]

Init ==
    /\ analysis = "none" /\ success = FALSE /\ late = FALSE /\ finite \in BOOLEAN
    /\ report = NoArtifact /\ object = NoReport
    /\ outbox = "none" /\ tasks = 0 /\ lock = NoWorker
    /\ job = [w \in Workers |-> Rest]
    /\ disp = [d \in Dispatchers |-> "idle"]
    /\ reader = [r \in Readers |-> [pc |-> "idle", id |-> NoReport]]
    /\ faults = [count |-> 0, lost |-> {}]

At(w, pc) == job[w].pc = pc
Go(w, pc) == job' = [job EXCEPT ![w].pc = pc]
Lose(what) ==
    /\ faults.count < MaxFaults
    /\ faults' = [count |-> faults.count + 1, lost |-> faults.lost \cup what]
Fault == Lose({})
NoFault == UNCHANGED faults
Release(w) == lock' = IF lock = w THEN NoWorker ELSE lock

\* (mutant) A late acknowledgement removes another copy than the one delivered.
AcknowledgeTwice(w) == job' = [job EXCEPT ![w] = Rest] /\ Release(w) /\ tasks' = tasks - 1

\* The task is acknowledged, or answered with a retry that publishes it again.
Acknowledge(w) == job' = [job EXCEPT ![w] = Rest] /\ Release(w) /\ UNCHANGED tasks
Retry(w) == job' = [job EXCEPT ![w] = Rest] /\ Release(w) /\ tasks' = tasks + 1

\* The connection that holds the lock is the one the worker uses.
Connected(w) == lock = w

-----------------------------------------------------------------------------
(* Acceptance and dispatch.                                                *)

\* One transaction writes the analysis and its outbox row.
Submit ==
    /\ analysis = "none" /\ analysis' = "queued" /\ outbox' = "pending"
    /\ UNCHANGED <<success, late, finite, report, object, tasks, lock, job, disp, reader, faults>>

\* (mutant) The row is marked when it is loaded, before the broker has the task.
LoadPendingMarking(d) ==
    /\ disp[d] = "idle" /\ outbox = "pending" /\ outbox' = "dispatched"
    /\ disp' = [disp EXCEPT ![d] = "publish"]
    /\ UNCHANGED <<rows, object, tasks, lock, job, reader, faults>>

LoadPending(d) ==
    /\ disp[d] = "idle" /\ outbox = "pending"
    /\ disp' = [disp EXCEPT ![d] = "publish"]
    /\ UNCHANGED <<rows, object, outbox, tasks, lock, job, reader, faults>>

Copies == tasks + Cardinality({w \in Workers : ~At(w, "idle")})

\* send_task reaches the broker, or fails and leaves the row pending.
Publish(d) ==
    /\ disp[d] = "publish"
    /\ \/ Copies < MaxTasks /\ tasks' = tasks + 1 /\ disp' = [disp EXCEPT ![d] = "mark"] /\ NoFault
       \/ Fault /\ disp' = [disp EXCEPT ![d] = "idle"] /\ UNCHANGED tasks
    /\ UNCHANGED <<rows, object, outbox, lock, job, reader>>

\* The row is marked once; a dispatcher may die before.
Mark(d) ==
    /\ disp[d] = "mark" /\ disp' = [disp EXCEPT ![d] = "idle"]
    /\ \/ outbox' = "dispatched" /\ NoFault
       \/ Fault /\ UNCHANGED outbox
    /\ UNCHANGED <<rows, object, tasks, lock, job, reader>>

-----------------------------------------------------------------------------
(* Time.                                                                   *)

Deadline == /\ analysis # "none" /\ ~late /\ late' = TRUE
            /\ UNCHANGED <<analysis, success, finite, report, object, outbox, tasks, lock, job, disp, reader, faults>>

\* (mutant) The reconciliation does not exclude protected successes.
ExpireProtected ==
    /\ analysis \in {"queued", "running"} /\ late /\ lock = NoWorker
    /\ analysis' = "timed_out"
    /\ UNCHANGED <<success, late, finite, report, object, outbox, tasks, lock, job, disp, reader, faults>>

\* reconcile_expired and the GET of the analysis: only without a live worker.
Expire ==
    /\ analysis \in {"queued", "running"} /\ late /\ ~success /\ lock = NoWorker
    /\ analysis' = "timed_out"
    /\ UNCHANGED <<success, late, finite, report, object, outbox, tasks, lock, job, disp, reader, faults>>

-----------------------------------------------------------------------------
(* execute_analysis, up to the protected success.                          *)

\* (mutant) A second delivery of the task does not find the worker busy.
StartAnyway(w) ==
    /\ At(w, "idle") /\ tasks > 0 /\ tasks' = tasks - 1
    /\ lock' = w /\ Go(w, "begin")
    /\ UNCHANGED <<rows, object, broker, reader, faults>>

\* A delivery takes the lock, or is answered busy and acknowledged.
Start(w) ==
    /\ At(w, "idle") /\ tasks > 0 /\ tasks' = tasks - 1
    /\ IF lock = NoWorker THEN lock' = w /\ Go(w, "begin") ELSE UNCHANGED <<lock, job>>
    /\ UNCHANGED <<rows, object, broker, reader, faults>>

\* (mutant) A delivery that finds the analysis running leaves it to somebody else.
BeginQueued(w) ==
    /\ At(w, "begin") /\ Connected(w)
    /\ \/ analysis # "queued" /\ Acknowledge(w) /\ UNCHANGED analysis
       \/ /\ analysis = "queued" /\ late
          /\ analysis' = "timed_out" /\ Acknowledge(w)
       \/ /\ analysis = "queued" /\ ~late
          /\ analysis' = "running" /\ Go(w, "execute") /\ UNCHANGED <<tasks, lock>>
    /\ UNCHANGED <<success, late, finite, report, object, broker, reader, faults>>

Begin(w) ==
    /\ At(w, "begin") /\ Connected(w)
    /\ \/ analysis \in Final /\ Acknowledge(w) /\ UNCHANGED analysis
       \/ /\ analysis \notin Final /\ ~success /\ late
          /\ analysis' = "timed_out" /\ Acknowledge(w)
       \/ /\ analysis \notin Final /\ (success \/ ~late)
          /\ analysis' = "running" /\ Go(w, "execute") /\ UNCHANGED <<tasks, lock>>
    /\ UNCHANGED <<success, late, finite, report, object, broker, reader, faults>>

\* The canonical executor answers, and the clock is read right after it.  A rerun
\* that does not reproduce its success, or raises, is a fault.
Execute(w) ==
    /\ At(w, "execute")
    /\ \E outcome \in {"completed", "not_score_ready"} :
          /\ IF success /\ outcome # "completed" THEN Fault ELSE NoFault
          /\ job' = [job EXCEPT ![w].pc = "outcome", ![w].outcome = outcome, ![w].late = late]
    /\ UNCHANGED <<rows, object, broker, tasks, lock, reader>>

\* persist_not_score_ready
NotScoreReady(w) ==
    /\ At(w, "outcome") /\ Connected(w) /\ job[w].outcome = "not_score_ready"
    /\ IF success THEN Retry(w) /\ UNCHANGED analysis
       ELSE /\ Acknowledge(w)
            /\ analysis' = IF analysis \in Final THEN analysis
                           ELSE IF job[w].late THEN "timed_out" ELSE "not_score_ready"
    /\ UNCHANGED <<success, late, finite, report, object, broker, reader, faults>>

\* (mutant) The boundary revives an analysis that another writer has ended.
ProtectAnyState(w) ==
    /\ At(w, "outcome") /\ Connected(w) /\ job[w].outcome = "completed"
    /\ success' = TRUE /\ analysis' = "running" /\ Go(w, "render") /\ UNCHANGED <<tasks, lock>>
    /\ UNCHANGED <<late, finite, report, object, broker, reader, faults>>

\* _record_canonical_success_boundary: a success in time is protected from the clock.
Protect(w) ==
    /\ At(w, "outcome") /\ Connected(w) /\ job[w].outcome = "completed"
    /\ IF analysis \in {"queued", "running"} /\ (success \/ ~job[w].late)
       THEN success' = TRUE /\ analysis' = "running" /\ Go(w, "render") /\ UNCHANGED <<tasks, lock>>
       ELSE /\ Acknowledge(w) /\ UNCHANGED success
            /\ analysis' = IF analysis \in Final THEN analysis ELSE "timed_out"
    /\ UNCHANGED <<late, finite, report, object, broker, reader, faults>>

-----------------------------------------------------------------------------
(* The report and its durable pair.                                        *)

InUse == {report.id, object} \cup {job[w].artifact.id : w \in Workers}

\* generate(): facts, narrative and PDF, then the upload; without one, a failed artifact.
Render(w) ==
    /\ At(w, "render")
    /\ \E id \in ReportIds \ InUse :
          \/ /\ object' = id
             /\ job' = [job EXCEPT ![w].pc = "head", ![w].artifact = [id |-> id, state |-> "ready"]]
          \/ /\ UNCHANGED object
             /\ job' = [job EXCEPT ![w].pc = "pair", ![w].artifact = [id |-> id, state |-> "failed"]]
    /\ UNCHANGED <<rows, broker, tasks, lock, reader, faults>>

\* The upload is confirmed, or the object is deleted, or even that fails.
Confirm(w) ==
    /\ At(w, "head")
    /\ \/ Go(w, "pair") /\ UNCHANGED object
       \/ /\ job' = [job EXCEPT ![w].pc = "pair", ![w].artifact.state = "failed"]
          /\ object' \in {object, NoReport}
    /\ UNCHANGED <<rows, broker, tasks, lock, reader, faults>>

\* compensate(): a ready artifact's object is deleted, as far as the store lets us.
Compensate(w) == object' \in IF job[w].artifact.state = "ready" THEN {object, NoReport} ELSE {object}

\* One commit exposes the completed analysis and its report; the database has no form
\* for an infinite figure, and refuses the result whenever it is written.
WritePair(artifact) == finite /\ analysis' = "completed" /\ report' = artifact

\* (mutant) A commit that raised is taken for one that did not happen.
PairHasty(w) ==
    /\ At(w, "pair") /\ Connected(w) /\ analysis \notin Final
    /\ \/ WritePair(job[w].artifact) /\ Acknowledge(w) /\ NoFault /\ UNCHANGED object
       \/ /\ Fault /\ (WritePair(job[w].artifact) \/ UNCHANGED <<analysis, report>>)
          /\ Compensate(w) /\ Go(w, "failPair") /\ UNCHANGED <<tasks, lock>>
    /\ UNCHANGED <<success, late, finite, broker, reader>>

\* _persist_completed_report_pair: done, refused, or with an unknown outcome.
Pair(w) ==
    /\ At(w, "pair") /\ Connected(w)
    /\ \/ /\ analysis \in Final /\ Compensate(w) /\ UNCHANGED <<analysis, report>>
          /\ \/ Acknowledge(w) /\ NoFault
             \/ Fault /\ Go(w, "reconcile") /\ UNCHANGED <<tasks, lock>>
       \/ /\ analysis \notin Final /\ report.id = NoReport
          /\ WritePair(job[w].artifact) /\ Acknowledge(w) /\ NoFault /\ UNCHANGED object
       \/ /\ analysis \notin Final
          /\ \/ Fault /\ WritePair(job[w].artifact)
             \/ /\ IF finite THEN Fault ELSE NoFault
                /\ UNCHANGED <<analysis, report>>
          /\ Go(w, "reconcile") /\ UNCHANGED <<object, tasks, lock>>
    /\ UNCHANGED <<success, late, finite, broker, reader>>

\* _ready_object_matches compares the length and not the bytes.
Matches(artifact) ==
    IF object = artifact.id THEN {TRUE} ELSE IF object = NoReport THEN {FALSE} ELSE BOOLEAN

\* _reconcile_paired_commit: what a fresh session finds of the pair.  A completed
\* analysis without a report cannot be found: the two are written together.
Findings(w) ==
    LET mine == job[w].artifact IN
    IF analysis = "completed" THEN
       IF report.id # mine.id THEN {"conflict"}
       ELSE IF report.state = "failed" THEN {"failed"}
       ELSE IF mine.state = "failed" THEN {"conflict"}
       ELSE {IF m THEN "ready" ELSE "ready_invalid" : m \in Matches(mine)}
    ELSE IF analysis \in {"queued", "running"} /\ report.id = NoReport THEN {"absent"}
    ELSE {"conflict"}

\* After the pair: each finding has its own way to a terminal pair, none is guessed.
Reconcile(w) ==
    /\ At(w, "reconcile")
    /\ \/ Fault /\ Retry(w) /\ UNCHANGED object
       \/ Fault /\ report = job[w].artifact /\ report.state = "ready"
                /\ Go(w, "failResource") /\ UNCHANGED <<object, tasks, lock>>
       \/ /\ NoFault
          /\ \E finding \in Findings(w) :
             \/ finding = "ready" /\ Acknowledge(w) /\ UNCHANGED object
             \/ finding = "failed" /\ Acknowledge(w) /\ Compensate(w)
             \/ /\ finding \in {"ready_invalid", "conflict"}
                /\ Go(w, "failResource") /\ UNCHANGED <<object, tasks, lock>>
             \/ finding = "absent" /\ Go(w, "failPair") /\ Compensate(w) /\ UNCHANGED <<tasks, lock>>
    /\ UNCHANGED <<rows, broker, reader>>

Failed(artifact) == [artifact EXCEPT !.state = "failed"]

\* _transition_resource_to_failed, and only then is the object deleted.  A commit
\* that raised and whose effect cannot be read back is retried with the object kept.
FailResource(w) ==
    /\ At(w, "failResource")
    /\ \/ Fault /\ Retry(w) /\ UNCHANGED <<object, report>>
       \/ report.id = NoReport /\ NoFault /\ Retry(w) /\ UNCHANGED <<object, report>>
       \/ report.id # NoReport /\ report' = Failed(report) /\ Fault /\ Retry(w) /\ UNCHANGED object
       \/ /\ report.id # NoReport /\ report' = Failed(report) /\ NoFault
          /\ Compensate(w) /\ Go(w, "completeFailed") /\ UNCHANGED <<tasks, lock>>
    /\ UNCHANGED <<analysis, success, late, finite, broker, reader>>

\* _complete_analysis_with_failed_resource
CompleteFailed(w) ==
    /\ At(w, "completeFailed")
    /\ \/ Fault /\ Retry(w) /\ UNCHANGED analysis
       \/ analysis \in Final /\ Acknowledge(w) /\ NoFault /\ UNCHANGED analysis
       \/ /\ analysis \notin Final /\ NoFault
          /\ IF report.state = "failed" THEN analysis' = "completed" /\ Acknowledge(w)
             ELSE Retry(w) /\ UNCHANGED analysis
    /\ UNCHANGED <<success, late, finite, report, object, broker, reader>>

\* _persist_failed_pair_fresh: the analysis completes with the failed form of the artifact.
FailPair(w) ==
    LET failed == Failed(job[w].artifact)
        open == analysis \notin Final
    IN
    /\ At(w, "failPair")
    /\ \/ ~open /\ Acknowledge(w) /\ NoFault /\ UNCHANGED <<analysis, report>>
       \/ open /\ report.id = NoReport /\ WritePair(failed) /\ Acknowledge(w) /\ NoFault
       \/ /\ \/ Fault /\ open /\ report.id = NoReport /\ WritePair(failed)
             \/ /\ IF finite \/ ~open THEN Fault ELSE NoFault
                /\ UNCHANGED <<analysis, report>>
          /\ job' = [job EXCEPT ![w].pc = "recheck", ![w].artifact = failed]
          /\ UNCHANGED <<tasks, lock>>
    /\ UNCHANGED <<success, late, finite, object, broker, reader>>

\* Its own lost commit is reconciled once more.  A conflict, the report of another
\* worker, is failed like any other; an absent pair is left to the next delivery.
Recheck(w) ==
    /\ At(w, "recheck")
    /\ \/ Fault /\ Retry(w)
       \/ /\ NoFault
          /\ \E finding \in Findings(w) :
             \/ finding = "failed" /\ Acknowledge(w)
             \/ finding = "conflict" /\ Go(w, "failResource") /\ UNCHANGED <<tasks, lock>>
             \/ finding = "absent" /\ Retry(w)
    /\ UNCHANGED <<rows, object, broker, reader>>

-----------------------------------------------------------------------------
(* Failures.                                                               *)

Working == {"begin", "execute", "outcome", "render", "head", "pair"}

\* Something raised, or the connection is gone: the handler of execute_analysis.
Raise(w) ==
    /\ job[w].pc \in Working
    /\ IF ~Connected(w) /\ job[w].pc \in {"begin", "outcome", "pair"} THEN NoFault ELSE Fault
    /\ Go(w, "handler")
    /\ UNCHANGED <<rows, object, broker, tasks, lock, reader>>

\* (mutant) The handler does not ask whether a success is protected.
HandleUnprotected(w) ==
    /\ At(w, "handler")
    /\ analysis' = IF analysis \in Final THEN analysis ELSE IF late THEN "timed_out" ELSE "failed"
    /\ Acknowledge(w)
    /\ UNCHANGED <<success, late, finite, report, object, broker, reader, faults>>

\* A protected success is retried, anything else is failed or timed out.
Handle(w) ==
    /\ At(w, "handler")
    /\ IF analysis \notin Final /\ success THEN Retry(w) /\ UNCHANGED analysis
       ELSE /\ Acknowledge(w)
            /\ analysis' = IF analysis \in Final THEN analysis
                           ELSE IF late THEN "timed_out" ELSE "failed"
    /\ UNCHANGED <<success, late, finite, report, object, broker, reader, faults>>

\* The process dies; the broker delivers the task again (task_reject_on_worker_lost).
Crash(w) ==
    /\ ~At(w, "idle") /\ Fault /\ Retry(w)
    /\ UNCHANGED <<rows, object, broker, reader>>

\* The hard time limit, a handler whose own query fails or a retry that cannot be
\* published: the task is acknowledged (task_acks_on_failure_or_timeout).
LoseTask(w) ==
    /\ ~At(w, "idle") /\ Lose({"task"}) /\ Acknowledge(w)
    /\ UNCHANGED <<rows, object, broker, reader>>

\* The database ends the session of a worker that is busy elsewhere.
LoseLock(w) ==
    /\ lock = w /\ Lose({"lock"}) /\ lock' = NoWorker
    /\ UNCHANGED <<rows, object, broker, tasks, job, reader>>

-----------------------------------------------------------------------------
(* content(): the row is read, then the object, which must be the row's.   *)

ReadRow(r) ==
    /\ reader[r].pc \in {"idle", "served"} /\ report.state = "ready"
    /\ reader' = [reader EXCEPT ![r] = [pc |-> "row", id |-> report.id]]
    /\ UNCHANGED <<rows, object, broker, tasks, lock, job, faults>>

\* (mutant) The length is compared, the hash is not.
ReadObjectByLength(r) ==
    /\ reader[r].pc = "row"
    /\ reader' = [reader EXCEPT ![r] = IF object # NoReport THEN [pc |-> "served", id |-> object]
                                       ELSE [pc |-> "idle", id |-> NoReport]]
    /\ UNCHANGED <<rows, object, broker, tasks, lock, job, faults>>

ReadObject(r) ==
    /\ reader[r].pc = "row"
    /\ reader' = [reader EXCEPT ![r] = IF object = reader[r].id THEN [pc |-> "served", id |-> object]
                                       ELSE [pc |-> "idle", id |-> NoReport]]
    /\ UNCHANGED <<rows, object, broker, tasks, lock, job, faults>>

-----------------------------------------------------------------------------

Step(w) ==
    \/ Begin(w) \/ Execute(w) \/ NotScoreReady(w) \/ Protect(w)
    \/ Render(w) \/ Confirm(w) \/ Pair(w) \/ Reconcile(w) \/ FailResource(w)
    \/ CompleteFailed(w) \/ FailPair(w) \/ Recheck(w) \/ Handle(w)

Next ==
    \/ Submit \/ Deadline \/ Expire
    \/ \E d \in Dispatchers : LoadPending(d) \/ Publish(d) \/ Mark(d)
    \/ \E w \in Workers : Start(w) \/ Step(w) \/ Raise(w) \/ Crash(w) \/ LoseTask(w) \/ LoseLock(w)
    \/ \E r \in Readers : ReadRow(r) \/ ReadObject(r)

Spec == Init /\ [][Next]_vars

Dispatching(d) == LoadPending(d) \/ Publish(d) \/ Mark(d)

\* The drain and the reconciliation are on a beat, the clock goes on, and a worker
\* process serves and finishes what it takes, also when that is to find its connection
\* gone; nothing else that fails is fair.
FairSpec ==
    /\ Spec /\ WF_vars(Deadline) /\ WF_vars(Expire)
    /\ \A d \in Dispatchers : WF_vars(Dispatching(d))
    /\ \A w \in Workers : WF_vars(Start(w)) /\ WF_vars(Step(w) \/ (Raise(w) /\ NoFault))

-----------------------------------------------------------------------------
(* Properties.                                                             *)

\* Rows, broker, workers and readers stay in their domains; a completed analysis and
\* its one report exist together.
TypeOK ==
    /\ analysis \in Final \cup {"none", "queued", "running"}
    /\ success \in BOOLEAN /\ late \in BOOLEAN /\ finite \in BOOLEAN
    /\ report \in [id: ReportIds \cup {NoReport}, state: {"none", "ready", "failed"}]
    /\ analysis = "completed" <=> report.id # NoReport
    /\ object \in ReportIds \cup {NoReport}
    /\ outbox \in {"none", "pending", "dispatched"} /\ tasks \in 0..MaxTasks
    /\ lock \in Workers \cup {NoWorker}
    /\ job \in [Workers -> [pc: Working \cup {"idle", "reconcile", "failResource",
                                              "completeFailed", "failPair", "recheck", "handler"},
                            outcome: {"none", "completed", "not_score_ready"}, late: BOOLEAN,
                            artifact: [id: ReportIds \cup {NoReport}, state: {"none", "ready", "failed"}]]]
    /\ disp \in [Dispatchers -> {"idle", "publish", "mark"}]
    /\ reader \in [Readers -> [pc: {"idle", "row", "served"}, id: ReportIds \cup {NoReport}]]
    /\ faults \in [count: 0..MaxFaults, lost: SUBSET {"task", "lock"}]

(* A success that was in time is never timed out, failed or called unscorable. *)
SuccessIsProtected == success => analysis \in {"running", "completed"}

(* A report that readers are told is ready has its own bytes in the store,     *)
(* whatever commits were lost and whatever was compensated, until a worker     *)
(* has lost its lock and gone on.                                              *)
ReadyHasItsObject == "lock" \notin faults.lost /\ report.state = "ready" => object = report.id

(* Nobody is ever served the bytes of another rendering than the durable one.  *)
ServedIsTheReport == \A r \in Readers : reader[r].pc = "served" => reader[r].id = report.id

(* An accepted analysis, and a protected success, always has somebody or       *)
(* something that will take it up, the outbox, the broker or a worker, whatever *)
(* locks are lost, until a task is lost.                                       *)
WorkIsNeverForgotten ==
    "task" \notin faults.lost /\ (analysis = "queued" \/ (analysis = "running" /\ success)) =>
        outbox = "pending" \/ Copies > 0

(* The rows and workers together keep the promise of AnalysisService.          *)
ImplementsService == Service!Spec

(* Every accepted analysis ends, but for a protected success that cannot be     *)
(* stored: it is executed, rendered and refused again without end, and but for  *)
(* one whose task was lost.  An analysis without a success ends all the same.  *)
AnalysisEnds ==
    analysis # "none" ~> analysis \in Final \/ (success /\ (~finite \/ "task" \in faults.lost))

(* A protected success that can be stored ends as a completed analysis, unless *)
(* its task is lost.                                                           *)
ProtectedSuccessCompletes ==
    success /\ finite ~> analysis = "completed" \/ "task" \in faults.lost
=============================================================================
