------------------------------- MODULE JobQueue ------------------------------
(***************************************************************************)
(* The heavy jobs of the API server: the global semaphore and its counters *)
(* (api_server/deps.py), the job rows written by the routes and by the     *)
(* worker threads (routes/backtests.py), the routes that cancel and delete *)
(* them (routes/jobs.py), and the flag that keeps the ML pipeline from     *)
(* running twice (routes/pipeline.py).                                     *)
(*                                                                         *)
(* A job is a coroutine on the event loop (task) and, once it has a        *)
(* permit, a synchronous body in a worker thread (thread) that outlives a  *)
(* cancelled coroutine.  Rows are in the database and outlive the process. *)
(***************************************************************************)
EXTENDS Naturals, Sequences, FiniteSets, SequencesExt

CONSTANTS
    Jobs,           \* job identifiers; pipeline runs among them
    PipelineRuns,   \* the jobs submitted by POST /pipeline/run; they have no row
    Cap,            \* CQUANT_MAX_CONCURRENT_JOBS
    MaxRestarts     \* bound on restarts of the server

ASSUME JobAssumption ==
    /\ PipelineRuns \subseteq Jobs
    /\ Cap \in Nat \ {0}
    /\ MaxRestarts \in Nat
    /\ IsFiniteSet(Jobs)

VARIABLES
    row,            \* _api_jobs.status
    task,           \* the coroutine run_job_async
    thread,         \* the worker thread's progress through the job body
    queue,          \* waiters of JOB_SEMAPHORE, first in first out
    stats,          \* job_queue_stats
    pipeline,       \* _is_running
    restarts

jobVars == <<row, task, thread, queue, stats, pipeline, restarts>>

RowStatus == {"absent", "running", "completed", "failed", "cancelled"}

\* Coroutines that hold a permit of the semaphore.
Holding == {j \in Jobs : task[j] = "holding"}

Counters(waiting, running, submitted, completed) ==
    [waiting |-> waiting, running |-> running,
     submitted |-> submitted, completed |-> completed]

NoStats == Counters(0, 0, 0, 0)

AtLeastZero(n) == IF n > 0 THEN n - 1 ELSE 0

\* JobQueueStats.reserve, acquire and release.
Reserved(s) == Counters(s.waiting + 1, s.running, s.submitted + 1, s.completed)

Acquired(s) ==
    Counters(AtLeastZero(s.waiting), s.running + 1, s.submitted, s.completed)

\* Mutant of Released: the finished job is not counted.
ReleasedUncounted(s) ==
    Counters(s.waiting, AtLeastZero(s.running), s.submitted, s.completed)

Released(s) ==
    Counters(s.waiting, AtLeastZero(s.running), s.submitted, s.completed + 1)
-----------------------------------------------------------------------------
JobInit ==
    /\ row = [j \in Jobs \ PipelineRuns |-> "absent"]
    /\ task = [j \in Jobs |-> "none"]
    /\ thread = [j \in Jobs |-> "none"]
    /\ queue = <<>>
    /\ stats = NoStats
    /\ pipeline = FALSE
    /\ restarts = 0

\* _save_job: an upsert, whatever has become of the row.
SaveJob(j, status) == row' = [row EXCEPT ![j] = status]

\* A submitting route: the row says "running" from the start (or is missing,
\* when _save_job fails: it swallows the error), and the coroutine is
\* scheduled to run after the response.
SubmitJob(j) ==
    /\ j \notin PipelineRuns
    /\ task[j] = "none" /\ thread[j] = "none" /\ row[j] = "absent"
    /\ SaveJob(j, "running") \/ UNCHANGED row
    /\ task' = [task EXCEPT ![j] = "scheduled"]
    /\ UNCHANGED <<thread, queue, stats, pipeline, restarts>>

\* Mutant of SubmitPipeline: the flag is not looked at.
SubmitPipelineAnyway(j) ==
    /\ j \in PipelineRuns
    /\ task[j] = "none" /\ thread[j] = "none"
    /\ pipeline' = TRUE
    /\ task' = [task EXCEPT ![j] = "scheduled"]
    /\ UNCHANGED <<row, thread, queue, stats, restarts>>

\* run_pipeline: refused while the flag is set.
SubmitPipeline(j) ==
    /\ j \in PipelineRuns
    /\ task[j] = "none" /\ thread[j] = "none"
    /\ ~pipeline
    /\ pipeline' = TRUE
    /\ task' = [task EXCEPT ![j] = "scheduled"]
    /\ UNCHANGED <<row, thread, queue, stats, restarts>>

\* The job gets its permit and its body starts in a worker thread; the body of
\* a pipeline run sets the flag once more.
StartBody(j) ==
    /\ task' = [task EXCEPT ![j] = "holding"]
    /\ thread' = [thread EXCEPT ![j] = "running"]
    /\ pipeline' = (pipeline \/ j \in PipelineRuns)

\* Mutant of Reserve: a job that finds nobody waiting starts at once.
ReserveUncapped(j) ==
    /\ task[j] = "scheduled"
    /\ queue = <<>>
    /\ StartBody(j)
    /\ stats' = Acquired(Reserved(stats))
    /\ UNCHANGED <<row, queue, restarts>>

\* run_job_async from its start to its first suspension: it enters the queue,
\* and takes a permit at once when one is free and nobody waits.
Reserve(j) ==
    /\ task[j] = "scheduled"
    /\ IF queue = <<>> /\ Cardinality(Holding) < Cap
       THEN /\ StartBody(j)
            /\ stats' = Acquired(Reserved(stats))
            /\ UNCHANGED queue
       ELSE /\ task' = [task EXCEPT ![j] = "waiting"]
            /\ queue' = Append(queue, j)
            /\ stats' = Reserved(stats)
            /\ UNCHANGED <<thread, pipeline>>
    /\ UNCHANGED <<row, restarts>>

\* A waiter leaves the line, wherever it stands.
LeaveQueue(j) == \E i \in DOMAIN queue : queue[i] = j /\ queue' = RemoveAt(queue, i)

\* Mutant of Acquire: any waiter may overtake the others.
AcquireOvertaking(j) ==
    /\ LeaveQueue(j)
    /\ Cardinality(Holding) < Cap
    /\ StartBody(j)
    /\ stats' = Acquired(stats)
    /\ UNCHANGED <<row, restarts>>

\* A permit that was released reaches the first waiter.
Acquire(j) ==
    /\ queue # <<>>
    /\ j = Head(queue)
    /\ Cardinality(Holding) < Cap
    /\ queue' = Tail(queue)
    /\ StartBody(j)
    /\ stats' = Acquired(stats)
    /\ UNCHANGED <<row, restarts>>

\* Mutant of SaveResult: a pipeline clears its flag only when it succeeds.
SaveResultNoFinally(j, outcome) ==
    /\ thread[j] = "running"
    /\ thread' = [thread EXCEPT ![j] = "saved"]
    /\ IF j \in PipelineRuns
       THEN pipeline' = (outcome = "failed") /\ UNCHANGED row
       ELSE SaveJob(j, outcome) /\ UNCHANGED pipeline
    /\ UNCHANGED <<task, queue, stats, restarts>>

\* Mutant of SaveResult: a failure is not stored.
SaveResultOnSuccess(j, outcome) ==
    /\ thread[j] = "running"
    /\ thread' = [thread EXCEPT ![j] = "saved"]
    /\ IF j \in PipelineRuns
       THEN pipeline' = FALSE /\ UNCHANGED row
       ELSE /\ UNCHANGED pipeline
            /\ IF outcome = "completed" THEN SaveJob(j, outcome) ELSE UNCHANGED row
    /\ UNCHANGED <<task, queue, stats, restarts>>

\* The thread stores the outcome; a pipeline clears its flag instead.
SaveResult(j, outcome) ==
    /\ thread[j] = "running"
    /\ thread' = [thread EXCEPT ![j] = "saved"]
    /\ IF j \in PipelineRuns
       THEN pipeline' = FALSE /\ UNCHANGED row
       ELSE SaveJob(j, outcome) /\ UNCHANGED pipeline
    /\ UNCHANGED <<task, queue, stats, restarts>>

\* _save_job fails and swallows the error: the outcome is lost.
LoseResult(j) ==
    /\ j \notin PipelineRuns
    /\ thread[j] = "running"
    /\ thread' = [thread EXCEPT ![j] = "lost"]
    /\ UNCHANGED <<row, task, queue, stats, pipeline, restarts>>

\* The body returns (after its automatic analysis, for a backtest).
EndThread(j) ==
    /\ thread[j] = "saved"
    /\ thread' = [thread EXCEPT ![j] = "ended"]
    /\ UNCHANGED <<row, task, queue, stats, pipeline, restarts>>

\* The coroutine resumes after its thread: release, and the permit is free.
Release(j) ==
    /\ task[j] = "holding"
    /\ thread[j] \in {"ended", "lost"}
    /\ task' = [task EXCEPT ![j] = "done"]
    /\ stats' = Released(stats)
    /\ UNCHANGED <<row, thread, queue, pipeline, restarts>>

\* The response cannot be sent, or the request is cancelled before its
\* background task starts: the coroutine never runs.
CancelScheduled(j) ==
    /\ task[j] = "scheduled"
    /\ task' = [task EXCEPT ![j] = "done"]
    /\ UNCHANGED <<row, thread, queue, stats, pipeline, restarts>>

\* Mutant of CancelWaiting: the waiter stays in the line.
CancelWaitingInLine(j) ==
    /\ task[j] = "waiting"
    /\ task' = [task EXCEPT ![j] = "done"]
    /\ UNCHANGED <<row, thread, queue, stats, pipeline, restarts>>

\* A coroutine that waits is cancelled: the except branch re-raises, and
\* nothing undoes the reserve.
CancelWaiting(j) ==
    /\ task[j] = "waiting"
    /\ task' = [task EXCEPT ![j] = "done"]
    /\ LeaveQueue(j)
    /\ UNCHANGED <<row, thread, stats, pipeline, restarts>>

\* A coroutine that awaits its thread is cancelled: it releases, the thread
\* runs on.
CancelHolding(j) ==
    /\ task[j] = "holding"
    /\ task' = [task EXCEPT ![j] = "done"]
    /\ stats' = Released(stats)
    /\ UNCHANGED <<row, thread, queue, pipeline, restarts>>

\* POST /jobs/{id}/cancel: only the row changes.
CancelJob(j) ==
    /\ j \notin PipelineRuns
    /\ row[j] = "running"
    /\ row' = [row EXCEPT ![j] = "cancelled"]
    /\ UNCHANGED <<task, thread, queue, stats, pipeline, restarts>>

\* DELETE /jobs/{id}: not while the row says "running".
DeleteJob(j) ==
    /\ j \notin PipelineRuns
    /\ row[j] \notin {"absent", "running"}
    /\ row' = [row EXCEPT ![j] = "absent"]
    /\ UNCHANGED <<task, thread, queue, stats, pipeline, restarts>>

\* The server process ends: coroutines, threads and counters are gone.
Restart ==
    /\ restarts < MaxRestarts
    /\ restarts' = restarts + 1
    /\ task' = [j \in Jobs |-> IF task[j] = "none" THEN "none" ELSE "done"]
    /\ thread' = [j \in Jobs |-> IF thread[j] = "running" THEN "lost" ELSE thread[j]]
    /\ queue' = <<>>
    /\ stats' = NoStats
    /\ pipeline' = FALSE
    /\ UNCHANGED row

Coroutine(j) == Reserve(j) \/ Acquire(j) \/ Release(j)
Worker(j) ==
    \/ \E outcome \in {"completed", "failed"} : SaveResult(j, outcome)
    \/ LoseResult(j)
    \/ EndThread(j)
Cancelled(j) == CancelScheduled(j) \/ CancelWaiting(j) \/ CancelHolding(j)

JobNext ==
    \/ \E j \in Jobs : SubmitJob(j) \/ SubmitPipeline(j)
    \/ \E j \in Jobs : Coroutine(j) \/ Worker(j) \/ Cancelled(j)
    \/ \E j \in Jobs : CancelJob(j) \/ DeleteJob(j)
    \/ Restart

JobSpec == JobInit /\ [][JobNext]_jobVars

\* The event loop resumes every coroutine that can run, the operating system
\* every thread; a job body ends.
JobFairSpec ==
    /\ JobSpec
    /\ \A j \in Jobs : WF_jobVars(Coroutine(j)) /\ WF_jobVars(Worker(j))
-----------------------------------------------------------------------------
JobTypeOK ==
    /\ row \in [Jobs \ PipelineRuns -> RowStatus]
    /\ task \in [Jobs -> {"none", "scheduled", "waiting", "holding", "done"}]
    /\ thread \in [Jobs -> {"none", "running", "saved", "ended", "lost"}]
    /\ queue \in Seq(Jobs)
    /\ stats \in [waiting : Nat, running : Nat, submitted : Nat, completed : Nat]
    /\ pipeline \in BOOLEAN
    /\ restarts \in 0 .. MaxRestarts

\* No order of submissions, completions and cancellations hands out more
\* permits than there are, and the counter shown to the user is exact.
PermitsAreBounded ==
    /\ Cardinality(Holding) <= Cap
    /\ stats.running = Cardinality(Holding)

\* The line of the semaphore is exactly the coroutines that wait, each once:
\* none is forgotten in it, and none waits outside of it.
QueueIsWaiters ==
    /\ \A j \in Jobs : task[j] = "waiting" <=> Contains(queue, j)
    /\ \A i, k \in DOMAIN queue : queue[i] = queue[k] => i = k

\* Jobs whose coroutine was cancelled, or lost in a restart, before its body
\* started.
GivenUp == {j \in Jobs : task[j] = "done" /\ thread[j] = "none"}

\* "ensure waiting counter does not leak on cancellation": the waiting counter
\* shown to the user is the length of the line.
WaitingIsTheLine == stats.waiting = Len(queue)

\* As long as no job was given up, the counters account for every submission:
\* what was submitted waits in the line, runs or is completed, whatever was
\* cancelled while its body ran.  (The code makes good no more than that: see
\* WaitingIsTheLine.)
CountersAreExact ==
    GivenUp = {} =>
        /\ stats.waiting = Len(queue)
        /\ stats.submitted = Len(queue) + Cardinality(Holding) + stats.completed

\* At most one pipeline is between its submission and its result, whatever is
\* cancelled: the flag is on from the request on and off only after the work.
PipelineIsExclusive ==
    \A j, k \in PipelineRuns :
        /\ task[j] \in {"scheduled", "waiting"} \/ thread[j] = "running"
        /\ task[k] \in {"scheduled", "waiting"} \/ thread[k] = "running"
        => j = k

\* When run_pipeline refuses, "A pipeline run is already in progress.": as long
\* as no pipeline run was given up, the flag is never left on without a run
\* that will clear it, whatever fails or is cancelled while its body runs.
PipelineFlagHasOwner ==
    pipeline /\ GivenUp \cap PipelineRuns = {} =>
        \E j \in PipelineRuns :
            task[j] \in {"scheduled", "waiting"} \/ thread[j] = "running"

\* Every submitted job is reported finished, or cancelled, in the end, unless
\* it was given up or its outcome was lost, in a failed write or a restart.
EveryJobSettles ==
    \A j \in Jobs \ PipelineRuns :
        row[j] = "running" ~>
            row[j] # "running" \/ j \in GivenUp \/ thread[j] = "lost"

\* The queue gives out permits as the abstract pool does.
Pool == INSTANCE JobPool WITH line <- queue, slots <- Holding
ImplementsPool == Pool!PoolSpec
=============================================================================
