----------------------------- MODULE ServerProofs -----------------------------
(***************************************************************************)
(* Theorems about the concurrent requests of the API server: about         *)
(* JobQueue, for every finite set of jobs and every cap, and about         *)
(* ModelRegistry, for every set of versions and of threads, whether or not *)
(* statements fail.                                                        *)
(***************************************************************************)
EXTENDS JobQueue, ModelRegistry, TLAPS, FiniteSetTheorems, SequenceTheorems

\* A run that the flag has to announce.
Active(j) == task[j] \in {"scheduled", "waiting"} \/ thread[j] = "running"

\* The flag is on as long as some pipeline is active; a body starts only after
\* its coroutine got a permit.
FlagCoversRuns ==
    /\ \A j \in PipelineRuns : Active(j) => pipeline
    /\ \A j \in Jobs : thread[j] # "none" => task[j] \in {"holding", "done"}

\* Every submission is in a counter, and every waiter is counted; a job given
\* up in the line stays counted, too.
CountersBalance ==
    /\ stats.submitted = stats.waiting + stats.running + stats.completed
    /\ stats.waiting >= Len(queue)

WaitersAreCounted == GivenUp = {} => stats.waiting = Len(queue)

\* The inductive invariant.
JobInv ==
    /\ JobTypeOK
    /\ PermitsAreBounded
    /\ QueueIsWaiters
    /\ CountersBalance
    /\ WaitersAreCounted
    /\ PipelineIsExclusive
    /\ FlagCoversRuns
-----------------------------------------------------------------------------
\* Removing the element at a position keeps the others in their order.
LEMMA RemoveAtFacts ==
    ASSUME NEW S, NEW s \in Seq(S), NEW i \in DOMAIN s
    PROVE  /\ RemoveAt(s, i) \in Seq(S)
           /\ Len(RemoveAt(s, i)) = Len(s) - 1
           /\ \A k \in 1 .. Len(s) - 1 :
                 RemoveAt(s, i)[k] = IF k < i THEN s[k] ELSE s[k + 1]
  <1>1. i \in 1 .. Len(s) /\ Len(s) \in Nat
    OBVIOUS
  <1> DEFINE front == SubSeq(s, 1, i - 1)
             back == SubSeq(s, i + 1, Len(s))
  <1>2. front \in Seq(S) /\ Len(front) = i - 1 /\ \A k \in 1 .. i - 1 : front[k] = s[k]
    BY <1>1
  <1>3. /\ back \in Seq(S) /\ Len(back) = Len(s) - i
        /\ \A k \in 1 .. Len(s) - i : back[k] = s[k + i]
    BY <1>1
  <1>4. RemoveAt(s, i) = front \o back
    BY DEF RemoveAt
  <1> HIDE DEF front, back
  <1>5. /\ front \o back \in Seq(S)
        /\ Len(front \o back) = Len(front) + Len(back)
        /\ \A k \in 1 .. Len(front) + Len(back) :
              (front \o back)[k] = IF k <= Len(front) THEN front[k] ELSE back[k - Len(front)]
    BY <1>2, <1>3, ConcatProperties, Zenon
  <1>6. ASSUME NEW k \in 1 .. Len(s) - 1
        PROVE  (front \o back)[k] = IF k < i THEN s[k] ELSE s[k + 1]
    <2>1. CASE k < i
      <3>1. k \in 1 .. Len(front) /\ front[k] = s[k]
        BY <1>1, <1>2, <2>1
      <3> QED
        BY <1>2, <1>3, <2>1, <3>1
    <2>2. CASE ~(k < i)
      <3>1. k - (i - 1) \in 1 .. Len(s) - i /\ k > Len(front)
        BY <1>1, <1>2, <2>2
      <3>2. k \in 1 .. Len(front) + Len(back)
        BY <1>1, <1>2, <1>3
      <3>3. (front \o back)[k] = back[k - Len(front)]
        BY <1>2, <1>5, <3>1, <3>2
      <3>4. (front \o back)[k] = back[k - (i - 1)]
        BY <1>2, <3>3
      <3>5. back[k - (i - 1)] = s[k - (i - 1) + i]
        BY <1>3, <3>1
      <3>6. k - (i - 1) + i = k + 1
        BY <1>1
      <3> QED
        BY <2>2, <3>4, <3>5, <3>6
    <2> QED
      BY <2>1, <2>2
  <1> QED
    <2>1. Len(front \o back) = Len(s) - 1
      BY <1>1, <1>2, <1>3, <1>5
    <2> QED
      BY <1>4, <1>5, <1>6, <2>1

\* What a move of one coroutine does to the set of permit holders.
LEMMA HoldingMove ==
    ASSUME JobTypeOK, NEW j \in Jobs, NEW v, task' = [task EXCEPT ![j] = v]
    PROVE  Holding' = IF v = "holding" THEN Holding \cup {j} ELSE Holding \ {j}
  BY DEF JobTypeOK, Holding

\* The set of permit holders is finite.
LEMMA HoldingFinite == IsFiniteSet(Holding) /\ Cardinality(Holding) \in Nat
  <1>1. Holding \in SUBSET Jobs
    BY DEF Holding
  <1> QED
    BY <1>1, FS_Subset, FS_CardinalityType, JobAssumption

\* The number of holders after one more takes a permit, or gives it back.
LEMMA HoldingCount ==
    ASSUME NEW j \in Jobs
    PROVE  /\ j \notin Holding => Cardinality(Holding \cup {j}) = Cardinality(Holding) + 1
           /\ j \in Holding => /\ Cardinality(Holding \ {j}) = Cardinality(Holding) - 1
                               /\ Cardinality(Holding) > 0
           /\ j \notin Holding => Holding \ {j} = Holding
  <1>1. j \notin Holding => Cardinality(Holding \cup {j}) = Cardinality(Holding) + 1
    BY HoldingFinite, FS_AddElement
  <1>2. j \in Holding => Cardinality(Holding \ {j}) = Cardinality(Holding) - 1
    BY HoldingFinite, FS_RemoveElement
  <1>3. j \in Holding => Cardinality(Holding) # 0
    BY HoldingFinite, FS_EmptySet
  <1> QED
    BY <1>1, <1>2, <1>3, HoldingFinite
-----------------------------------------------------------------------------
\* The invariant holds before the first request.
LEMMA JobInvInit == JobInit => JobInv
  <1> SUFFICES ASSUME JobInit PROVE JobInv
    OBVIOUS
  <1> USE JobAssumption DEF JobInit
  <1>1. 0 \in 0 .. MaxRestarts
    OBVIOUS
  <1>2. JobTypeOK
    <2>1. row \in [Jobs \ PipelineRuns -> RowStatus]
      BY DEF RowStatus
    <2>2. stats \in [waiting : Nat, running : Nat, submitted : Nat, completed : Nat]
      BY DEF NoStats, Counters
    <2>3. pipeline \in BOOLEAN
      OBVIOUS
    <2> QED
      BY <1>1, <2>1, <2>2, <2>3 DEF JobTypeOK
  <1>3. Holding = {}
    BY DEF Holding
  <1>4. PermitsAreBounded
    BY <1>3, FS_EmptySet DEF PermitsAreBounded, NoStats, Counters
  <1>5. QueueIsWaiters
    BY DEF QueueIsWaiters, Contains
  <1>6. CountersBalance /\ WaitersAreCounted
    BY DEF CountersBalance, WaitersAreCounted, NoStats, Counters
  <1>7. PipelineIsExclusive
    BY DEF PipelineIsExclusive
  <1>8. FlagCoversRuns
    BY DEF FlagCoversRuns, Active
  <1> QED
    BY <1>2, <1>4, <1>5, <1>6, <1>7, <1>8 DEF JobInv
-----------------------------------------------------------------------------
\* Type correctness.
LEMMA TypeStep == JobTypeOK /\ [JobNext]_jobVars => JobTypeOK'
  <1> SUFFICES ASSUME JobTypeOK, [JobNext]_jobVars PROVE JobTypeOK'
    OBVIOUS
  <1> USE JobAssumption
  <1>0. ASSUME NEW j \in Jobs \ PipelineRuns, NEW s \in RowStatus, SaveJob(j, s)
        PROVE  row' \in [Jobs \ PipelineRuns -> RowStatus]
    BY <1>0 DEF SaveJob, JobTypeOK
  <1>1. ASSUME NEW j \in Jobs, SubmitJob(j) PROVE JobTypeOK'
    BY <1>0, <1>1 DEF SubmitJob, JobTypeOK, RowStatus
  <1>2. ASSUME NEW j \in Jobs, SubmitPipeline(j) PROVE JobTypeOK'
    <2>1. pipeline' \in BOOLEAN
      BY <1>2 DEF SubmitPipeline
    <2>2. task' \in [Jobs -> {"none", "scheduled", "waiting", "holding", "done"}]
      BY <1>2 DEF SubmitPipeline, JobTypeOK
    <2>3. UNCHANGED <<row, thread, queue, stats, restarts>>
      BY <1>2 DEF SubmitPipeline
    <2>4. /\ row' \in [Jobs \ PipelineRuns -> RowStatus]
          /\ thread' \in [Jobs -> {"none", "running", "saved", "ended", "lost"}]
          /\ queue' \in Seq(Jobs)
          /\ stats' \in [waiting : Nat, running : Nat, submitted : Nat, completed : Nat]
          /\ restarts' \in 0 .. MaxRestarts
      BY <2>3 DEF JobTypeOK
    <2> QED
      BY <2>1, <2>2, <2>4, Zenon DEF JobTypeOK
  <1>3. ASSUME NEW j \in Jobs, Reserve(j) PROVE JobTypeOK'
    <2>1. /\ task' \in [Jobs -> {"none", "scheduled", "waiting", "holding", "done"}]
          /\ thread' \in [Jobs -> {"none", "running", "saved", "ended", "lost"}]
          /\ queue' \in Seq(Jobs)
      <3>1. \/ /\ task' = [task EXCEPT ![j] = "holding"]
               /\ thread' = [thread EXCEPT ![j] = "running"]
               /\ queue' = queue
            \/ /\ task' = [task EXCEPT ![j] = "waiting"]
               /\ thread' = thread
               /\ queue' = Append(queue, j)
        BY <1>3 DEF Reserve, StartBody
      <3>2. task' \in [Jobs -> {"none", "scheduled", "waiting", "holding", "done"}]
        BY <3>1 DEF JobTypeOK
      <3>3. thread' \in [Jobs -> {"none", "running", "saved", "ended", "lost"}]
        BY <3>1 DEF JobTypeOK
      <3>4. queue' \in Seq(Jobs)
        BY <3>1, AppendProperties DEF JobTypeOK
      <3> QED
        BY <3>2, <3>3, <3>4
    <2>2. stats' \in [waiting : Nat, running : Nat, submitted : Nat, completed : Nat]
      BY <1>3 DEF Reserve, Reserved, Acquired, Counters, AtLeastZero, JobTypeOK
    <2>3. pipeline' \in BOOLEAN
      BY <1>3 DEF Reserve, StartBody, JobTypeOK
    <2>4. row' \in [Jobs \ PipelineRuns -> RowStatus] /\ restarts' \in 0 .. MaxRestarts
      BY <1>3 DEF Reserve, JobTypeOK
    <2> QED
      BY <2>1, <2>2, <2>3, <2>4 DEF JobTypeOK
  <1>4. ASSUME NEW j \in Jobs, Acquire(j) PROVE JobTypeOK'
    BY <1>4 DEF Acquire, StartBody, Acquired, Counters, AtLeastZero, JobTypeOK
  <1>5. ASSUME NEW j \in Jobs, Release(j) PROVE JobTypeOK'
    BY <1>5 DEF Release, Released, Counters, AtLeastZero, JobTypeOK
  <1>6. ASSUME NEW j \in Jobs, NEW outcome \in {"completed", "failed"},
               SaveResult(j, outcome)
        PROVE JobTypeOK'
    BY <1>0, <1>6 DEF SaveResult, JobTypeOK, RowStatus
  <1>13. ASSUME NEW j \in Jobs, LoseResult(j) PROVE JobTypeOK'
    BY <1>13 DEF LoseResult, JobTypeOK
  <1>7. ASSUME NEW j \in Jobs, EndThread(j) PROVE JobTypeOK'
    BY <1>7 DEF EndThread, JobTypeOK
  <1>8. ASSUME NEW j \in Jobs, Cancelled(j) PROVE JobTypeOK'
    <2>1. CASE CancelScheduled(j)
      BY <2>1 DEF CancelScheduled, JobTypeOK
    <2>2. CASE CancelWaiting(j)
      BY <2>2, RemoveAtFacts DEF CancelWaiting, LeaveQueue, JobTypeOK
    <2>3. CASE CancelHolding(j)
      BY <2>3 DEF CancelHolding, Released, Counters, AtLeastZero, JobTypeOK
    <2> QED
      BY <1>8, <2>1, <2>2, <2>3 DEF Cancelled
  <1>9. ASSUME NEW j \in Jobs, CancelJob(j) PROVE JobTypeOK'
    BY <1>9 DEF CancelJob, JobTypeOK, RowStatus
  <1>10. ASSUME NEW j \in Jobs, DeleteJob(j) PROVE JobTypeOK'
    BY <1>10 DEF DeleteJob, JobTypeOK, RowStatus
  <1>11. CASE Restart
    <2>1. pipeline' \in BOOLEAN
      BY <1>11 DEF Restart
    <2>2. stats' \in [waiting : Nat, running : Nat, submitted : Nat, completed : Nat]
      BY <1>11 DEF Restart, NoStats, Counters
    <2>3. restarts' \in 0 .. MaxRestarts
      BY <1>11 DEF Restart, JobTypeOK
    <2>4. task' \in [Jobs -> {"none", "done"}] 
          /\ thread' \in [Jobs -> {"none", "running", "saved", "ended", "lost"}]
      BY <1>11 DEF Restart, JobTypeOK
    <2>5. queue' \in Seq(Jobs) /\ row' \in [Jobs \ PipelineRuns -> RowStatus]
      BY <1>11 DEF Restart, JobTypeOK
    <2> QED
      BY <2>1, <2>2, <2>3, <2>4, <2>5 DEF JobTypeOK
  <1>12. CASE UNCHANGED jobVars
    BY <1>12 DEF jobVars, JobTypeOK
  <1> QED
    BY <1>1, <1>2, <1>3, <1>4, <1>5, <1>6, <1>7, <1>8, <1>9, <1>10, <1>11, <1>12,
       <1>13
    DEF JobNext, Coroutine, Worker
-----------------------------------------------------------------------------
\* Steps that do not disturb what the counters count.
CountersAside == UNCHANGED <<queue, stats>> /\ Holding' = Holding

\* What touches neither the line, the permits nor the counters keeps them right.
LEMMA CountersAsideStep ==
    ASSUME PermitsAreBounded, CountersBalance, CountersAside
    PROVE  PermitsAreBounded' /\ CountersBalance'
  BY DEF PermitsAreBounded, CountersBalance, CountersAside

\* Giving a permit to a job that has none.
LEMMA GrantStep ==
    ASSUME JobTypeOK, PermitsAreBounded, NEW j \in Jobs, task[j] # "holding",
           Cardinality(Holding) < Cap, StartBody(j),
           stats'.running = stats.running + 1
    PROVE  PermitsAreBounded'
  <1>1. Holding' = Holding \cup {j} /\ j \notin Holding
    BY HoldingMove DEF StartBody, Holding
  <1> QED
    BY <1>1, HoldingCount, HoldingFinite, JobAssumption
    DEF PermitsAreBounded

\* Taking a permit back.
LEMMA ReturnStep ==
    ASSUME JobTypeOK, PermitsAreBounded, CountersBalance, NEW j \in Jobs,
           task[j] = "holding", task' = [task EXCEPT ![j] = "done"],
           stats' = Released(stats), UNCHANGED queue
    PROVE  PermitsAreBounded' /\ CountersBalance'
  <1>0. Holding' = IF "done" = "holding" THEN Holding \cup {j} ELSE Holding \ {j}
    BY HoldingMove
  <1>1. Holding' = Holding \ {j} /\ j \in Holding
    BY <1>0 DEF Holding
  <1>2. /\ Cardinality(Holding') = Cardinality(Holding) - 1
        /\ Cardinality(Holding) \in Nat /\ Cardinality(Holding) > 0
    BY <1>1, HoldingCount, HoldingFinite
  <1>3. stats.running > 0 /\ stats.running = Cardinality(Holding)
    BY <1>2 DEF PermitsAreBounded
  <1>4. /\ stats'.running = stats.running - 1
        /\ stats'.waiting = stats.waiting
        /\ stats'.submitted = stats.submitted
        /\ stats'.completed = stats.completed + 1
    BY <1>3 DEF Released, Counters, AtLeastZero, JobTypeOK
  <1>5. PermitsAreBounded'
    BY <1>2, <1>3, <1>4, JobAssumption DEF PermitsAreBounded
  <1>6. CountersBalance'
    BY <1>4 DEF CountersBalance, JobTypeOK
  <1> QED
    BY <1>5, <1>6

\* A step that moves one coroutine between states without a permit.
LEMMA NoPermitMove ==
    ASSUME JobTypeOK, NEW j \in Jobs, task[j] # "holding", NEW v, v # "holding",
           task' = [task EXCEPT ![j] = v]
    PROVE  Holding' = Holding
  BY DEF JobTypeOK, Holding

\* Permits and counters.
LEMMA CountStep ==
    JobInv /\ [JobNext]_jobVars => PermitsAreBounded' /\ CountersBalance'
  <1> DEFINE Goal == PermitsAreBounded' /\ CountersBalance'
  <1> SUFFICES ASSUME JobInv, [JobNext]_jobVars PROVE Goal
    OBVIOUS
  <1>0. JobTypeOK /\ PermitsAreBounded /\ CountersBalance /\ QueueIsWaiters
    BY DEF JobInv
  <1>a. stats \in [waiting : Nat, running : Nat, submitted : Nat, completed : Nat]
        /\ queue \in Seq(Jobs) /\ Len(queue) \in Nat
    BY <1>0 DEF JobTypeOK
  <1>b. ASSUME CountersAside PROVE Goal
    BY <1>0, <1>b, CountersAsideStep
  <1>1. ASSUME NEW j \in Jobs, SubmitJob(j) PROVE Goal
    BY <1>0, <1>1, <1>b, NoPermitMove DEF SubmitJob, CountersAside
  <1>2. ASSUME NEW j \in Jobs, SubmitPipeline(j) PROVE Goal
    BY <1>0, <1>2, <1>b, NoPermitMove DEF SubmitPipeline, CountersAside
  <1>3. ASSUME NEW j \in Jobs, Reserve(j) PROVE Goal
    <2>1. CASE queue = <<>> /\ Cardinality(Holding) < Cap
      <3>1. /\ StartBody(j) /\ UNCHANGED queue
            /\ stats' = Acquired(Reserved(stats)) /\ task[j] # "holding"
        BY <1>3, <2>1 DEF Reserve
      <3>2. /\ stats'.running = stats.running + 1
            /\ stats'.waiting = stats.waiting
            /\ stats'.submitted = stats.submitted + 1
            /\ stats'.completed = stats.completed
        BY <1>a, <3>1 DEF Acquired, Reserved, Counters, AtLeastZero
      <3> QED
        BY <1>0, <1>a, <2>1, <3>1, <3>2, GrantStep DEF CountersBalance
    <2>2. CASE ~(queue = <<>> /\ Cardinality(Holding) < Cap)
      <3>1. /\ task' = [task EXCEPT ![j] = "waiting"] /\ task[j] # "holding"
            /\ queue' = Append(queue, j) /\ stats' = Reserved(stats)
        BY <1>3, <2>2 DEF Reserve
      <3>2. Holding' = Holding
        BY <1>0, <3>1, NoPermitMove
      <3>3. /\ stats'.running = stats.running
            /\ stats'.waiting = stats.waiting + 1
            /\ stats'.submitted = stats.submitted + 1
            /\ stats'.completed = stats.completed
        BY <1>a, <3>1 DEF Reserved, Counters
      <3>4. Len(queue') = Len(queue) + 1
        BY <1>a, <3>1
      <3> QED
        BY <1>0, <1>a, <3>2, <3>3, <3>4 DEF PermitsAreBounded, CountersBalance
    <2> QED
      BY <2>1, <2>2
  <1>4. ASSUME NEW j \in Jobs, Acquire(j) PROVE Goal
    <2>1. /\ queue # <<>> /\ j = queue[1] /\ Cardinality(Holding) < Cap
          /\ queue' = Tail(queue) /\ StartBody(j) /\ stats' = Acquired(stats)
      BY <1>a, <1>4 DEF Acquire
    <2>2. Len(queue) > 0 /\ Len(queue') = Len(queue) - 1
      BY <1>a, <2>1, HeadTailProperties, EmptySeq
    <2>3. task[j] = "waiting"
      BY <1>0, <1>a, <2>1, <2>2 DEF QueueIsWaiters, Contains
    <2>4. stats.waiting > 0
      BY <1>0, <1>a, <2>2 DEF CountersBalance
    <2>5. /\ stats'.running = stats.running + 1
          /\ stats'.waiting = stats.waiting - 1
          /\ stats'.submitted = stats.submitted
          /\ stats'.completed = stats.completed
      BY <1>a, <2>1, <2>4 DEF Acquired, Counters, AtLeastZero
    <2> QED
      BY <1>0, <1>a, <2>1, <2>2, <2>3, <2>5, GrantStep DEF CountersBalance
  <1>5. ASSUME NEW j \in Jobs, Release(j) PROVE Goal
    BY <1>0, <1>5, ReturnStep DEF Release
  <1>6. ASSUME NEW j \in Jobs, NEW outcome \in {"completed", "failed"},
               SaveResult(j, outcome)
        PROVE Goal
    BY <1>b, <1>6 DEF SaveResult, CountersAside, Holding
  <1>12. ASSUME NEW j \in Jobs, LoseResult(j) PROVE Goal
    BY <1>b, <1>12 DEF LoseResult, CountersAside, Holding
  <1>7. ASSUME NEW j \in Jobs, EndThread(j) PROVE Goal
    BY <1>b, <1>7 DEF EndThread, CountersAside, Holding
  <1>8. ASSUME NEW j \in Jobs, Cancelled(j) PROVE Goal
    <2>1. CASE CancelScheduled(j)
      BY <1>0, <1>b, <2>1, NoPermitMove DEF CancelScheduled, CountersAside
    <2>2. CASE CancelWaiting(j)
      <3>1. Holding' = Holding /\ UNCHANGED stats
        BY <1>0, <2>2, NoPermitMove DEF CancelWaiting
      <3>2. Len(queue') = Len(queue) - 1
        BY <1>a, <2>2, RemoveAtFacts DEF CancelWaiting, LeaveQueue
      <3> QED
        BY <1>0, <1>a, <3>1, <3>2 DEF PermitsAreBounded, CountersBalance
    <2>3. CASE CancelHolding(j)
      BY <1>0, <2>3, ReturnStep DEF CancelHolding
    <2> QED
      BY <1>8, <2>1, <2>2, <2>3 DEF Cancelled
  <1>9. ASSUME NEW j \in Jobs, CancelJob(j) \/ DeleteJob(j) PROVE Goal
    BY <1>b, <1>9 DEF CancelJob, DeleteJob, CountersAside, Holding
  <1>10. CASE Restart
    <2>1. Holding' = {}
      BY <1>10 DEF Restart, Holding
    <2> QED
      BY <1>10, <2>1, FS_EmptySet, JobAssumption
      DEF Restart, NoStats, Counters, PermitsAreBounded, CountersBalance
  <1>11. CASE UNCHANGED jobVars
    BY <1>b, <1>11 DEF jobVars, CountersAside, Holding
  <1> QED
    BY <1>1, <1>2, <1>3, <1>4, <1>5, <1>6, <1>7, <1>8, <1>9, <1>10, <1>11, <1>12
    DEF JobNext, Coroutine, Worker

\* A job that was given up stays given up: no step but its own coroutine's
\* starts its body.
LEMMA GivenUpStep ==
    JobInv /\ [JobNext]_jobVars => GivenUp \subseteq GivenUp'
  <1> DEFINE Goal == GivenUp \subseteq GivenUp'
  <1> SUFFICES ASSUME JobInv, [JobNext]_jobVars PROVE Goal
    OBVIOUS
  <1>0. /\ QueueIsWaiters /\ queue \in Seq(Jobs)
        /\ task \in [Jobs -> {"none", "scheduled", "waiting", "holding", "done"}]
        /\ thread \in [Jobs -> {"none", "running", "saved", "ended", "lost"}]
    BY DEF JobInv, JobTypeOK
  <1>a. ASSUME NEW j \in Jobs, task[j] # "done" \/ thread[j] # "none",
               \A k \in Jobs : k # j => task'[k] = task[k] /\ thread'[k] = thread[k]
        PROVE  Goal
    BY <1>a DEF GivenUp
  <1>b. ASSUME UNCHANGED <<task, thread>> PROVE Goal
    BY <1>b DEF GivenUp
  <1>1. ASSUME NEW j \in Jobs, SubmitJob(j) \/ SubmitPipeline(j) PROVE Goal
    BY <1>0, <1>1, <1>a DEF SubmitJob, SubmitPipeline
  <1>2. ASSUME NEW j \in Jobs, Reserve(j) PROVE Goal
    <2>1. task[j] # "done"
      BY <1>2 DEF Reserve
    <2>2. \A k \in Jobs : k # j => task'[k] = task[k] /\ thread'[k] = thread[k]
      BY <1>0, <1>2 DEF Reserve, StartBody
    <2> QED
      BY <1>a, <2>1, <2>2
  <1>3. ASSUME NEW j \in Jobs, Acquire(j) PROVE Goal
    <2>1. queue # <<>> /\ j = queue[1] /\ StartBody(j)
      BY <1>0, <1>3 DEF Acquire
    <2>2. task[j] = "waiting"
      BY <1>0, <2>1, EmptySeq DEF QueueIsWaiters, Contains
    <2> QED
      BY <1>0, <1>a, <2>1, <2>2 DEF StartBody
  <1>4. ASSUME NEW j \in Jobs, Release(j) \/ Cancelled(j) PROVE Goal
    BY <1>0, <1>4, <1>a
    DEF Release, Cancelled, CancelScheduled, CancelWaiting, CancelHolding
  <1>5. ASSUME NEW j \in Jobs, Worker(j) PROVE Goal
    BY <1>0, <1>5, <1>a DEF Worker, SaveResult, LoseResult, EndThread
  <1>6. ASSUME NEW j \in Jobs, CancelJob(j) \/ DeleteJob(j) PROVE Goal
    BY <1>6, <1>b DEF CancelJob, DeleteJob
  <1>7. CASE Restart
    BY <1>0, <1>7 DEF Restart, GivenUp
  <1>8. CASE UNCHANGED jobVars
    BY <1>8, <1>b DEF jobVars
  <1> QED
    BY <1>1, <1>2, <1>3, <1>4, <1>5, <1>6, <1>7, <1>8 DEF JobNext, Coroutine

\* As long as no job is given up, the waiting counter follows the line.
LEMMA WaitersStep ==
    JobInv /\ [JobNext]_jobVars => WaitersAreCounted'
  <1> SUFFICES ASSUME JobInv, [JobNext]_jobVars, GivenUp' = {}
               PROVE  stats'.waiting = Len(queue')
    BY DEF WaitersAreCounted
  <1> DEFINE Goal == stats'.waiting = Len(queue')
  <1>0. /\ stats \in [waiting : Nat, running : Nat, submitted : Nat, completed : Nat]
        /\ queue \in Seq(Jobs) /\ Len(queue) \in Nat /\ QueueIsWaiters
        /\ task \in [Jobs -> {"none", "scheduled", "waiting", "holding", "done"}]
        /\ \A j \in Jobs : thread[j] # "none" => task[j] \in {"holding", "done"}
    BY DEF JobInv, JobTypeOK, FlagCoversRuns
  <1>a. GivenUp = {}
    BY GivenUpStep
  <1>c. stats.waiting = Len(queue)
    BY <1>a DEF JobInv, WaitersAreCounted
  <1>b. ASSUME UNCHANGED <<queue, stats>> PROVE Goal
    BY <1>b, <1>c
  <1>1. ASSUME NEW j \in Jobs, SubmitJob(j) \/ SubmitPipeline(j) PROVE Goal
    BY <1>1, <1>b DEF SubmitJob, SubmitPipeline
  <1>2. ASSUME NEW j \in Jobs, Reserve(j) PROVE Goal
    <2>1. CASE UNCHANGED queue /\ stats' = Acquired(Reserved(stats))
      BY <1>0, <1>c, <2>1 DEF Acquired, Reserved, Counters, AtLeastZero
    <2>2. CASE queue' = Append(queue, j) /\ stats' = Reserved(stats)
      BY <1>0, <1>c, <2>2 DEF Reserved, Counters
    <2> QED
      BY <1>2, <2>1, <2>2 DEF Reserve
  <1>3. ASSUME NEW j \in Jobs, Acquire(j) PROVE Goal
    <2>1. queue # <<>> /\ queue' = Tail(queue) /\ stats' = Acquired(stats)
      BY <1>3 DEF Acquire
    <2>2. Len(queue) > 0 /\ Len(queue') = Len(queue) - 1
      BY <1>0, <2>1, HeadTailProperties, EmptySeq
    <2> QED
      BY <1>0, <1>c, <2>1, <2>2 DEF Acquired, Counters, AtLeastZero
  <1>4. ASSUME NEW j \in Jobs, Release(j) \/ CancelHolding(j) PROVE Goal
    <2>1. UNCHANGED queue /\ stats' = Released(stats)
      BY <1>4 DEF Release, CancelHolding
    <2> QED
      BY <1>c, <2>1 DEF Released, Counters
  <1>5. ASSUME NEW j \in Jobs, CancelWaiting(j) PROVE Goal
    <2>1. thread'[j] = "none" /\ task'[j] = "done"
      BY <1>0, <1>5 DEF CancelWaiting
    <2>2. j \in GivenUp'
      BY <2>1 DEF GivenUp
    <2> QED
      BY <2>2
  <1>6. ASSUME NEW j \in Jobs, CancelScheduled(j) \/ Worker(j) \/ CancelJob(j) \/ DeleteJob(j)
        PROVE  Goal
    BY <1>6, <1>b
    DEF CancelScheduled, Worker, SaveResult, LoseResult, EndThread, CancelJob, DeleteJob
  <1>7. CASE Restart
    BY <1>7 DEF Restart, NoStats, Counters
  <1>8. CASE UNCHANGED jobVars
    BY <1>8, <1>b DEF jobVars
  <1> QED
    BY <1>1, <1>2, <1>3, <1>4, <1>5, <1>6, <1>7, <1>8 DEF JobNext, Coroutine, Cancelled
-----------------------------------------------------------------------------
\* A coroutine moves between states that both wait, or both do not.
LEMMA QueueAside ==
    ASSUME JobTypeOK, QueueIsWaiters, NEW j \in Jobs, NEW v, v # "waiting",
           task[j] # "waiting", task' = [task EXCEPT ![j] = v], UNCHANGED queue
    PROVE  QueueIsWaiters'
  BY DEF JobTypeOK, QueueIsWaiters, Contains

\* A job that does not wait joins the end of the line.
LEMMA QueueJoin ==
    ASSUME JobTypeOK, QueueIsWaiters, NEW j \in Jobs, task[j] # "waiting",
           task' = [task EXCEPT ![j] = "waiting"], queue' = Append(queue, j)
    PROVE  QueueIsWaiters'
  <1>1. /\ queue \in Seq(Jobs) /\ Len(queue) \in Nat /\ DOMAIN queue = 1 .. Len(queue)
        /\ DOMAIN queue' = 1 .. Len(queue) + 1 /\ Len(queue') = Len(queue) + 1
        /\ \A i \in 1 .. Len(queue) : queue'[i] = queue[i]
        /\ queue'[Len(queue) + 1] = j
    BY AppendProperties DEF JobTypeOK
  <1>2. \A i \in 1 .. Len(queue) : queue[i] # j
    BY DEF QueueIsWaiters, Contains
  <1>3. ASSUME NEW k \in Jobs PROVE task'[k] = "waiting" <=> Contains(queue, k)'
    <2>1. Contains(queue, k)' <=> Contains(queue, k) \/ k = j
      BY <1>1 DEF Contains
    <2> QED
      BY <2>1 DEF QueueIsWaiters, JobTypeOK
  <1>4. ASSUME NEW i \in DOMAIN queue', NEW k \in DOMAIN queue', queue'[i] = queue'[k]
        PROVE  i = k
    BY <1>1, <1>2, <1>4 DEF QueueIsWaiters
  <1> QED
    BY <1>3, <1>4 DEF QueueIsWaiters

\* A job leaves the line from position i.
LEMMA QueueRemove ==
    ASSUME JobTypeOK, QueueIsWaiters, NEW i \in DOMAIN queue, NEW v, v # "waiting",
           task' = [task EXCEPT ![queue[i]] = v], queue' = RemoveAt(queue, i)
    PROVE  QueueIsWaiters'
  <1>1. /\ queue \in Seq(Jobs) /\ Len(queue) \in Nat /\ DOMAIN queue = 1 .. Len(queue)
        /\ DOMAIN queue' = 1 .. Len(queue) - 1 /\ Len(queue') = Len(queue) - 1
        /\ i \in 1 .. Len(queue)
    BY RemoveAtFacts DEF JobTypeOK
  <1>2. \A k \in 1 .. Len(queue) - 1 : queue'[k] = IF k < i THEN queue[k] ELSE queue[k + 1]
    BY <1>1, RemoveAtFacts
  <1>3. \A m, n \in 1 .. Len(queue) : queue[m] = queue[n] => m = n
    BY <1>1 DEF QueueIsWaiters
  <1>4. ASSUME NEW k \in Jobs PROVE task'[k] = "waiting" <=> Contains(queue, k)'
    <2>1. ASSUME NEW m \in 1 .. Len(queue) - 1 PROVE queue'[m] # queue[i] /\ Contains(queue, queue'[m])
      <3>1. CASE m < i
        BY <1>1, <1>2, <1>3, <3>1 DEF Contains
      <3>2. CASE ~(m < i)
        <4>1. queue'[m] = queue[m + 1] /\ m + 1 \in 1 .. Len(queue) /\ m + 1 # i
          BY <1>1, <1>2, <3>2
        <4> QED
          BY <1>1, <1>3, <4>1 DEF Contains
      <3> QED
        BY <3>1, <3>2
    <2>2. ASSUME NEW m \in 1 .. Len(queue), m # i PROVE \E n \in 1 .. Len(queue) - 1 : queue'[n] = queue[m]
      <3>1. CASE m < i
        BY <1>1, <1>2, <3>1
      <3>2. CASE ~(m < i)
        <4>1. m - 1 \in 1 .. Len(queue) - 1 /\ ~(m - 1 < i) /\ (m - 1) + 1 = m
          BY <1>1, <2>2, <3>2
        <4>2. queue'[m - 1] = queue[m]
          BY <1>2, <4>1
        <4> QED
          BY <4>1, <4>2
      <3> QED
        BY <3>1, <3>2
    <2>3. ASSUME Contains(queue, k)' PROVE Contains(queue, k) /\ k # queue[i]
      <3>1. PICK m \in 1 .. Len(queue) - 1 : queue'[m] = k
        BY <1>1, <2>3 DEF Contains
      <3> QED
        BY <2>1, <3>1
    <2>4. ASSUME Contains(queue, k), k # queue[i] PROVE Contains(queue, k)'
      <3>1. PICK m \in 1 .. Len(queue) : queue[m] = k
        BY <2>4 DEF Contains
      <3>2. \E n \in 1 .. Len(queue) - 1 : queue'[n] = k
        BY <2>2, <2>4, <3>1
      <3> QED
        BY <1>1, <3>2 DEF Contains
    <2>5. Contains(queue, queue[i]) /\ queue[i] \in Jobs
      BY <1>1 DEF Contains
    <2> QED
      BY <2>3, <2>4, <2>5 DEF QueueIsWaiters, JobTypeOK
  <1>5. ASSUME NEW m \in DOMAIN queue', NEW n \in DOMAIN queue', queue'[m] = queue'[n]
        PROVE  m = n
    <2> DEFINE from(k) == IF k < i THEN k ELSE k + 1
    <2>1. /\ from(m) \in 1 .. Len(queue) /\ queue'[m] = queue[from(m)]
          /\ from(n) \in 1 .. Len(queue) /\ queue'[n] = queue[from(n)]
      BY <1>1, <1>2
    <2>2. from(m) = from(n)
      BY <1>3, <1>5, <2>1
    <2> QED
      BY <1>1, <2>2
  <1> QED
    BY <1>4, <1>5 DEF QueueIsWaiters

\* The line and the coroutines that wait.
LEMMA QueueStep == JobInv /\ [JobNext]_jobVars => QueueIsWaiters'
  <1> SUFFICES ASSUME JobInv, [JobNext]_jobVars PROVE QueueIsWaiters'
    OBVIOUS
  <1>0. JobTypeOK /\ QueueIsWaiters /\ queue \in Seq(Jobs)
    BY DEF JobInv, JobTypeOK
  <1>1. ASSUME NEW j \in Jobs, SubmitJob(j) \/ SubmitPipeline(j) PROVE QueueIsWaiters'
    BY <1>0, <1>1, QueueAside DEF SubmitJob, SubmitPipeline
  <1>2. ASSUME NEW j \in Jobs, Reserve(j) PROVE QueueIsWaiters'
    <2>1. CASE queue = <<>> /\ Cardinality(Holding) < Cap
      BY <1>0, <1>2, <2>1, QueueAside DEF Reserve, StartBody
    <2>2. CASE ~(queue = <<>> /\ Cardinality(Holding) < Cap)
      BY <1>0, <1>2, <2>2, QueueJoin DEF Reserve
    <2> QED
      BY <2>1, <2>2
  <1>3. ASSUME NEW j \in Jobs, Acquire(j) PROVE QueueIsWaiters'
    <2>1. /\ queue # <<>> /\ j = queue[1] /\ queue' = Tail(queue)
          /\ task' = [task EXCEPT ![j] = "holding"]
      BY <1>0, <1>3 DEF Acquire, StartBody
    <2>2. 1 \in DOMAIN queue
      BY <1>0, <2>1, EmptySeq
    <2>3. Tail(queue) = RemoveAt(queue, 1)
      <3>1. SubSeq(queue, 1, 0) = <<>> /\ Tail(queue) = SubSeq(queue, 2, Len(queue))
        BY <1>0, <2>1, TailIsSubSeq, SubSeqEmpty
      <3>2. SubSeq(queue, 2, Len(queue)) \in Seq(Jobs)
        BY <1>0, <2>1, <3>1, HeadTailProperties
      <3> QED
        BY <3>1, <3>2, ConcatEmptySeq DEF RemoveAt
    <2> QED
      BY <1>0, <2>1, <2>2, <2>3, QueueRemove
  <1>4. ASSUME NEW j \in Jobs, Release(j) \/ CancelScheduled(j) \/ CancelHolding(j)
        PROVE  QueueIsWaiters'
    BY <1>0, <1>4, QueueAside DEF Release, CancelScheduled, CancelHolding
  <1>5. ASSUME NEW j \in Jobs, CancelWaiting(j) PROVE QueueIsWaiters'
    BY <1>0, <1>5, QueueRemove DEF CancelWaiting, LeaveQueue
  <1>6. ASSUME UNCHANGED <<task, queue>> PROVE QueueIsWaiters'
    BY <1>0, <1>6 DEF QueueIsWaiters, Contains
  <1>7. ASSUME NEW j \in Jobs, \/ Worker(j) \/ CancelJob(j) \/ DeleteJob(j)
        PROVE  QueueIsWaiters'
    BY <1>6, <1>7 DEF Worker, SaveResult, LoseResult, EndThread, CancelJob, DeleteJob
  <1>8. CASE Restart
    BY <1>8 DEF Restart, QueueIsWaiters, Contains
  <1>9. CASE UNCHANGED jobVars
    BY <1>6, <1>9 DEF jobVars
  <1> QED
    BY <1>1, <1>2, <1>3, <1>4, <1>5, <1>7, <1>8, <1>9 DEF JobNext, Coroutine, Cancelled
-----------------------------------------------------------------------------
\* The flag goes off only with the last active pipeline.
LEMMA FlagStep ==
    JobInv /\ [JobNext]_jobVars => PipelineIsExclusive' /\ FlagCoversRuns'
  <1> DEFINE Goal == PipelineIsExclusive' /\ FlagCoversRuns'
  <1> SUFFICES ASSUME JobInv, [JobNext]_jobVars PROVE Goal
    OBVIOUS
  <1>0. /\ JobTypeOK /\ QueueIsWaiters /\ PipelineRuns \subseteq Jobs
        /\ queue \in Seq(Jobs)
        /\ task \in [Jobs -> {"none", "scheduled", "waiting", "holding", "done"}]
        /\ thread \in [Jobs -> {"none", "running", "saved", "ended", "lost"}]
    BY JobAssumption DEF JobInv, JobTypeOK
  <1>a. /\ \A j, k \in PipelineRuns : Active(j) /\ Active(k) => j = k
        /\ \A j \in PipelineRuns : Active(j) => pipeline
        /\ \A j \in Jobs : thread[j] # "none" => task[j] \in {"holding", "done"}
    BY DEF JobInv, PipelineIsExclusive, FlagCoversRuns, Active
  <1>b. ASSUME \A j \in PipelineRuns : Active(j)' => Active(j),
               \A j \in PipelineRuns : Active(j)' => pipeline',
               \A j \in Jobs : thread'[j] # "none" => task'[j] \in {"holding", "done"}
        PROVE  Goal
    BY <1>a, <1>b DEF PipelineIsExclusive, FlagCoversRuns, Active
  <1>1. ASSUME NEW j \in Jobs, SubmitJob(j) PROVE Goal
    <2>1. \A k \in PipelineRuns : Active(k)' => Active(k)
      BY <1>0, <1>1 DEF SubmitJob, Active
    <2>2. pipeline' = pipeline
      BY <1>1 DEF SubmitJob
    <2>3. \A k \in Jobs : thread'[k] # "none" => task'[k] \in {"holding", "done"}
      BY <1>0, <1>1, <1>a DEF SubmitJob
    <2> QED
      BY <1>a, <1>b, <2>1, <2>2, <2>3
  <1>2. ASSUME NEW j \in Jobs, SubmitPipeline(j) PROVE Goal
    <2>1. \A k \in PipelineRuns : ~Active(k)
      BY <1>2, <1>a DEF SubmitPipeline
    <2>2. \A k \in PipelineRuns : Active(k)' => k = j
      BY <1>0, <1>2, <2>1 DEF SubmitPipeline, Active
    <2>3. pipeline'
      BY <1>2 DEF SubmitPipeline
    <2>4. \A k \in Jobs : thread'[k] # "none" => task'[k] \in {"holding", "done"}
      BY <1>0, <1>2, <1>a DEF SubmitPipeline
    <2> QED
      BY <2>2, <2>3, <2>4 DEF PipelineIsExclusive, FlagCoversRuns, Active
  <1>3. ASSUME NEW j \in Jobs, task[j] \in {"scheduled", "waiting"}, StartBody(j)
        PROVE  Goal
    <2>1. \A k \in PipelineRuns : Active(k)' => Active(k)
      BY <1>0, <1>3 DEF StartBody, Active
    <2>2. \A k \in Jobs : thread'[k] # "none" => task'[k] \in {"holding", "done"}
      BY <1>0, <1>3, <1>a DEF StartBody
    <2>3. pipeline => pipeline'
      BY <1>3 DEF StartBody
    <2> QED
      BY <1>a, <1>b, <2>1, <2>2, <2>3
  <1>4. ASSUME NEW j \in Jobs, Reserve(j) PROVE Goal
    <2>1. CASE queue = <<>> /\ Cardinality(Holding) < Cap
      BY <1>3, <1>4, <2>1 DEF Reserve
    <2>2. CASE ~(queue = <<>> /\ Cardinality(Holding) < Cap)
      <3>1. /\ task[j] = "scheduled" /\ task' = [task EXCEPT ![j] = "waiting"]
            /\ thread' = thread
        BY <1>4, <2>2 DEF Reserve
      <3>2. \A k \in PipelineRuns : Active(k)' => Active(k)
        BY <1>0, <3>1 DEF Active
      <3>3. pipeline' = pipeline
        BY <1>4, <2>2 DEF Reserve
      <3>4. \A k \in Jobs : thread'[k] # "none" => task'[k] \in {"holding", "done"}
        BY <1>0, <3>1, <1>a
      <3> QED
        BY <1>a, <1>b, <3>2, <3>3, <3>4
    <2> QED
      BY <2>1, <2>2
  <1>5. ASSUME NEW j \in Jobs, Acquire(j) PROVE Goal
    <2>1. queue # <<>> /\ j = queue[1] /\ StartBody(j)
      BY <1>0, <1>5 DEF Acquire
    <2>2. Contains(queue, j)
      BY <1>0, <2>1, EmptySeq DEF Contains
    <2>3. task[j] = "waiting"
      BY <1>0, <2>2 DEF QueueIsWaiters
    <2> QED
      BY <1>3, <2>1, <2>3
  <1>6. ASSUME NEW j \in Jobs, NEW v \in {"done"}, task' = [task EXCEPT ![j] = v],
               UNCHANGED <<thread, pipeline>>
        PROVE  Goal
    <2>1. \A k \in PipelineRuns : Active(k)' => Active(k)
      BY <1>0, <1>6 DEF Active
    <2>2. pipeline' = pipeline
      BY <1>6
    <2>3. \A k \in Jobs : thread'[k] # "none" => task'[k] \in {"holding", "done"}
      BY <1>0, <1>6, <1>a
    <2> QED
      BY <1>a, <1>b, <2>1, <2>2, <2>3
  <1>7. ASSUME NEW j \in Jobs, NEW outcome \in {"completed", "failed"},
               SaveResult(j, outcome)
        PROVE  Goal
    <2>1. /\ thread[j] = "running" /\ thread' = [thread EXCEPT ![j] = "saved"]
          /\ task' = task
      BY <1>7 DEF SaveResult
    <2>2. \A k \in PipelineRuns : Active(k)' => Active(k)
      BY <1>0, <2>1 DEF Active
    <2>3. \A k \in Jobs : thread'[k] # "none" => task'[k] \in {"holding", "done"}
      BY <1>0, <2>1, <1>a
    <2>4. ~Active(j)'
      BY <1>0, <1>a, <2>1 DEF Active
    <2>5. CASE j \in PipelineRuns
      <3>1. \A k \in PipelineRuns : ~Active(k)'
        BY <1>a, <2>1, <2>2, <2>4, <2>5 DEF Active
      <3> QED
        BY <1>b, <2>2, <2>3, <3>1
    <2>6. CASE j \notin PipelineRuns
      <3>1. pipeline' = pipeline
        BY <1>7, <2>6 DEF SaveResult
      <3> QED
        BY <1>a, <1>b, <2>2, <2>3, <3>1
    <2> QED
      BY <2>5, <2>6
  <1>14. ASSUME NEW j \in Jobs, LoseResult(j) PROVE Goal
    <2>1. \A k \in PipelineRuns : Active(k)' => Active(k)
      BY <1>0, <1>14 DEF LoseResult, Active
    <2>2. pipeline' = pipeline
      BY <1>14 DEF LoseResult
    <2>3. \A k \in Jobs : thread'[k] # "none" => task'[k] \in {"holding", "done"}
      BY <1>0, <1>14, <1>a DEF LoseResult
    <2> QED
      BY <1>a, <1>b, <2>1, <2>2, <2>3
  <1>8. ASSUME NEW j \in Jobs, EndThread(j) PROVE Goal
    <2>1. \A k \in PipelineRuns : Active(k)' => Active(k)
      BY <1>0, <1>8 DEF EndThread, Active
    <2>2. pipeline' = pipeline
      BY <1>8 DEF EndThread
    <2>3. \A k \in Jobs : thread'[k] # "none" => task'[k] \in {"holding", "done"}
      BY <1>0, <1>8, <1>a DEF EndThread
    <2> QED
      BY <1>a, <1>b, <2>1, <2>2, <2>3
  <1>9. ASSUME NEW j \in Jobs, Release(j) \/ Cancelled(j) PROVE Goal
    <2>1. task' = [task EXCEPT ![j] = "done"] /\ UNCHANGED <<thread, pipeline>>
      BY <1>9 DEF Release, Cancelled, CancelScheduled, CancelWaiting, CancelHolding
    <2> QED
      BY <1>6, <2>1
  <1>10. ASSUME UNCHANGED <<task, thread, pipeline>> PROVE Goal
    <2>1. \A k \in PipelineRuns : Active(k)' <=> Active(k)
      BY <1>10 DEF Active
    <2>2. pipeline' = pipeline /\ task' = task /\ thread' = thread
      BY <1>10
    <2> QED
      BY <1>a, <1>b, <2>1, <2>2
  <1>11. ASSUME NEW j \in Jobs, CancelJob(j) \/ DeleteJob(j) PROVE Goal
    BY <1>10, <1>11 DEF CancelJob, DeleteJob
  <1>12. CASE Restart
    <2>1. \A k \in Jobs : /\ task'[k] \in {"none", "done"}
                          /\ thread'[k] # "running"
                          /\ thread[k] = "none" => thread'[k] = "none"
                          /\ task[k] # "none" => task'[k] = "done"
                          /\ thread[k] # "none" => task[k] # "none"
      BY <1>0, <1>12, <1>a DEF Restart
    <2>2. \A k \in PipelineRuns : ~Active(k)'
      BY <1>0, <2>1 DEF Active
    <2>3. \A k \in Jobs : thread'[k] # "none" => task'[k] \in {"holding", "done"}
      BY <2>1
    <2> QED
      BY <1>b, <2>2, <2>3
  <1>13. CASE UNCHANGED jobVars
    BY <1>10, <1>13 DEF jobVars
  <1> QED
    BY <1>1, <1>2, <1>4, <1>5, <1>7, <1>8, <1>9, <1>11, <1>12, <1>13, <1>14
    DEF JobNext, Coroutine, Worker
-----------------------------------------------------------------------------
\* The invariant holds in every state of the queue.
THEOREM JobInvariant == JobSpec => []JobInv
  <1>1. JobInv /\ [JobNext]_jobVars => JobInv'
    BY TypeStep, CountStep, WaitersStep, QueueStep, FlagStep DEF JobInv
  <1> QED
    BY JobInvInit, <1>1, PTL DEF JobSpec

\* No order of requests, completions, cancellations, failed writes and restarts
\* puts the job rows, coroutines, threads or counters outside of their types.
THEOREM JobTypeCorrect == JobSpec => []JobTypeOK
  <1>1. JobInv => JobTypeOK
    BY DEF JobInv
  <1> QED
    BY JobInvariant, <1>1, PTL

\* The semaphore of deps.py never has more holders than permits, and the
\* running counter of GET /jobs/queue is their number.
THEOREM PermitBound == JobSpec => []PermitsAreBounded
  <1>1. JobInv => PermitsAreBounded
    BY DEF JobInv
  <1> QED
    BY JobInvariant, <1>1, PTL

\* The line of the semaphore is the waiting coroutines, each once.
THEOREM WaitersInLine == JobSpec => []QueueIsWaiters
  <1>1. JobInv => QueueIsWaiters
    BY DEF JobInv
  <1> QED
    BY JobInvariant, <1>1, PTL

\* CountersAreExact: unless a job was given up, GET /jobs/queue shows the length
\* of the line, and every submission waits, runs or is completed.
THEOREM CountersAccount == JobSpec => []CountersAreExact
  <1>1. JobInv => CountersAreExact
    BY DEF JobInv, CountersAreExact, WaitersAreCounted, CountersBalance, PermitsAreBounded
  <1> QED
    BY JobInvariant, <1>1, PTL

\* The flag of routes/pipeline.py keeps two pipelines from being in work at once.
THEOREM OnePipeline == JobSpec => []PipelineIsExclusive
  <1>1. JobInv => PipelineIsExclusive
    BY DEF JobInv
  <1> QED
    BY JobInvariant, <1>1, PTL
-----------------------------------------------------------------------------
\* Only a run that is given up leaves the flag of the pipeline without an owner:
\* the run that sets it owns it as a coroutine and then as a thread, which
\* clears it.
LEMMA OwnerStep ==
    ASSUME JobInv, [JobNext]_jobVars, PipelineFlagHasOwner
    PROVE  PipelineFlagHasOwner'
  <1> DEFINE None == GivenUp \cap PipelineRuns = {}
  <1>0. /\ JobTypeOK /\ QueueIsWaiters /\ PipelineRuns \subseteq Jobs
        /\ queue \in Seq(Jobs)
        /\ task \in [Jobs -> {"none", "scheduled", "waiting", "holding", "done"}]
        /\ thread \in [Jobs -> {"none", "running", "saved", "ended", "lost"}]
    BY JobAssumption DEF JobInv, JobTypeOK
  <1>a. /\ pipeline /\ None => \E j \in PipelineRuns : Active(j)
        /\ None' => None
        /\ \A j \in Jobs : thread[j] # "none" => task[j] \in {"holding", "done"}
    BY GivenUpStep DEF JobInv, PipelineFlagHasOwner, FlagCoversRuns, Active
  <1>b. ASSUME pipeline' /\ None' => \E j \in PipelineRuns : Active(j)'
        PROVE  PipelineFlagHasOwner'
    BY <1>b DEF PipelineFlagHasOwner, Active
  <1>c. ASSUME \A j \in PipelineRuns : Active(j) => Active(j)', pipeline' => pipeline
        PROVE  PipelineFlagHasOwner'
    BY <1>a, <1>b, <1>c
  <1>1. ASSUME NEW j \in Jobs, SubmitJob(j) PROVE PipelineFlagHasOwner'
    <2>1. \A k \in PipelineRuns : Active(k) => Active(k)'
      BY <1>0, <1>1 DEF SubmitJob, Active
    <2> QED
      BY <1>1, <1>c, <2>1 DEF SubmitJob
  <1>2. ASSUME NEW j \in Jobs, SubmitPipeline(j) PROVE PipelineFlagHasOwner'
    <2>1. j \in PipelineRuns /\ Active(j)'
      BY <1>0, <1>2 DEF SubmitPipeline, Active
    <2> QED
      BY <1>b, <2>1
  <1>3. ASSUME NEW j \in Jobs, StartBody(j) PROVE PipelineFlagHasOwner'
    <2>1. Active(j)' /\ \A k \in PipelineRuns : k # j /\ Active(k) => Active(k)'
      BY <1>0, <1>3 DEF StartBody, Active
    <2>2. pipeline' <=> (pipeline \/ j \in PipelineRuns)
      BY <1>3 DEF StartBody
    <2> QED
      BY <1>a, <1>b, <2>1, <2>2
  <1>4. ASSUME NEW j \in Jobs, Reserve(j) PROVE PipelineFlagHasOwner'
    <2>1. CASE queue = <<>> /\ Cardinality(Holding) < Cap
      BY <1>3, <1>4, <2>1 DEF Reserve
    <2>2. CASE ~(queue = <<>> /\ Cardinality(Holding) < Cap)
      <3>1. /\ task' = [task EXCEPT ![j] = "waiting"] /\ thread' = thread
            /\ pipeline' = pipeline
        BY <1>4, <2>2 DEF Reserve
      <3>2. \A k \in PipelineRuns : Active(k) => Active(k)'
        BY <1>0, <3>1 DEF Active
      <3> QED
        BY <1>c, <3>1, <3>2
    <2> QED
      BY <2>1, <2>2
  <1>5. ASSUME NEW j \in Jobs, Acquire(j) PROVE PipelineFlagHasOwner'
    BY <1>3, <1>5 DEF Acquire
  <1>6. ASSUME NEW j \in Jobs, task[j] = "holding", thread' = thread, pipeline' = pipeline,
               task' = [task EXCEPT ![j] = "done"]
        PROVE  PipelineFlagHasOwner'
    <2>1. \A k \in PipelineRuns : Active(k) => Active(k)'
      BY <1>0, <1>6 DEF Active
    <2> QED
      BY <1>6, <1>c, <2>1
  <1>7. ASSUME NEW j \in Jobs, NEW outcome \in {"completed", "failed"},
               SaveResult(j, outcome)
        PROVE  PipelineFlagHasOwner'
    <2>1. CASE j \in PipelineRuns
      BY <1>7, <1>b, <2>1 DEF SaveResult
    <2>2. CASE j \notin PipelineRuns
      <3>1. pipeline' = pipeline /\ task' = task /\ thread' = [thread EXCEPT ![j] = "saved"]
        BY <1>7, <2>2 DEF SaveResult
      <3>2. \A k \in PipelineRuns : Active(k) => Active(k)'
        BY <1>0, <2>2, <3>1 DEF Active
      <3> QED
        BY <1>c, <3>1, <3>2
    <2> QED
      BY <2>1, <2>2
  <1>15. ASSUME NEW j \in Jobs, LoseResult(j) PROVE PipelineFlagHasOwner'
    <2>1. \A k \in PipelineRuns : Active(k) => Active(k)'
      BY <1>0, <1>15 DEF LoseResult, Active
    <2> QED
      BY <1>15, <1>c, <2>1 DEF LoseResult
  <1>8. ASSUME NEW j \in Jobs, EndThread(j) PROVE PipelineFlagHasOwner'
    <2>1. \A k \in PipelineRuns : Active(k) => Active(k)'
      BY <1>0, <1>8 DEF EndThread, Active
    <2> QED
      BY <1>8, <1>c, <2>1 DEF EndThread
  <1>9. ASSUME UNCHANGED <<task, thread, pipeline>> PROVE PipelineFlagHasOwner'
    BY <1>9 DEF PipelineFlagHasOwner, GivenUp
  <1>10. ASSUME NEW j \in Jobs, Release(j) \/ CancelHolding(j) PROVE PipelineFlagHasOwner'
    BY <1>6, <1>10 DEF Release, CancelHolding
  <1>11. ASSUME NEW j \in Jobs, CancelScheduled(j) \/ CancelWaiting(j)
         PROVE  PipelineFlagHasOwner'
    <2>1. /\ task' = [task EXCEPT ![j] = "done"] /\ thread' = thread /\ pipeline' = pipeline
          /\ task[j] \in {"scheduled", "waiting"}
      BY <1>11 DEF CancelScheduled, CancelWaiting
    <2>2. CASE j \in PipelineRuns
      <3>1. task'[j] = "done" /\ thread'[j] = "none"
        BY <1>0, <1>a, <2>1
      <3>2. j \in GivenUp'
        BY <3>1 DEF GivenUp
      <3> QED
        BY <1>b, <2>2, <3>2
    <2>3. CASE j \notin PipelineRuns
      <3>1. \A k \in PipelineRuns : Active(k) => Active(k)'
        BY <1>0, <2>1, <2>3 DEF Active
      <3> QED
        BY <1>c, <2>1, <3>1
    <2> QED
      BY <2>2, <2>3
  <1>12. ASSUME NEW j \in Jobs, CancelJob(j) \/ DeleteJob(j) PROVE PipelineFlagHasOwner'
    BY <1>9, <1>12 DEF CancelJob, DeleteJob
  <1>13. CASE Restart
    BY <1>13, <1>b DEF Restart
  <1>14. CASE UNCHANGED jobVars
    BY <1>9, <1>14 DEF jobVars
  <1> QED
    BY <1>1, <1>2, <1>4, <1>5, <1>7, <1>8, <1>10, <1>11, <1>12, <1>13, <1>14,
       <1>15
    DEF JobNext, Coroutine, Worker, Cancelled

\* PipelineFlagHasOwner: the flag of run_pipeline is never left on without a run
\* that will clear it, for any number of runs, failures and restarts, as long
\* as no run was given up: cancelled before its body started.
THEOREM FlagHasOwner == JobSpec => []PipelineFlagHasOwner
  <1>1. JobInit => PipelineFlagHasOwner
    BY DEF JobInit, PipelineFlagHasOwner
  <1>2. JobInv /\ [JobNext]_jobVars /\ PipelineFlagHasOwner => PipelineFlagHasOwner'
    BY OwnerStep
  <1> QED
    BY JobInvariant, <1>1, <1>2, PTL DEF JobSpec
-----------------------------------------------------------------------------
\* Every step of the queue is a step of the pool, or leaves it alone.
LEMMA PoolStep ==
    JobInv /\ [JobNext]_jobVars => [Pool!PoolNext]_(Pool!poolVars)
  <1> DEFINE Goal == [Pool!PoolNext]_(Pool!poolVars)
  <1> SUFFICES ASSUME JobInv, [JobNext]_jobVars PROVE Goal
    OBVIOUS
  <1>0. JobTypeOK /\ QueueIsWaiters /\ queue \in Seq(Jobs)
    BY DEF JobInv, JobTypeOK
  <1>c. Pool!Cardinality(Holding) = Cardinality(Holding)
    BY DEF Pool!Cardinality, Cardinality
  <1>a. ASSUME UNCHANGED queue, Holding' = Holding PROVE Goal
    BY <1>a DEF Pool!poolVars
  <1>b. ASSUME NEW j \in Jobs, Pool!Enter(j) \/ Pool!GiveUpSlot(j) \/ Pool!LeaveLine(j)
        PROVE  Goal
    BY <1>b DEF Pool!PoolNext
  <1>1. ASSUME NEW j \in Jobs, SubmitJob(j) \/ SubmitPipeline(j) \/ CancelScheduled(j)
        PROVE  Goal
    BY <1>0, <1>1, <1>a, NoPermitMove DEF SubmitJob, SubmitPipeline, CancelScheduled
  <1>2. ASSUME NEW j \in Jobs, Reserve(j) PROVE Goal
    <2>1. ~Pool!InLine(j) /\ j \notin Holding
      BY <1>0, <1>2 DEF Reserve, QueueIsWaiters, Contains, Pool!InLine, Holding
    <2>2. CASE queue = <<>> /\ Cardinality(Holding) < Cap
      <3>1. StartBody(j) /\ UNCHANGED queue
        BY <1>2, <2>2 DEF Reserve
      <3>2. Holding' = Holding \cup {j}
        BY <1>0, <3>1, HoldingMove DEF StartBody
      <3> QED
        BY <1>c, <1>b, <2>1, <2>2, <3>1, <3>2 DEF Pool!Enter
    <2>3. CASE ~(queue = <<>> /\ Cardinality(Holding) < Cap)
      <3>1. /\ task[j] # "holding" /\ task' = [task EXCEPT ![j] = "waiting"]
            /\ queue' = Append(queue, j)
        BY <1>2, <2>3 DEF Reserve
      <3>2. Holding' = Holding
        BY <1>0, <3>1, NoPermitMove
      <3> QED
        BY <1>c, <1>b, <2>1, <2>3, <3>1, <3>2 DEF Pool!Enter
    <2> QED
      BY <2>2, <2>3
  <1>3. ASSUME NEW j \in Jobs, Acquire(j) PROVE Goal
    <2>1. /\ queue # <<>> /\ j = Head(queue) /\ Cardinality(Holding) < Cap
          /\ queue' = Tail(queue) /\ StartBody(j)
      BY <1>3 DEF Acquire
    <2>2. Holding' = Holding \cup {j}
      BY <1>0, <2>1, HoldingMove DEF StartBody
    <2> QED
      BY <1>c, <2>1, <2>2 DEF Pool!TakeSlot, Pool!PoolNext
  <1>4. ASSUME NEW j \in Jobs, Release(j) \/ CancelHolding(j) PROVE Goal
    <2>1. /\ task[j] = "holding" /\ task' = [task EXCEPT ![j] = "done"]
          /\ UNCHANGED queue
      BY <1>4 DEF Release, CancelHolding
    <2>2. Holding' = IF "done" = "holding" THEN Holding \cup {j} ELSE Holding \ {j}
      BY <1>0, <2>1, HoldingMove
    <2>3. j \in Holding /\ Holding' = Holding \ {j}
      BY <2>1, <2>2 DEF Holding
    <2> QED
      BY <1>b, <2>1, <2>3 DEF Pool!GiveUpSlot
  <1>5. ASSUME NEW j \in Jobs, CancelWaiting(j) PROVE Goal
    <2>1. Holding' = Holding
      BY <1>0, <1>5, NoPermitMove DEF CancelWaiting
    <2>2. Pool!LeaveLine(j)
      BY <1>5, <2>1 DEF CancelWaiting, LeaveQueue, Pool!LeaveLine, RemoveAt, Pool!RemoveAt
    <2> QED
      BY <1>b, <2>2
  <1>6. ASSUME NEW j \in Jobs, Worker(j) \/ CancelJob(j) \/ DeleteJob(j) PROVE Goal
    BY <1>6, <1>a
    DEF Worker, SaveResult, LoseResult, EndThread, CancelJob, DeleteJob, Holding
  <1>7. CASE Restart
    <2>1. queue' = <<>> /\ Holding' = {}
      BY <1>7 DEF Restart, Holding
    <2> QED
      BY <2>1 DEF Pool!Forget, Pool!PoolNext
  <1>8. CASE UNCHANGED jobVars
    BY <1>8, <1>a DEF jobVars, Holding
  <1> QED
    BY <1>1, <1>2, <1>3, <1>4, <1>5, <1>6, <1>7, <1>8 DEF JobNext, Coroutine, Cancelled

\* The queue implements the pool: one line, first come first served, at most
\* Cap slots, whatever is cancelled and whenever the server restarts.
THEOREM QueueImplementsPool == JobSpec => ImplementsPool
  <1>1. JobInit => Pool!PoolInit
    BY DEF JobInit, Pool!PoolInit, Holding
  <1> QED
    BY JobInvariant, PoolStep, <1>1, PTL DEF JobSpec, ImplementsPool, Pool!PoolSpec

-----------------------------------------------------------------------------
\* How far the transaction of a promotion has come.
PromotionProgress ==
    /\ call.step = "demote" => txn = "open" /\ table = durable
    /\ call.step = "promote" => txn = "open" /\ table = Stages!Demoted(durable)
    /\ call.step = "commit" =>
          /\ txn = "open"
          /\ table = Moved(Stages!Demoted(durable), call.version, "production")

\* What the lookup of a call has found still holds, if the answer was its own.
LookupHolds ==
    /\ call.step = "fetch" /\ answer.by = "loop" =>
          answer.row = IF durable[call.version] = "none" THEN "empty"
                       ELSE durable[call.version]
    /\ ~misread /\ call.step = "register" => durable[call.version] \in {"none", "staging"}
    /\ ~misread /\ call.step \in {"archive", "begin", "demote", "promote", "commit"} =>
          durable[call.version] # "none"

\* The step of a call is one of its kind.
KindOfStep ==
    /\ call.step = "register" => call.kind = "register"
    /\ call.step = "archive" => call.kind = "archive"
    /\ call.step \in {"begin", "demote", "promote", "commit", "rollback"} =>
          call.kind = "promote"

RegistryInv ==
    /\ RegistryTypeOK
    /\ OneProduction
    /\ TransactionIsOwned
    /\ PromotionProgress
    /\ LookupHolds
    /\ KindOfStep

\* The steps of the process that touch neither the stages nor the call.
JobStep == \E w \in Workers : JobExecutes(w) \/ JobFetches(w) \/ JobWrites(w)

\* RegistryInv holds when the server starts.
LEMMA RegistryInvInit == RegistryInit => RegistryInv
  <1> SUFFICES ASSUME RegistryInit
               PROVE  RegistryInv
    OBVIOUS
  <1> USE DEF RegistryInit, NoCall, NoAnswer
  <1>1. RegistryTypeOK
    BY DEF RegistryTypeOK, Stages!Stage
  <1>2. OneProduction /\ TransactionIsOwned
    BY DEF OneProduction, TransactionIsOwned
  <1>3. PromotionProgress /\ LookupHolds /\ KindOfStep
    BY DEF PromotionProgress, LookupHolds, KindOfStep
  <1> QED
    BY <1>1, <1>2, <1>3 DEF RegistryInv

\* A call in progress has a kind, a version and a step.
LEMMA CallInProgress ==
    ASSUME RegistryTypeOK, call.step # "none"
    PROVE  /\ call.kind \in {"register", "promote", "archive"}
           /\ call.version \in Versions
  BY DEF RegistryTypeOK, NoCall

\* Every step keeps the types of the registry.
LEMMA RegistryTypeStep ==
    ASSUME RegistryTypeOK, [RegistryNext]_registryVars
    PROVE  RegistryTypeOK'
  <1> USE DEF NoCall, NoAnswer, Answer, NextStep
  <1>1. ASSUME NEW kind \in {"register", "promote", "archive"}, NEW v \in Versions,
               Call(kind, v)
        PROVE  RegistryTypeOK'
    BY <1>1 DEF Call, RegistryTypeOK, Stages!Stage
  <1>2. CASE Fetch
    BY <1>2, CallInProgress DEF Fetch, RegistryTypeOK, Stages!Stage
  <1>3. CASE Register \/ Archive \/ Demote \/ Promote
    <2>1. table' \in [Versions -> Stages!Stage]
      <3>1. table \in [Versions -> Stages!Stage] /\ call.version \in Versions
        BY <1>3, CallInProgress DEF Register, Archive, Demote, Promote, RegistryTypeOK
      <3>2. /\ Stages!Demoted(table) \in [Versions -> Stages!Stage]
            /\ [table EXCEPT ![call.version] = "staging"] \in [Versions -> Stages!Stage]
            /\ Moved(table, call.version, "archived") \in [Versions -> Stages!Stage]
            /\ Moved(table, call.version, "production") \in [Versions -> Stages!Stage]
        BY <3>1 DEF Stages!Demoted, Stages!Stage, Moved
      <3> QED
        BY <1>3, <3>2 DEF Register, Archive, Demote, Promote, Written
    <2>2. durable' \in [Versions -> Stages!Stage]
      BY <1>3, <2>1 DEF Register, Archive, Demote, Promote, Written, RegistryTypeOK
    <2> QED
      BY <1>3, <2>1, <2>2, CallInProgress
      DEF Register, Archive, Demote, Promote, Written, RegistryTypeOK, Stages!Stage
  <1>4. CASE Begin \/ Commit \/ Rollback
    BY <1>4, CallInProgress DEF Begin, Commit, Rollback, RegistryTypeOK, Stages!Stage
  <1>5. CASE CallFails \/ UpdateFails \/ CommitFails
    BY <1>5, CallInProgress
    DEF CallFails, UpdateFails, CommitFails, RegistryTypeOK, Stages!Stage
  <1>6. CASE JobStep
    BY <1>6 DEF JobStep, JobExecutes, JobFetches, JobWrites, RegistryTypeOK, Stages!Stage
  <1>7. CASE RestartServer
    BY <1>7 DEF RestartServer, RegistryTypeOK, Stages!Stage
  <1>8. CASE UNCHANGED registryVars
    BY <1>8 DEF registryVars, RegistryTypeOK
  <1> QED
    BY <1>1, <1>2, <1>3, <1>4, <1>5, <1>6, <1>7, <1>8 DEF RegistryNext, JobStep

\* The transaction belongs to the promotion that began it, and its statements
\* find what the earlier ones have left.
LEMMA TransactionStep ==
    ASSUME RegistryInv, [RegistryNext]_registryVars
    PROVE  TransactionIsOwned' /\ PromotionProgress'
  <1> USE DEF RegistryInv, TransactionIsOwned, PromotionProgress, NoCall, NextStep
  <1>1. ASSUME NEW kind \in {"register", "promote", "archive"}, NEW v \in Versions,
               Call(kind, v)
        PROVE  TransactionIsOwned' /\ PromotionProgress'
    BY <1>1 DEF Call
  <1>2. CASE Fetch
    BY <1>2, CallInProgress DEF Fetch
  <1>3. CASE Register \/ Archive
    BY <1>3 DEF Register, Archive, Written
  <1>4. CASE Begin
    BY <1>4 DEF Begin
  <1>5. CASE Demote
    BY <1>5 DEF Demote, Written
  <1>6. CASE Promote
    BY <1>6 DEF Promote, Written
  <1>7. CASE Commit \/ Rollback \/ RestartServer
    BY <1>7 DEF Commit, Rollback, RestartServer
  <1>8. CASE CallFails \/ UpdateFails \/ CommitFails
    BY <1>8 DEF CallFails, UpdateFails, CommitFails
  <1>9. CASE JobStep \/ UNCHANGED registryVars
    BY <1>9 DEF JobStep, JobExecutes, JobFetches, JobWrites, registryVars
  <1> QED
    BY <1>1, <1>2, <1>3, <1>4, <1>5, <1>6, <1>7, <1>8, <1>9 DEF RegistryNext, JobStep

\* From the fetch to the last statement nobody else changes what the lookup
\* was about: only its answer can be taken by a thread.
LEMMA LookupStep ==
    ASSUME RegistryInv, [RegistryNext]_registryVars
    PROVE  LookupHolds'
  <1> USE DEF RegistryInv, LookupHolds, NoCall, NextStep, Answer
  <1>1. ASSUME NEW kind \in {"register", "promote", "archive"}, NEW v \in Versions,
               Call(kind, v)
        PROVE  LookupHolds'
    BY <1>1 DEF Call, TransactionIsOwned
  <1>2. CASE Fetch
    <2>1. CASE call' = NoCall
      BY <1>2, <2>1
    <2>2. CASE call' # NoCall
      <3>1. /\ GoesOn(call.kind, answer.row)
            /\ call'.version = call.version
            /\ call'.step = IF call.kind = "promote" THEN "begin" ELSE call.kind
        BY <1>2, <2>2 DEF Fetch
      <3>2. misread' = (answer.by # "loop") /\ durable' = durable
        BY <1>2 DEF Fetch
      <3>3. call.kind \in {"register", "promote", "archive"} /\ call.step = "fetch"
        BY <1>2, CallInProgress DEF Fetch
      <3>4. ~misread' => answer.row = IF durable[call.version] = "none" THEN "empty"
                                      ELSE durable[call.version]
        BY <3>2, <3>3
      <3>5. durable[call.version] \in {"none", "staging", "production", "archived"}
        BY <1>2, CallInProgress DEF Fetch, RegistryTypeOK, Stages!Stage
      <3>6. call'.step \in {"register", "archive", "begin"}
        BY <3>1, <3>3
      <3>7. call'.step = "register" => call.kind = "register"
        BY <3>1, <3>3
      <3>8. ~misread' /\ call'.step = "register" => durable[call.version] \in {"none", "staging"}
        BY <3>1, <3>4, <3>7, <3>5 DEF GoesOn
      <3>9. ~misread' /\ call'.step # "register" => durable[call.version] # "none"
        BY <3>1, <3>3, <3>4, <3>5 DEF GoesOn
      <3> QED
        BY <3>1, <3>2, <3>6, <3>8, <3>9
    <2> QED
      BY <2>1, <2>2
  <1>3. CASE Register \/ Archive
    BY <1>3 DEF Register, Archive
  <1>4. CASE Begin \/ Demote \/ Promote
    <2>1. durable' = durable
      BY <1>4 DEF Begin, Demote, Promote, Written, PromotionProgress
    <2> QED
      BY <1>4, <2>1 DEF Begin, Demote, Promote
  <1>5. CASE Commit \/ Rollback \/ RestartServer
    BY <1>5 DEF Commit, Rollback, RestartServer
  <1>6. CASE CallFails \/ UpdateFails \/ CommitFails
    BY <1>6 DEF CallFails, UpdateFails, CommitFails
  <1>7. CASE JobStep
    BY <1>7, RegistryAssumption
    DEF JobStep, JobExecutes, JobFetches, JobWrites, NoAnswer
  <1>8. CASE UNCHANGED registryVars
    BY <1>8 DEF registryVars
  <1> QED
    BY <1>1, <1>2, <1>3, <1>4, <1>5, <1>6, <1>7, <1>8 DEF RegistryNext, JobStep

\* Promoting after a demotion leaves one version in production at most, and
\* so does every single statement.
LEMMA OneProductionStep ==
    ASSUME RegistryInv, [RegistryNext]_registryVars
    PROVE  OneProduction'
  <1> USE DEF RegistryInv, OneProduction, RegistryTypeOK
  <1>1. CASE UNCHANGED <<table, durable>>
    BY <1>1
  <1>2. CASE Register
    BY <1>2, CallInProgress DEF Register, Written
  <1>3. CASE Archive
    BY <1>3, CallInProgress DEF Archive, Written, Moved
  <1>4. CASE Demote
    <2>1. \A u \in Versions : table'[u] # "production"
      BY <1>4 DEF Demote, Written, Stages!Demoted
    <2> QED
      BY <1>4, <2>1 DEF Demote, Written
  <1>5. CASE Promote
    <2>1. \A u \in Versions : table[u] # "production"
      BY <1>5 DEF Promote, PromotionProgress, Stages!Demoted
    <2>2. \A u \in Versions : table'[u] = "production" => u = call.version
      BY <1>5, <2>1 DEF Promote, Written, Moved
    <2>3. durable' = durable
      BY <1>5 DEF Promote, Written, PromotionProgress
    <2> QED
      BY <2>2, <2>3
  <1>6. CASE Commit
    BY <1>6 DEF Commit
  <1>7. CASE Rollback \/ CommitFails \/ RestartServer
    BY <1>7 DEF Rollback, CommitFails, RestartServer
  <1> QED
    BY <1>1, <1>2, <1>3, <1>4, <1>5, <1>6, <1>7
    DEF RegistryNext, Call, Fetch, Begin, CallFails, UpdateFails, JobExecutes, JobFetches,
        JobWrites, registryVars

\* Every step leaves the call at a statement of its own kind.
LEMMA KindStep ==
    ASSUME RegistryInv, [RegistryNext]_registryVars
    PROVE  KindOfStep'
  <1> USE DEF RegistryInv, KindOfStep, NextStep, NoCall
  <1>1. CASE UNCHANGED call
    BY <1>1
  <1>2. CASE call' = NoCall
    BY <1>2
  <1>3. ASSUME NEW kind \in {"register", "promote", "archive"}, NEW v \in Versions,
               Call(kind, v)
        PROVE  KindOfStep'
    BY <1>3 DEF Call
  <1>4. CASE Fetch
    BY <1>2, <1>4, CallInProgress DEF Fetch
  <1>5. CASE Begin \/ Demote \/ Promote \/ UpdateFails \/ CommitFails
    BY <1>5 DEF Begin, Demote, Promote, UpdateFails, CommitFails
  <1> QED
    BY <1>1, <1>2, <1>3, <1>4, <1>5
    DEF RegistryNext, Register, Archive, Commit, Rollback, CallFails, JobExecutes,
        JobFetches, JobWrites, RestartServer, registryVars

\* Every step keeps RegistryInv.
LEMMA RegistryInvStep ==
    ASSUME RegistryInv, [RegistryNext]_registryVars
    PROVE  RegistryInv'
  BY RegistryTypeStep, OneProductionStep, TransactionStep, LookupStep, KindStep
  DEF RegistryInv

\* The parts of RegistryInv hold in every reachable state.
THEOREM RegistryInvariant == RegistrySpec => []RegistryInv
  <1>1. RegistryInit => RegistryInv
    BY RegistryInvInit
  <1>2. RegistryInv /\ [RegistryNext]_registryVars => RegistryInv'
    BY RegistryInvStep
  <1> QED
    BY <1>1, <1>2, PTL DEF RegistrySpec

\* OneProduction: promotions that fail anywhere, restarts and other threads
\* never leave two versions of a model in production.
THEOREM AtMostOneProduction == RegistrySpec => []OneProduction
  <1>1. RegistryInv => OneProduction
    BY DEF RegistryInv
  <1> QED
    BY <1>1, RegistryInvariant, PTL

\* TransactionIsOwned: no path out of a call leaves a transaction behind.
THEOREM TransactionHasOwner == RegistrySpec => []TransactionIsOwned
  <1>1. RegistryInv => TransactionIsOwned
    BY DEF RegistryInv
  <1> QED
    BY <1>1, RegistryInvariant, PTL

\* CallsAreAtomic: unless a lookup was answered by another thread, what is
\* committed changes by the whole of the call in progress, as ModelStages says.
THEOREM RegistryImplementsStages == RegistrySpec => CallsAreAtomic
  <1>1. RegistryInit => Stages!StagesInit
    BY DEF RegistryInit, Stages!StagesInit
  <1>2. RegistryInv /\ [RegistryNext]_registryVars
          => [misread \/ Stages!StagesStep(call.kind, call.version)]_durable
    <2> SUFFICES ASSUME RegistryInv, [RegistryNext]_registryVars, ~misread,
                        durable' # durable
                 PROVE  Stages!StagesStep(call.kind, call.version)
      OBVIOUS
    <2> USE DEF RegistryInv, RegistryTypeOK, LookupHolds
    <2>1. CASE Register
      <3>1. Stages!RegisterVersion(call.version) /\ call.kind = "register"
        BY <2>1 DEF Register, Written, TransactionIsOwned, KindOfStep, Stages!RegisterVersion
      <3> QED
        BY <3>1 DEF Stages!StagesStep
    <2>2. CASE Archive
      <3>1. /\ call.version \in Versions /\ durable[call.version] # "none"
            /\ table = durable /\ call.kind = "archive"
        BY <2>2, CallInProgress DEF Archive, TransactionIsOwned, KindOfStep
      <3>2. durable' = [durable EXCEPT ![call.version] = "archived"]
        BY <2>2, <3>1 DEF Archive, Written, Moved
      <3> QED
        BY <3>1, <3>2 DEF Stages!StagesStep, Stages!ArchiveVersion
    <2>3. CASE Commit
      <3>1. /\ call.version \in Versions /\ durable[call.version] # "none"
            /\ call.kind = "promote"
        BY <2>3, CallInProgress DEF Commit, KindOfStep
      <3>2. durable' = Moved(Stages!Demoted(durable), call.version, "production")
        BY <2>3 DEF Commit, PromotionProgress
      <3>3. durable' = Stages!Promoted(durable, call.version)
        BY <3>1, <3>2 DEF Moved, Stages!Demoted, Stages!Promoted
      <3> QED
        BY <3>1, <3>3 DEF Stages!StagesStep, Stages!PromoteVersion
    <2>4. CASE Demote \/ Promote
      BY <2>4 DEF Demote, Promote, Written, PromotionProgress
    <2> QED
      BY <2>1, <2>2, <2>3, <2>4
      DEF RegistryNext, Call, Fetch, Begin, Rollback, CallFails, UpdateFails, CommitFails,
          JobExecutes, JobFetches, JobWrites, RestartServer, registryVars
  <1> QED
    BY <1>1, <1>2, RegistryInvariant, PTL DEF RegistrySpec, CallsAreAtomic

\* As long as every lookup is answered with its own result, the registry
\* implements ModelStages.
THEOREM RegistryRefinesStages == RegistrySpec /\ []~misread => Stages!StagesSpec
  <1>1. ASSUME RegistryInv, ~misread,
               [misread \/ Stages!StagesStep(call.kind, call.version)]_durable
        PROVE  [Stages!StagesNext]_durable
    <2>1. CASE UNCHANGED durable
      BY <2>1
    <2>2. CASE Stages!StagesStep(call.kind, call.version)
      <3>1. call.kind \in {"register", "promote", "archive"}
        BY <2>2 DEF Stages!StagesStep
      <3>2. call.version \in Versions
        BY <1>1, <3>1 DEF RegistryInv, RegistryTypeOK, NoCall
      <3> QED
        BY <2>2, <3>1, <3>2 DEF Stages!StagesNext
    <2> QED
      BY <1>1, <2>1, <2>2
  <1> QED
    BY <1>1, RegistryInvariant, RegistryImplementsStages, PTL
    DEF CallsAreAtomic, Stages!StagesSpec
=============================================================================
