\* Two jobs with rows and two pipeline runs for two permits; cancellations
\* anywhere, one restart, writes of rows that fail.  Every identifier is used
\* once, so the instance ends.
CONSTANTS
    Jobs = {j1, j2, p1, p2}
    PipelineRuns = {p1, p2}
    j1 = j1
    j2 = j2
    p1 = p1
    p2 = p2
    Cap = 2
    MaxRestarts = 1
CHECK_DEADLOCK FALSE
SPECIFICATION JobFairSpec
INVARIANTS
    PermitsAreBounded
    QueueIsWaiters
    CountersAreExact
    PipelineIsExclusive
    PipelineFlagHasOwner
PROPERTIES
    ImplementsPool
    EveryJobSettles
