\* The instance of MCJobQueue without its restart.
CONSTANTS
    Jobs = {j1, j2, p1, p2}
    PipelineRuns = {p1, p2}
    j1 = j1
    j2 = j2
    p1 = p1
    p2 = p2
    Cap = 2
    MaxRestarts = 0
CHECK_DEADLOCK FALSE
SPECIFICATION JobSpec
INVARIANTS
    WaitingIsTheLine
