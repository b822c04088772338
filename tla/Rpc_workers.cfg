\* Two agents, one after the other.  In the end none may be left to start.
SPECIFICATION FairSpec
CONSTANTS
    MaxRestarts = 2
    MaxAgents = 2
CHECK_DEADLOCK FALSE
INVARIANTS
    ForeignWorkerWasLate
    NoGpuOrphan
PROPERTIES
    DeadGpuReplaced
    StopEnds
