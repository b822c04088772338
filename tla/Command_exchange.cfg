\* Every command line, every fault, and a coordinator that hands commands out
\* once or again.  The agent may end, which is no deadlock.
SPECIFICATION FairSpec
CONSTANTS
    Command = {c1, c2}
    MaxForgets = 1
    MaxCrashes = 1
CHECK_DEADLOCK FALSE
INVARIANTS
    RunOnce
    ResultsAccounted
PROPERTIES
    ServiceRefinement
    EventuallyReported
    EventuallyKnown
    StopEnds
    OnceEnds
