\* Two runs, the second possibly a sample, with a connection that may break,
\* lines that may run together and a controller that may be killed.
SPECIFICATION FairSpec
CONSTANTS
    Required = {m1}
    MaxLines = 2
    Config = {c1, c2}
    MaxRuns = 2
CHECK_DEADLOCK FALSE
INVARIANTS
    PassProves
    LeftIsReported
    SampleNeedsProof
PROPERTIES
    RunsRefinement
    HeadBeforeWorker
    RunEnds
    RemoteEventuallyGone
