\* Two agents that share a directory, killed and started again at any moment.
SPECIFICATION FairSpec
CONSTANTS
    Agent = {a1, a2}
    Body = {m1, m2}
    Short = {m1}
    Old = old
    Hole = hole
    Size = 2
    Budget = 2
INVARIANTS
    NoLeftover
PROPERTIES
    OkMeansDelivered
    ErrorLeavesWhole
    DownloadEnds
