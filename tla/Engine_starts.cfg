\* Starts with up to two peers, stops, and an agent that may end at any moment.
SPECIFICATION FairSpec
CONSTANTS
    Server = {s1, s2, s3}
    MaxPeers = 2
CHECK_DEADLOCK FALSE
INVARIANTS
    NoLostServer
    FailedStartLeavesNothing
PROPERTIES
    ForeignAnswerWasLate
    CommandEnds
