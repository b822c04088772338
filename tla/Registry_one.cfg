\* One node, with every input, under a fair sweeper.
SPECIFICATION FairSpec
CONSTANTS
    Node = {n1}
    DegradedSec = 1
    UnreachableSec = 3
    MaxClock = 4
    AndroidKinds = {TRUE, FALSE}
    OffloadChoices = {FALSE}
    SaveOutcomes = {TRUE, FALSE}
    LoadOutcomes = {TRUE, FALSE}
INVARIANTS
    DiskCurrent
PROPERTIES
    PolicyOnlyByOperator
    NoRevival
    SilentDropped
