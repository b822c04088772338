\* Expected to be violated: see README, findings.
SPECIFICATION ClientSpec
CONSTANTS
    Node = {n1}
    DegradedSec = 1
    UnreachableSec = 2
    MaxClock = 4
    AndroidKinds = {FALSE}
    OffloadChoices = {}
    SaveOutcomes = {TRUE}
    LoadOutcomes = {TRUE}
INVARIANTS
    ExclusionSurvives
