\* Two nodes and a thread that asks; all properties are safety properties, so
\* that symmetry is sound.
SPECIFICATION ClientSpec
CONSTANTS
    Node = {n1, n2}
    DegradedSec = 0
    UnreachableSec = 1
    MaxClock = 2
    AndroidKinds = {TRUE}
    OffloadChoices = {}
    SaveOutcomes = {TRUE}
    LoadOutcomes = {TRUE, FALSE}
SYMMETRY Symmetry
INVARIANTS
    UnconfirmedNeverOnline
    MarkHolds
PROPERTIES
    PoolRefinement
    AnswerExcludesMarked
