\* Agents start together or one after the other and are killed anywhere.  All
\* may have ended, which is no deadlock.
SPECIFICATION FairSpec
CONSTANTS
    Agent = {a1, a2, a3}
CHECK_DEADLOCK FALSE
INVARIANTS
    SerialStarts
PROPERTIES
    RefusedForCause
    DuplicateResolved
