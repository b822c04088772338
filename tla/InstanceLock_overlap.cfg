\* Expected to be violated: see README, findings.
SPECIFICATION Spec
CONSTANTS
    Agent = {a1, a2}
CHECK_DEADLOCK FALSE
INVARIANTS
    OneAgent
