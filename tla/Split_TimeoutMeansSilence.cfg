\* One placement run; the time runs out while a line is held back.
SPECIFICATION Spec
CONSTANTS
    Required = {m1}
    MaxLines = 2
    Config = {c1}
    MaxRuns = 1
CHECK_DEADLOCK FALSE
PROPERTIES
    TimeoutMeansSilence
