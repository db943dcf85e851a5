\* A launch that may be lost, or refused its note, next to an explicit wait that takes the note over and a kill that may come before the spawn registers, or before a blocking send that the user may break off: no launch and no message the child took up is followed for ever.
SPECIFICATION SNFairSpec
CONSTANTS
    Calls = {1, 2, 3}
    Kinds <- SpawnThen
    Early = {3}
    Abortable = {2}
    Backoff = 1
    MaxBodies = 1
    SlowReads = TRUE
    MaxInterrupts = 1
    MaxFaults = 1
CHECK_DEADLOCK FALSE
PROPERTIES
    Settles
