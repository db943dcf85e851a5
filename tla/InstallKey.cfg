\* Two first starts at once: one takes the file the other has created and not yet filled for a broken one, repairs it, and the two go on with different keys.
SPECIFICATION IKSpec
CONSTANTS
    Starts = {1, 2}
CHECK_DEADLOCK FALSE
INVARIANTS
    Converged
