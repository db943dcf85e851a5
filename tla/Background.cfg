\* Two runs, two kills and a wait of one session, with aborts, discards, deletion and shutdown at any step: every exit is reported once, the cap holds, no half-killed task is forgotten. Small scripts of every form: what the shell runs and reaches was asked for. Two servers that start, adopt, write, crash and leave over shared files, with a kill request from the terminal; and output in chunks of any split, read and waited for.
SPECIFICATION Spec
CONSTANTS
    Runs = {1, 2}
    k1 = k1
    k2 = k2
    Kills <- TwoKills
    Waits = {5}
    MaxTasks = 1
    MaxFinished = 1
    MaxEscalations = 2
    Servers = {1, 2}
    MaxCrashes = 1
    Alphabet = {"a", "b", "n"}
    Pattern <- LineAB
    Waiters = {1}
    Capacity = 3
    MaxChunk = 2
    MaxStream = 5
SYMMETRY KillSymmetry
CHECK_DEADLOCK FALSE
INVARIANTS
    TasksInHand
    CommandsAreCovered
    ListsAreTrue
PROPERTIES
    KillsNotEaten
