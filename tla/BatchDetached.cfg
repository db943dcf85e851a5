\* A tree object that outlives its entry deletes the entry of the next one, and two objects of one tree release approvals independently of each other.
SPECIFICATION Spec
CONSTANTS
    Requests <- Three
    Keys <- OneTree
    SessionOf <- SessionOf3
    TreeOf <- TreeOf3
    BatchOf <- BatchOf3
    MaxQueued = 1
    Toggles = 0
    Changeable = {}
    Answerable <- Three
    Orphans = {}
    Deletable = {}
    Disposable = FALSE
CHECK_DEADLOCK FALSE
PROPERTIES
    ReleasedInStackOrder
