\* The session is deleted, the plugin disposed of and the processing mode changed on disk while two prompts are looked up, judged, parked or replied to: every prompt taken up is dealt with, each gets one reply, and one asked after a change to serial is never judged beside its batch-mate. The ancestry of one prompt may never be known.
SPECIFICATION FairSpec
CONSTANTS
    Requests <- Two
    Keys <- OneTree
    SessionOf <- SessionOf1
    TreeOf <- TreeOf1
    BatchOf <- BatchOf1
    MaxQueued = 1
    Toggles = 1
    Changeable = {1}
    Answerable <- Two
    Orphans = {2}
    Deletable = {"root"}
    Disposable = TRUE
CHECK_DEADLOCK FALSE
PROPERTIES
    RepliesAreDue
