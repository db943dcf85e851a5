\* Three prompts of one tree, all judged and the upper two also answered by the user, in any order, while lookups fail and prompts change: batches never interleave, approvals leave in stack order, a prompt of unknown ancestry pauses the tree only until it is dealt with, and no start or release is missed. Beside it the sweeper and the unattended deny on a session that goes on while they look: neither cascades over a prompt it has not vouched for, the deny keeps to its budget until a reply counts as the user's, replies of the plugin's own reject are known as its own, and what an aborted run left behind is not forgotten. Beside both the handler of one prompt while its inputs change: no approval is posted on a policy that was edited since, and none is judged on reads older than the prompt.
SPECIFICATION PromptsSpec
CONSTANTS
    Requests <- Three
    Keys <- OneTree
    SessionOf <- SessionOf3
    TreeOf <- TreeOf3
    BatchOf <- BatchOf3
    MaxQueued = 1
    Toggles = 0
    Changeable = {1}
    Answerable = {1, 2}
    Orphans = {1}
    Deletable = {}
    Disposable = FALSE
    Prompts = {1, 2}
    Plans <- BothPlans
    DenyLimit = 1
    Retries = 0
    Mishaps = 1
    MaxEdits = 1
CHECK_DEADLOCK FALSE
INVARIANTS
    TreeIsSound
    CascadesAreOurs
    LeftIsLookedAfter
    ApprovalIsCurrent
PROPERTIES
    StackOrder
