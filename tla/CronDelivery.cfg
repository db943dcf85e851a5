\* Two jobs of a session share its delivery lane while turns start and end, events come twice, reads fail, requests outlive their deadline and the session closes: deliveries stay serial, no prompt is dispatched into an earlier one's turn, and only unknown ones can be stored out of order. The layer implements the contract the scheduler is written against, and with deadlines on every host call the lane never wedges.
SPECIFICATION FairSpec
CONSTANTS
    Jobs = {j1, j2}
    MaxCalls = 2
    MaxTurns = 2
    MaxProbes = 2
CHECK_DEADLOCK FALSE
INVARIANTS
    LaneKeepsOrder
PROPERTIES
    ImplementsContract
    LaneMovesOn
