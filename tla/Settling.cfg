\* The keeper of a process group and its server, with messages that overtake each other and a keeper lost at any time; completion notes with busy sessions, lost answers, retries and deletion; jobs that compete for slots under a changing limit: a group is called gone only when it is, no slot is given away twice or lost, and what is owed is settled in the end.
SPECIFICATION MCSpec
CONSTANTS
    MaxSignals = 2
    Notes = {1, 2, 3}
    Sessions = {1, 2}
    Owner <- NoteOwner
    MaxPending = 1
    MaxSessions = 1
    Delays = 2
    MaxGone = 1
    Jobs = {1, 2, 3}
    Limits = {1, 2}
    MaxQueued = 2
    MaxTickets = 5
CHECK_DEADLOCK FALSE
INVARIANTS
    GroupClaims
PROPERTIES
    PoolIsSound
    AllSettle
