\* A server that learns secrets, restarts and shares its catalog; the record of what was sent, with evictions and compactions; three starts that make one key; and every small string, message and request body through the scanner, the walk and the last look at the wire. What counts only as approved or saved: the settings of a project before and after their review, two savers and an editor of the settings, the controls of a terminal whose server restarts, the models pinned to a session, the mirrors a terminal keeps. And what a terminal shows of others: the fork of a side question with its lease, events, aborts and marks, and the usage numbers of whoever is signed in.
SPECIFICATION Spec
CONSTANTS
    Processes = {1}
    Texts <- VaultTexts
    EnvTexts <- VaultEnv
    PeerEntries <- PeerAdds
    Limit = 2
    MaxCache = 2
    MaxBoots = 2
    PinSessions = {1, 2}
    Surfaces = {1, 2}
    Routes <- OneRoute
    PerScope = 2
    MaxScopes = 1
    ByteBudget = 2
    MaxKnown = 1
    Starts = {1, 2, 3}
    ChunkSize = 6
    ChunkOverlap = 4
    Longest = 3
    MaxContent = 7
    Terminals = {"a", "b"}
    MaxEvents = 3
    Savers = {x, y}
    Attempts = 2
    MaxEdits = 2
    MaxServers = 2
    MaxToggles = 2
    MaxReads = 2
    Choosers = {"t1", "t2"}
    Models = {"a", "b"}
    MaxPicks = 3
    Roots = {"r1", "r2", "r3"}
    MaxMirrors = 2
    MaxWrites = 1
    Documents <- WalkInputs
    PartLists <- MessageParts
    MaxExchanges = 2
    MaxAbortCalls = 2
    MaxMishaps = 1
    Plans <- SidePlans
    MaxQuestions = 2
    MaxLosses = 2
    MaxNaps = 1
    MaxEnds = 1
    MaxDismissals = 1
    Uses = {1, 2}
    MaxVersions = 4
    Scopes = {"s1", "s2"}
    Records = {"a1", "a2", "u"}
    AccountOf <- AccountsOf
    Ticks = {1}
    HideAfter = 2
    MaxTurns = 2
    MaxReadings = 3
CHECK_DEADLOCK FALSE
INVARIANTS
    SecretsStayInside
    KeysAgree
    PolicyIsReviewed
    ControlsAreTrue
    MirrorsStayLive
    ForksAreAccounted
PROPERTIES
    ReplayIsStable
    SavesAreKept
    PinsAreKept
    ThreadsAreKept
    DecidedOnCurrentMarks
    LimitsAreOwn
