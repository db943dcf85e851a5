\* A source is folded and adopted while approvals are saved to it and to the shared store: a fold or a saver is suspended at any step, for a while or for ever, between its last look and its rename or unlink too, its locks are broken as stale, and the directory of the source is read-only for a time; no running holder loses a lock that was not looked at rightly, and no rule is lost but what a writer without its lease replaces. Next to a launch the parent sends and waits, sends without waiting, or kills, while a request fails or a run is broken off; no completion is lost, noted twice or called ended falsely. And two prompts with a stored rule while the rules of the session and of the store change, requests fail and the user answers: rules of the session win, what is answered for always is saved, and replies are told from the user's.
SPECIFICATION MCSpec
CONSTANTS
    f1 = f1
    a1 = a1
    s1 = s1
    s2 = s2
    shared = shared
    w1 = w1
    r1 = r1
    r2 = r2
    r3 = r3
    Savers = {s1, s2}
    Patchers = {}
    Folders = {f1}
    Adopters = {a1}
    Stores <- TwoStores
    Shared = shared
    StoreOf <- StoreOfAll
    RuleOf <- RuleOfAll
    Before <- BeforeAll
    Stoppable = {f1, s1, s2}
    Unwritable = {w1}
    MaxPasses = 3
    MaxCrashes = 0
    MaxStops = 1
    MaxBeats = 0
    MaxToggles = 1
    Prompts = {1, 2}
    Hooked = {2}
    MaxOutstanding = 2
    MaxSessionEdits = 1
    MaxStoreEdits = 1
    MaxFailures = 1
    Calls = {1, 2}
    Kinds <- SpawnWriteKill
    Early = {}
    Abortable = {1}
    Backoff = 1
    MaxBodies = 2
    SlowReads = FALSE
    MaxInterrupts = 1
    MaxFaults = 1
CHECK_DEADLOCK FALSE
INVARIANTS
    NeverLost
    NotesAreTrue
    StoreIsKept
PROPERTIES
    StoredRulesAreMeant
