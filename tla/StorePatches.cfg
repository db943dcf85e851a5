\* Writers with a heartbeat and a lease check, killed or suspended while a waiter judges their lock stale: a heartbeat between its two looks saves the lock, and every attempt ends. Beside it the keying of a session while git answers late, or not, with saves, reads and folds in between; and every question a rule engine is asked over short patterns, approvals and stores, against what the patterns mean.
SPECIFICATION MCSpec
CONSTANTS
    p1 = p1
    p2 = p2
    shared = shared
    Savers = {}
    Patchers = {p1, p2}
    Folders = {}
    Adopters = {}
    Stores <- OneStore
    Shared = shared
    StoreOf <- StoreOfAll
    RuleOf <- RuleOfAll
    Before <- BeforeAll
    Stoppable = {p1}
    Unwritable = {}
    MaxPasses = 2
    MaxCrashes = 1
    MaxStops = 1
    MaxBeats = 2
    MaxToggles = 0
    Saves = {1, 2}
    Reads = {3}
    MaxFlips = 1
    MaxDistrusts = 1
    MaxLapses = 1
    Patterns <- Globs
    KeyPatterns <- Keys
    RulePatterns <- OneLetter
    Words <- Strings
CHECK_DEADLOCK FALSE
INVARIANTS
    RulesAreSound
PROPERTIES
    PatchesSettle
    KeysAreKept
