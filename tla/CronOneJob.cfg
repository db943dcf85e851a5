\* The inductive invariant of the proofs, and one job over a long stretch of time: through repeated matches, busy sessions, raced idle events, refusals, ambiguous answers, expiry and removal no fire is lost, none is delivered twice, every reservation is released and a one-shot is delivered, parked or left waiting for an idle transition.
SPECIFICATION FairSpec
CONSTANTS
    Sessions = {s1}
    Crons = {2, 3}
    RecurringTTL = 3
    MaxJobsPerSession = 1
    MaxAttempts = 3
    RetryDelay = 1
    MaxArm = 2
    MaxTime = 7
    MaxCreated = 1
    MaxIdle = 3
    RecurringJitterMax = 2
    OneShotEarlyMax = 5
    HalfHour = 2
    JitterSteps = 2
    None = None
CHECK_DEADLOCK FALSE
INVARIANTS
    SchedulerInv
    FiresAreKept
    NoFireTwice
PROPERTIES
    RunsSettle
