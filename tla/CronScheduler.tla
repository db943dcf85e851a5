--------------------------- MODULE CronScheduler ---------------------------
(***************************************************************************)
(* The in-memory job store and scheduler of the cron plugin                *)
(* (createScheduler in plugins/cron/src/scheduler.ts).                     *)
(*                                                                         *)
(* JavaScript runs one handler at a time, so an action is the synchronous  *)
(* stretch of code between two awaits.  A fire of a job is a "run": a      *)
(* reservation in firing, an optional idle probe, a delivery, and the      *)
(* finally block that releases the reservation.  Everything else - timer,  *)
(* session events, tool calls, disposal - may happen between two of its    *)
(* steps.                                                                  *)
(*                                                                         *)
(* Instants are naturals.  A cron pattern is abstracted to its period p:   *)
(* its matches are the positive multiples of p.  The hash of the job's     *)
(* identity, which spreads a fleet of jobs apart, is abstracted to a fixed *)
(* fraction job.jitter / JitterSteps in [0, 1).                            *)
(***************************************************************************)
EXTENDS Integers, FiniteSets

CONSTANTS
    Sessions,             \* root sessions that own jobs
    Crons,                \* cron patterns (their periods)
    None,                 \* JavaScript's undefined
    RecurringTTL,         \* RECURRING_TTL_MS
    MaxJobsPerSession,    \* MAX_JOBS_PER_SESSION
    MaxAttempts,          \* MAX_DELIVERY_ATTEMPTS
    RetryDelay,           \* RETRY_DELAY_MS
    MaxArm,               \* MAX_ARM_MS
    MaxTime,              \* bound on the clock
    MaxCreated,           \* bound on the jobs ever created
    MaxIdle,              \* bound on the idle events of one session
    RecurringJitterMax,   \* RECURRING_JITTER_MAX_MS
    OneShotEarlyMax,      \* ONE_SHOT_EARLY_JITTER_MAX_MS
    HalfHour,             \* the ":00/:30" grid one-shots are pinned to
    JitterSteps           \* granularity of the jitter fraction

ASSUME TimeAssumption ==
    /\ RecurringJitterMax \in Nat
    /\ OneShotEarlyMax \in Nat
    /\ HalfHour \in Nat \ {0}
    /\ JitterSteps \in Nat \ {0}

ASSUME SchedulerAssumption ==
    /\ Crons \subseteq Nat \ {0}
    /\ None \notin Int
    /\ None \notin {"rejected", "ambiguous"}
    /\ RecurringTTL \in Nat
    /\ MaxJobsPerSession \in Nat
    /\ MaxAttempts \in Nat \ {0}
    /\ RetryDelay \in Nat
    /\ MaxArm \in Nat
    /\ MaxTime \in Nat
    /\ MaxCreated \in Nat
    /\ MaxIdle \in Nat

VARIABLES
    now,              \* deps.now()
    seq,              \* number of ids handed out; ids are 1..seq
    job,              \* the CronJob objects, by id; they outlive their removal
    jobs,             \* the keys of the jobs Map
    firing,           \* ids reserved by a run
    runs,             \* the async functions in flight
    idleEpochs,       \* idle transitions seen, by session
    deferredAtEpoch,  \* the epoch a finished run was deferred at, by id
    timer,            \* the instant the single timer is armed for
    disposed,
    landed,           \* auxiliary: prompts the host accepted, by id
    heldAt            \* auxiliary: the epoch of the last deferral, by id

vars == <<now, seq, job, jobs, firing, runs, idleEpochs, deferredAtEpoch,
          timer, disposed, landed, heldAt>>

-----------------------------------------------------------------------------
(* When a job fires next                                                   *)

Earlier(a, b) == IF a <= b THEN a ELSE b
Later(a, b)   == IF a >= b THEN a ELSE b

\* croner's nextRun: the first match strictly after an instant.
NextMatch(p, after) == ((after \div p) + 1) * p

\* Math.round(fraction * span), where fraction = n / JitterSteps.
Spread(n, span) == (2 * n * span + JitterSteps) \div (2 * JitterSteps)

\* How far past its match a recurring job may fire: half the interval at most.
RecurringCap(p, nominal) ==
    Earlier(RecurringJitterMax, (NextMatch(p, nominal) - nominal) \div 2)

RecurringFire(entry, nominal) ==
    nominal + Spread(entry.jitter, RecurringCap(entry.cron, nominal))

OneShotFire(entry, nominal, after) ==
    IF nominal % HalfHour # 0
    THEN nominal
    ELSE Later(nominal - Spread(entry.jitter, OneShotEarlyMax), after)

NextFireAfter(entry, after) ==
    LET nominal == NextMatch(entry.cron, after)
    IN  IF entry.recurring
        THEN RecurringFire(entry, nominal)
        ELSE OneShotFire(entry, nominal, after)

-----------------------------------------------------------------------------
Ids == 1..seq
Instant == Nat
Optional(S) == S \cup {None}

Job == [session: Sessions, cron: Crons, recurring: BOOLEAN, jitter: Nat,
        createdAt: Instant, expiresAt: Optional(Instant), pending: BOOLEAN,
        nextFire: Optional(Instant), messageID: BOOLEAN, attempts: Nat,
        failure: Optional({"rejected", "ambiguous"})]

\* A run awaits its idle probe ("probe"), awaits the delivery before or after
\* beginAttempt answered ("deliver", then "dispatched" or "refused"), or has
\* returned and is about to reach its finally block ("done").  check names the
\* probe the run shares with the session's other jobs of the same tick.
Run == [job: Nat,
        phase: {"probe", "deliver", "dispatched", "refused", "done"},
        check: Nat, epoch: Nat, followUp: Optional(Instant)]

OwnedBy(s) == {j \in jobs : job[j].session = s}

-----------------------------------------------------------------------------
(* The timer.                                                              *)

Scheduled(store, j) == store[j].nextFire # None

\* arm() on the state its caller leaves: one timer, for the earliest job that
\* is not in flight, no further away than MaxArm.
ArmedFor(store, live, busy, stopped) ==
    LET fires == {store[j].nextFire : j \in live \ busy} \ {None}
    IN  IF stopped \/ fires = {}
        THEN None
        ELSE LET first == CHOOSE t \in fires : \A u \in fires : t <= u
             IN  Earlier(Later(first, now), now + MaxArm)

Arm == timer' = ArmedFor(job', jobs', firing', disposed')

-----------------------------------------------------------------------------
(* Delivering a fire.                                                      *)

Expired(jr) == jr.expiresAt # None /\ now >= jr.expiresAt

FollowUp(jr) ==
    IF jr.recurring /\ ~Expired(jr) THEN NextFireAfter(jr, now) ELSE None

\* The synchronous head of deliverNow: the job is advanced past this match
\* before anything is sent.
Advanced(jr) == [jr EXCEPT !.pending = FALSE, !.nextFire = FollowUp(jr)]

DeliveryRun(j, jr, epoch) ==
    [job |-> j, phase |-> "deliver", check |-> 0, epoch |-> epoch,
     followUp |-> FollowUp(jr)]

\* fire() after a probe that could not confirm the session idle.
Held(jr) ==
    [jr EXCEPT !.pending = TRUE,
               !.nextFire = IF jr.recurring THEN NextFireAfter(jr, now) ELSE None]

\* Mutant of MayRetry: retries whatever was not confirmed.
MutMayRetryUnknown(outcome, jr) == outcome # "delivered" /\ jr.attempts + 1 < MaxAttempts

\* Definitively refused, with attempts to spare: nothing was enqueued, so a
\* retry under a fresh message ID cannot duplicate the prompt.
MayRetry(outcome, jr) == outcome = "rejected" /\ jr.attempts + 1 < MaxAttempts

\* Mutant of Retried: keeps the refused attempt's message ID.
MutRetried(jr) == [jr EXCEPT !.attempts = @ + 1, !.nextFire = now + RetryDelay]

Retried(jr) == [jr EXCEPT !.attempts = @ + 1, !.messageID = FALSE,
                          !.nextFire = now + RetryDelay]

Parked(jr, outcome) ==
    [jr EXCEPT !.attempts = @ + 1, !.nextFire = None,
               !.failure = IF outcome = "rejected" THEN "rejected" ELSE "ambiguous"]

\* deliverNow() after the delivery returned outcome to run r, the job still
\* being in the store.  A delivered final fire leaves the object as it is.
AfterDelivery(r, jr, outcome) ==
    CASE outcome = "deferred" ->
            [jr EXCEPT !.pending = TRUE, !.messageID = FALSE]
      [] outcome = "delivered" ->
            IF r.followUp = None THEN jr ELSE [jr EXCEPT !.messageID = FALSE]
      [] outcome = "rejected" /\ r.followUp # None ->
            [jr EXCEPT !.messageID = FALSE]
      [] r.followUp = None /\ MayRetry(outcome, jr) ->
            Retried(jr)
      [] OTHER ->
            Parked(jr, outcome)

-----------------------------------------------------------------------------
(* The operations.                                                         *)

Init ==
    /\ now = 0
    /\ seq = 0
    /\ job = [j \in 1..0 |-> None]
    /\ jobs = {}
    /\ firing = {}
    /\ runs = {}
    /\ idleEpochs = [s \in Sessions |-> 0]
    /\ deferredAtEpoch = [j \in 1..MaxCreated |-> None]
    /\ timer = None
    /\ disposed = FALSE
    /\ landed = [j \in 1..MaxCreated |-> 0]
    /\ heldAt = [j \in 1..MaxCreated |-> 0]

Advance ==
    /\ now < MaxTime
    /\ now' = now + 1
    /\ UNCHANGED <<seq, job, jobs, firing, runs, idleEpochs, deferredAtEpoch,
                   timer, disposed, landed, heldAt>>

NewJob(s, c, recurring, jitter) ==
    LET base == [session |-> s, cron |-> c, recurring |-> recurring,
                 jitter |-> jitter, createdAt |-> now,
                 expiresAt |-> IF recurring THEN now + RecurringTTL ELSE None,
                 pending |-> FALSE, nextFire |-> None, messageID |-> FALSE,
                 attempts |-> 0, failure |-> None]
    IN  [base EXCEPT !.nextFire = NextFireAfter(base, now)]

HasRoom(s) == Cardinality(OwnedBy(s)) < MaxJobsPerSession

Create(s, c, recurring, jitter) ==
    /\ seq < MaxCreated
    /\ ~disposed
    /\ HasRoom(s)
    /\ seq' = seq + 1
    /\ job' = [j \in 1..(seq + 1) |->
                  IF j = seq + 1 THEN NewJob(s, c, recurring, jitter) ELSE job[j]]
    /\ jobs' = jobs \cup {seq + 1}
    /\ UNCHANGED <<now, firing, runs, idleEpochs, deferredAtEpoch, disposed,
                   landed, heldAt>>
    /\ Arm

Remove(j) ==
    /\ j \in jobs
    /\ jobs' = jobs \ {j}
    /\ deferredAtEpoch' = [deferredAtEpoch EXCEPT ![j] = None]
    /\ idleEpochs' = IF OwnedBy(job[j].session) = {j}
                     THEN [idleEpochs EXCEPT ![job[j].session] = 0]
                     ELSE idleEpochs
    /\ UNCHANGED <<now, seq, job, firing, runs, disposed, landed, heldAt>>
    /\ Arm

DropSession(s) ==
    /\ OwnedBy(s) # {}
    /\ jobs' = jobs \ OwnedBy(s)
    /\ deferredAtEpoch' = [j \in DOMAIN deferredAtEpoch |->
                              IF j \in OwnedBy(s) THEN None ELSE deferredAtEpoch[j]]
    /\ idleEpochs' = [idleEpochs EXCEPT ![s] = 0]
    /\ UNCHANGED <<now, seq, job, firing, runs, disposed, landed, heldAt>>
    /\ Arm

Dispose ==
    /\ ~disposed
    /\ disposed' = TRUE
    /\ jobs' = {}
    /\ idleEpochs' = [s \in Sessions |-> 0]
    /\ deferredAtEpoch' = [j \in DOMAIN deferredAtEpoch |-> None]
    /\ timer' = None
    /\ UNCHANGED <<now, seq, job, firing, runs, landed, heldAt>>

\* tick(): reserve every due job, one idle probe per session.
Due == {j \in jobs \ firing : Scheduled(job, j) /\ job[j].nextFire <= now}

ProbeRun(j) ==
    [job |-> j, phase |-> "probe",
     check |-> CHOOSE k \in Due : /\ job[k].session = job[j].session
                                  /\ \A m \in Due : job[m].session = job[j].session => k <= m,
     epoch |-> idleEpochs[job[j].session], followUp |-> None]

TimerFires ==
    /\ timer # None
    /\ timer <= now
    /\ firing' = firing \cup Due
    /\ runs' = runs \cup {ProbeRun(j) : j \in Due}
    /\ UNCHANGED <<now, seq, job, jobs, idleEpochs, deferredAtEpoch, disposed,
                   landed, heldAt>>
    /\ Arm

\* The idle probe c answers (a failed probe answers FALSE): every run that
\* shares it resumes, in reservation order, before anything else does.
Sharing(c) == {r \in runs : r.phase = "probe" /\ r.check = c}

\* The idle epoch fire() captured before it awaited the probe.
ProbeEpoch(c, j) == (CHOOSE r \in Sharing(c) : r.job = j).epoch

AfterProbe(r, idle) ==
    IF idle /\ r.job \in jobs
    THEN DeliveryRun(r.job, job[r.job], idleEpochs[job[r.job].session])
    ELSE [r EXCEPT !.phase = "done"]

ProbeAnswers(c, idle) ==
    LET resumed == {r.job : r \in Sharing(c)} \cap jobs
    IN  /\ Sharing(c) # {}
        /\ runs' = (runs \ Sharing(c)) \cup {AfterProbe(r, idle) : r \in Sharing(c)}
        /\ job' = [j \in Ids |->
                      IF j \notin resumed THEN job[j]
                      ELSE IF idle THEN Advanced(job[j]) ELSE Held(job[j])]
        /\ IF idle
           THEN UNCHANGED <<deferredAtEpoch, heldAt>>
           ELSE /\ deferredAtEpoch' =
                      [j \in DOMAIN deferredAtEpoch |->
                         IF j \in resumed THEN ProbeEpoch(c, j) ELSE deferredAtEpoch[j]]
                /\ heldAt' = [j \in DOMAIN heldAt |->
                                IF j \in resumed THEN ProbeEpoch(c, j) ELSE heldAt[j]]
        /\ UNCHANGED <<now, seq, jobs, firing, idleEpochs, timer, disposed, landed>>

\* The delivery layer calls beginAttempt just before it dispatches.
BeginAttempt(r) ==
    /\ r.phase = "deliver"
    /\ IF disposed \/ r.job \notin jobs
       THEN /\ runs' = (runs \ {r}) \cup {[r EXCEPT !.phase = "refused"]}
            /\ UNCHANGED job
       ELSE /\ runs' = (runs \ {r}) \cup {[r EXCEPT !.phase = "dispatched"]}
            /\ job' = [job EXCEPT ![r.job].messageID = TRUE]
    /\ UNCHANGED <<now, seq, jobs, firing, idleEpochs, deferredAtEpoch, timer,
                   disposed, landed, heldAt>>

\* What the delivery layer may report, and whether the prompt reached the host.
Outcomes(phase) ==
    CASE phase = "deliver"    -> {<<"deferred", 0>>, <<"rejected", 0>>, <<"unknown", 0>>}
      [] phase = "refused"    -> {<<"rejected", 0>>}
      [] phase = "dispatched" -> {<<"delivered", 1>>, <<"rejected", 0>>,
                                  <<"unknown", 0>>, <<"unknown", 1>>}
      [] OTHER -> {}

DeliverReturns(r, outcome, accepted) ==
    /\ <<outcome, accepted>> \in Outcomes(r.phase)
    /\ runs' = (runs \ {r}) \cup {[r EXCEPT !.phase = "done"]}
    /\ landed' = [landed EXCEPT ![r.job] = @ + accepted]
    /\ IF r.job \notin jobs
       THEN UNCHANGED <<job, jobs, deferredAtEpoch, heldAt>>
       ELSE /\ job' = [job EXCEPT ![r.job] = AfterDelivery(r, @, outcome)]
            /\ jobs' = IF outcome = "delivered" /\ r.followUp = None
                       THEN jobs \ {r.job} ELSE jobs
            /\ IF outcome = "deferred"
               THEN /\ deferredAtEpoch' = [deferredAtEpoch EXCEPT ![r.job] = r.epoch]
                    /\ heldAt' = [heldAt EXCEPT ![r.job] = r.epoch]
               ELSE UNCHANGED <<deferredAtEpoch, heldAt>>
    /\ UNCHANGED <<now, seq, firing, idleEpochs, timer, disposed>>

\* Mutant of Raced: ignores idle transitions during the reservation.
MutRaced(j) == FALSE

\* runReserved's finally block: release the reservation, unless an idle
\* transition raced the deferral - then deliver at once, for no timer will.
Raced(j) ==
    /\ deferredAtEpoch[j] # None
    /\ j \in jobs
    /\ idleEpochs[job[j].session] # deferredAtEpoch[j]
    /\ job[j].pending

\* Mutant of Released: the reservation is never released.
MutReleased(j) == firing

Released(j) == firing \ {j}

Finish(r) ==
    /\ r.phase = "done"
    /\ deferredAtEpoch' = [deferredAtEpoch EXCEPT ![r.job] = None]
    /\ IF Raced(r.job)
       THEN /\ runs' = (runs \ {r}) \cup
                       {DeliveryRun(r.job, job[r.job], idleEpochs[job[r.job].session])}
            /\ job' = [job EXCEPT ![r.job] = Advanced(@)]
            /\ firing' = firing
       ELSE /\ runs' = runs \ {r}
            /\ firing' = Released(r.job)
            /\ job' = job
    /\ UNCHANGED <<now, seq, jobs, idleEpochs, disposed, landed, heldAt>>
    /\ Arm

\* The session went idle: flush what it held.
Flushed(s) == {j \in OwnedBy(s) : job[j].pending /\ j \notin firing}

SessionIdle(s) ==
    /\ OwnedBy(s) # {}
    /\ idleEpochs[s] < MaxIdle
    /\ idleEpochs' = [idleEpochs EXCEPT ![s] = @ + 1]
    /\ firing' = firing \cup Flushed(s)
    /\ runs' = runs \cup {DeliveryRun(j, job[j], idleEpochs'[s]) : j \in Flushed(s)}
    /\ job' = [j \in Ids |-> IF j \in Flushed(s) THEN Advanced(job[j]) ELSE job[j]]
    /\ UNCHANGED <<now, seq, jobs, deferredAtEpoch, disposed, landed, heldAt>>
    /\ IF Flushed(s) = {} THEN timer' = timer ELSE Arm

-----------------------------------------------------------------------------
RunStep(r) ==
    \/ BeginAttempt(r)
    \/ \E o \in {"delivered", "deferred", "rejected", "unknown"}, accepted \in 0..1 :
          DeliverReturns(r, o, accepted)
    \/ Finish(r)
    \/ \E idle \in BOOLEAN : ProbeAnswers(r.check, idle)

Next ==
    \/ Advance
    \/ \E s \in Sessions, c \in Crons, recurring \in BOOLEAN,
          jitter \in 0..(JitterSteps - 1) : Create(s, c, recurring, jitter)
    \/ \E j \in jobs : Remove(j)
    \/ \E s \in Sessions : DropSession(s)
    \/ Dispose
    \/ TimerFires
    \/ \E r \in runs : RunStep(r)
    \/ \E s \in Sessions : SessionIdle(s)

\* The event loop keeps running: time passes, an expired timer's callback is
\* called, and every await settles (host calls carry deadlines).
Fairness ==
    /\ WF_vars(Advance)
    /\ WF_vars(TimerFires)
    /\ \A j \in 1..MaxCreated : WF_vars(\E r \in runs : r.job = j /\ RunStep(r))

Spec == Init /\ [][Next]_vars
FairSpec == Spec /\ Fairness

-----------------------------------------------------------------------------
(* Properties.                                                             *)

TypeOK ==
    /\ now \in Nat
    /\ seq \in 0..MaxCreated
    /\ job \in [Ids -> Job]
    /\ jobs \subseteq Ids
    /\ firing \subseteq Ids
    /\ runs \subseteq Run
    /\ \A r \in runs : r.job \in Ids
    /\ idleEpochs \in [Sessions -> Nat]
    /\ deferredAtEpoch \in [1..MaxCreated -> Optional(Nat)]
    /\ timer \in Optional(Instant)
    /\ disposed \in BOOLEAN
    /\ landed \in [1..MaxCreated -> Nat]
    /\ heldAt \in [1..MaxCreated -> Nat]

\* A job never overlaps its own in-flight delivery: whatever mix of ticks,
\* idle flushes and raced retries happens, at most one run of a job exists,
\* and it is the one that holds the job's reservation.
NoOverlap ==
    /\ \A r, q \in runs : r.job = q.job => r = q
    /\ firing = {r.job : r \in runs}

\* A held fire is never stranded: once its run has ended, no idle transition
\* has happened that the deferral did not know of, so the next one flushes it.
\* (A pending one-shot has no timer; a missed transition would lose it.)
NoStrandedHold ==
    \A j \in jobs \ firing :
        job[j].pending => heldAt[j] = idleEpochs[job[j].session]

\* Nothing scheduled is forgotten: the timer covers every scheduled job that
\* is not in flight, even when deliveries of other jobs never settle.
TimerCoversSchedule ==
    \A j \in jobs \ firing :
        Scheduled(job, j) =>
            timer # None /\ timer <= Later(job[j].nextFire, now)

\* A job that is neither scheduled, held, in flight nor visibly parked would
\* be a fire lost silently: there is none.
NoLostJob ==
    \A j \in jobs \ firing :
        Scheduled(job, j) \/ job[j].pending \/ job[j].failure # None

\* A parked job stays parked: it is not scheduled, not held, not in flight
\* (its run may still be on its way to the finally block).
ParkedIsInert ==
    \A j \in jobs :
        job[j].failure # None =>
            /\ ~Scheduled(job, j)
            /\ ~job[j].pending
            /\ \A r \in runs : r.job = j => r.phase = "done"

\* Every attempt is dispatched under a fresh message ID: when the delivery
\* layer asks for one, none is left over from an earlier attempt (the host
\* stores a prompt with a stale ID without ever executing it).
FreshMessageID ==
    \A r \in runs :
        r.phase \in {"probe", "deliver"} /\ r.job \in jobs => ~job[r.job].messageID

\* The fire instants of a job in (createdAt, now].
FireInstants(jr) ==
    IF jr.recurring
    THEN {n \in 1..now : /\ n % jr.cron = 0
                         /\ n > jr.createdAt
                         /\ RecurringFire(jr, n) <= now}
    ELSE {0}

\* The host never accepts more prompts for a job than the job had fires:
\* one for a one-shot, one per elapsed match for a recurring job - whatever
\* was deferred, retried, raced or answered ambiguously on the way.
AtMostOncePerFire ==
    \A j \in Ids : landed[j] <= Cardinality(FireInstants(job[j]))

\* A one-shot reaches the host at most once, and having reached it, it is gone
\* or parked and nothing of it is still in flight.
OneShotAtMostOnce ==
    \A j \in Ids :
        ~job[j].recurring /\ landed[j] > 0 =>
            /\ landed[j] = 1
            /\ j \in jobs => job[j].failure # None
            /\ \A r \in runs : r.job = j => r.phase = "done"

\* No fire is lost, and a held one has a wake-up to come.
FiresAreKept == NoStrandedHold /\ NoLostJob

\* No fire is delivered twice, of a recurring job or of a one-shot.
NoFireTwice == AtMostOncePerFire /\ OneShotAtMostOnce

\* A terminal fire the host refuses is attempted at most MaxAttempts times.
AttemptsBounded ==
    \A j \in Ids :
        /\ job[j].attempts <= MaxAttempts
        /\ j \in jobs /\ job[j].attempts = MaxAttempts => job[j].failure # None

(* The inductive invariant behind the safety properties.                   *)

Delivering == {"deliver", "dispatched", "refused"}

\* While a delivery is under way the job is already advanced past its match.
DeliveringIsAdvanced ==
    \A r \in runs :
        r.phase \in Delivering /\ r.job \in jobs =>
            ~job[r.job].pending /\ job[r.job].nextFire = r.followUp

\* A run that ended by holding its fire left the epoch of the deferral behind.
HoldIsRecorded ==
    \A r \in runs :
        r.phase = "done" /\ r.job \in jobs /\ job[r.job].pending =>
            deferredAtEpoch[r.job] = heldAt[r.job]

\* NoLostJob already holds when the run has returned.
NoLostFire ==
    \A j \in jobs :
        (\A r \in runs : r.job = j => r.phase = "done") =>
            Scheduled(job, j) \/ job[j].pending \/ job[j].failure # None

\* The followUp a one-shot's run carries is None: the fire is terminal.
OneShotHasNoFollowUp ==
    \A r \in runs : ~job[r.job].recurring => r.followUp = None

\* A message ID belongs to a dispatched attempt or to a parked job.
MessageIDIsInUse ==
    \A j \in jobs :
        job[j].messageID =>
            \/ job[j].failure # None
            \/ \E r \in runs : r.job = j /\ r.phase = "dispatched"

\* A disposed scheduler owns nothing, and nothing is created again.
DisposedIsEmpty == disposed => jobs = {}

\* No prompt was ever accepted for an id that has not been handed out.
UnbornHasNothing == \A j \in 1..MaxCreated : j > seq => landed[j] = 0

IInv ==
    /\ TypeOK
    /\ UnbornHasNothing
    /\ DisposedIsEmpty
    /\ TimerCoversSchedule
    /\ NoOverlap
    /\ DeliveringIsAdvanced
    /\ OneShotHasNoFollowUp
    /\ HoldIsRecorded
    /\ NoStrandedHold
    /\ NoLostFire
    /\ ParkedIsInert
    /\ MessageIDIsInUse
    /\ AttemptsBounded
    /\ OneShotAtMostOnce

(* The accounts behind AtMostOncePerFire: a second inductive invariant.    *)

\* The matches a recurring job has used up.  While it is scheduled for a match
\* of its own, that one and what follows are yet to come; a refused terminal
\* fire is rescheduled for its retry, not for a match.
UsedUp(jr) ==
    {n \in FireInstants(jr) :
        jr.nextFire # None /\ jr.attempts = 0 => RecurringFire(jr, n) < jr.nextFire}

\* A match that is used up may yet reach the host: it is being delivered, held
\* for the next idle transition, or waiting for the retry of a refused attempt.
Outstanding(j) ==
    \/ \E r \in runs : r.job = j /\ r.phase \in Delivering
    \/ j \in jobs /\ (job[j].pending \/ (job[j].attempts > 0 /\ Scheduled(job, j)))

\* Every prompt the host accepted, and the one that may follow, has a match of
\* its own.
FiresAreAccounted ==
    \A j \in Ids :
        job[j].recurring =>
            /\ landed[j] <= Cardinality(UsedUp(job[j]))
            /\ Outstanding(j) => landed[j] + 1 <= Cardinality(UsedUp(job[j]))

\* Short of a retry, a recurring job is scheduled for the fire of a match.
ScheduledOnMatch ==
    \A j \in Ids :
        job[j].recurring =>
            /\ job[j].createdAt <= now
            /\ Scheduled(job, j) /\ job[j].attempts = 0 =>
                   \E n \in 1..job[j].nextFire :
                      /\ n % job[j].cron = 0
                      /\ n > job[j].createdAt
                      /\ RecurringFire(job[j], n) = job[j].nextFire

\* A recurring job is retried, or delivered without a follow-up, only after it
\* has expired.
RetriesAreTerminal ==
    /\ \A j \in jobs :
          job[j].recurring /\ job[j].attempts > 0 /\ job[j].failure = None =>
              Expired(job[j])
    /\ \A r \in runs :
          r.phase \in Delivering /\ r.job \in jobs /\ job[r.job].recurring =>
              /\ r.followUp = None => Expired(job[r.job])
              /\ job[r.job].attempts > 0 => r.followUp = None

\* A probe is asked for a fire that has come.
ProbesAreDue ==
    \A r \in runs :
        r.phase = "probe" /\ r.job \in jobs =>
            Scheduled(job, r.job) /\ job[r.job].nextFire <= now

Accounts ==
    /\ FiresAreAccounted
    /\ ScheduledOnMatch
    /\ RetriesAreTerminal
    /\ ProbesAreDue

\* What every reachable state satisfies and every step preserves.
SchedulerInv == IInv /\ Accounts

(* Liveness.                                                               *)

\* A one-shot is eventually gone (delivered or deleted), parked visibly, held
\* for an idle transition its session has yet to make, or scheduled beyond the
\* clock's bound.
OneShotSettles ==
    \A j \in 1..MaxCreated :
        (j \in jobs /\ ~job[j].recurring) ~>
            \/ j \notin jobs
            \/ job[j].failure # None
            \/ job[j].pending /\ j \notin firing
            \/ Scheduled(job, j) /\ job[j].nextFire > MaxTime

\* Every reservation is released again, or turned into a later run: no run
\* keeps a job out of the timer forever.
RunsEnd ==
    \A j \in 1..MaxCreated : j \in firing ~> j \notin firing

\* Every fire is dealt with, and its reservation given back.
RunsSettle == OneShotSettles /\ RunsEnd
=============================================================================
