------------------------ MODULE CronScheduler_proofs ------------------------
(***************************************************************************)
(* Proofs about CronScheduler for every number of sessions, jobs, idle     *)
(* events and instants.  The argument is one inductive invariant, IInv of  *)
(* CronScheduler; this module shows that Init establishes it and that      *)
(* every action preserves it, part by part.  The accounts of CronScheduler *)
(* are shown on top of it, job by job and run by run.                      *)
(***************************************************************************)
EXTENDS CronScheduler, WellFoundedInduction, FiniteSetTheorems, TLAPS

-----------------------------------------------------------------------------
(* Time arithmetic.                                                        *)

LEMMA DivNat ==
    ASSUME NEW a \in Nat, NEW b \in Nat \ {0}
    PROVE  a \div b \in Nat
  OBVIOUS

\* Multiplication by a natural is monotone.
LEMMA TimesMonotone ==
    ASSUME NEW a \in Nat, NEW b \in Nat, NEW c \in Nat, a <= b
    PROVE  a * c <= b * c
  OBVIOUS

\* croner's contract: the next match lies strictly after the instant.
LEMMA NextMatchAfter ==
    ASSUME NEW p \in Nat \ {0}, NEW t \in Nat
    PROVE  /\ NextMatch(p, t) \in Nat
           /\ NextMatch(p, t) > t
           /\ NextMatch(p, t) <= t + p
  <1> DEFINE q == t \div p
  <1>1. q \in Nat /\ t % p \in 0..(p - 1)
    OBVIOUS
  <1>2. t = p * q + (t % p)
    OBVIOUS
  <1>3. (q + 1) * p = p * q + p
    BY <1>1
  <1> QED
    BY <1>1, <1>2, <1>3 DEF NextMatch

\* A fraction in [0, 1) of a span, rounded, lies within the span.
LEMMA SpreadWithin ==
    ASSUME NEW n \in Nat, NEW span \in Nat
    PROVE  /\ Spread(n, span) \in Nat
           /\ n < JitterSteps => Spread(n, span) <= span
  <1>1. JitterSteps \in Nat \ {0}
    BY TimeAssumption
  <1>2. n * span \in Nat /\ 2 * n * span = 2 * (n * span)
    OBVIOUS
  <1> DEFINE a == 2 * n * span + JitterSteps
             d == 2 * JitterSteps
  <1>3. a \in Nat /\ d \in Nat \ {0}
    BY <1>1, <1>2
  <1>4. a \div d \in Nat
    BY <1>3, DivNat
  <1>5. ASSUME n < JitterSteps PROVE a \div d <= span
    <2>1. n * span <= JitterSteps * span
      BY <1>1, <1>5, TimesMonotone
    <2>2. a <= d * span + JitterSteps
      BY <1>1, <1>2, <2>1
    <2>3. d * (a \div d) <= a
      BY <1>3
    <2>4. CASE a \div d <= span
      BY <2>4
    <2>5. CASE a \div d >= span + 1
      <3>1. (span + 1) * d <= (a \div d) * d
        BY <1>3, <1>4, <2>5, TimesMonotone
      <3>2. (span + 1) * d = d * span + d
        BY <1>3
      <3> QED
        BY <1>1, <1>3, <1>4, <2>2, <2>3, <3>1, <3>2
    <2> QED
      BY <1>4, <2>4, <2>5
  <1> QED
    BY <1>4, <1>5 DEF Spread

\* The scheduler's arithmetic never leaves the naturals.
LEMMA NextFireNat ==
    ASSUME NEW jr, jr.cron \in Nat \ {0}, jr.recurring \in BOOLEAN,
           jr.jitter \in Nat, NEW t \in Nat
    PROVE  /\ NextFireAfter(jr, t) \in Nat
           /\ NextFireAfter(jr, t) >= t
  <1> DEFINE nominal   == NextMatch(jr.cron, t)
             following == NextMatch(jr.cron, nominal)
             cap       == RecurringCap(jr.cron, nominal)
  <1>1. nominal \in Nat /\ nominal > t
    BY NextMatchAfter
  <1>2. following \in Nat /\ following > nominal
    BY <1>1, NextMatchAfter
  <1>3. cap \in Nat
    <2>1. (following - nominal) \div 2 \in Nat
      BY <1>1, <1>2
    <2> QED
      BY <2>1, TimeAssumption DEF RecurringCap, Earlier
  <1>4. Spread(jr.jitter, cap) \in Nat /\ Spread(jr.jitter, OneShotEarlyMax) \in Nat
    BY <1>3, SpreadWithin, TimeAssumption
  <1>5. RecurringFire(jr, nominal) \in Nat /\ RecurringFire(jr, nominal) > t
    BY <1>1, <1>4 DEF RecurringFire
  <1>6. OneShotFire(jr, nominal, t) \in Nat /\ OneShotFire(jr, nominal, t) >= t
    BY <1>1, <1>4 DEF OneShotFire, Later
  <1> QED
    BY <1>5, <1>6 DEF NextFireAfter

\* A jittered recurring fire happens after its match and before the one that
\* follows, so jitter never merges two matches or moves a fire past the next
\* match (nextFireAfter's cap of half the interval).
THEOREM JitterStaysInInterval ==
    ASSUME NEW jr \in Job, NEW t \in Nat, jr.recurring,
           jr.jitter < JitterSteps
    PROVE  LET nominal == NextMatch(jr.cron, t)
           IN  /\ nominal <= NextFireAfter(jr, t)
               /\ NextFireAfter(jr, t) < NextMatch(jr.cron, nominal)
  <1> DEFINE nominal   == NextMatch(jr.cron, t)
             following == NextMatch(jr.cron, nominal)
             cap       == RecurringCap(jr.cron, nominal)
  <1>0. jr.cron \in Nat \ {0} /\ jr.jitter \in Nat
    BY SchedulerAssumption DEF Job
  <1>1. nominal \in Nat /\ nominal > t
    BY <1>0, NextMatchAfter
  <1>2. following \in Nat /\ following > nominal
    BY <1>0, <1>1, NextMatchAfter
  <1>3. (following - nominal) \div 2 \in Nat /\ (following - nominal) \div 2 < following - nominal
    BY <1>1, <1>2
  <1>4. cap \in Nat /\ cap < following - nominal
    BY <1>1, <1>2, <1>3, TimeAssumption DEF RecurringCap, Earlier
  <1>5. Spread(jr.jitter, cap) \in Nat /\ Spread(jr.jitter, cap) <= cap
    BY <1>0, <1>4, SpreadWithin
  <1> QED
    BY <1>1, <1>2, <1>4, <1>5 DEF NextFireAfter, RecurringFire

-----------------------------------------------------------------------------
(* What the steps of a delivery do to a job object.                        *)

LEMMA FollowUpType ==
    ASSUME now \in Nat, NEW jr \in Job
    PROVE  FollowUp(jr) \in Optional(Instant)
  <1>1. NextFireAfter(jr, now) \in Nat
    BY NextFireNat, SchedulerAssumption DEF Job
  <1> QED
    BY <1>1 DEF FollowUp, Optional, Instant

LEMMA AdvancedFacts ==
    ASSUME now \in Nat, NEW jr \in Job
    PROVE  /\ Advanced(jr) \in Job
           /\ ~Advanced(jr).pending
           /\ Advanced(jr).nextFire = FollowUp(jr)
           /\ Advanced(jr).session = jr.session
           /\ (Advanced(jr).recurring <=> jr.recurring)
           /\ (Advanced(jr).messageID <=> jr.messageID)
           /\ Advanced(jr).attempts = jr.attempts
           /\ Advanced(jr).failure = jr.failure
           /\ ~jr.recurring => FollowUp(jr) = None
  BY FollowUpType DEF Advanced, FollowUp, Job

LEMMA HeldFacts ==
    ASSUME now \in Nat, NEW jr \in Job
    PROVE  /\ Held(jr) \in Job
           /\ Held(jr).pending
           /\ Held(jr).session = jr.session
           /\ (Held(jr).recurring <=> jr.recurring)
           /\ (Held(jr).messageID <=> jr.messageID)
           /\ Held(jr).attempts = jr.attempts
           /\ Held(jr).failure = jr.failure
  <1>1. NextFireAfter(jr, now) \in Nat
    BY NextFireNat, SchedulerAssumption DEF Job
  <1> QED
    BY <1>1 DEF Held, Job, Optional, Instant

LEMMA DeliveryRunFacts ==
    ASSUME now \in Nat, NEW jr \in Job, NEW j \in Nat, NEW e \in Nat
    PROVE  /\ DeliveryRun(j, jr, e) \in Run
           /\ DeliveryRun(j, jr, e).job = j
           /\ DeliveryRun(j, jr, e).phase = "deliver"
           /\ DeliveryRun(j, jr, e).epoch = e
           /\ DeliveryRun(j, jr, e).followUp = FollowUp(jr)
  BY FollowUpType DEF DeliveryRun, Run

LEMMA RetriedFacts ==
    ASSUME now \in Nat, NEW jr \in Job
    PROVE  /\ Retried(jr) \in Job
           /\ Retried(jr).session = jr.session
           /\ (Retried(jr).recurring <=> jr.recurring)
           /\ (Retried(jr).pending <=> jr.pending)
           /\ Retried(jr).attempts = jr.attempts + 1
           /\ Retried(jr).nextFire = now + RetryDelay
           /\ ~Retried(jr).messageID
           /\ Retried(jr).failure = jr.failure
  <1>1. now + RetryDelay \in Optional(Instant) /\ jr.attempts + 1 \in Nat
    BY SchedulerAssumption DEF Job, Optional, Instant
  <1>2. Retried(jr) \in Job
    BY <1>1 DEF Retried, Job
  <1> QED
    BY <1>2 DEF Retried, Job

LEMMA ParkedFacts ==
    ASSUME NEW jr \in Job, NEW o
    PROVE  /\ Parked(jr, o) \in Job
           /\ Parked(jr, o).session = jr.session
           /\ (Parked(jr, o).recurring <=> jr.recurring)
           /\ (Parked(jr, o).pending <=> jr.pending)
           /\ Parked(jr, o).attempts = jr.attempts + 1
           /\ Parked(jr, o).nextFire = None
           /\ Parked(jr, o).failure # None
  <1> DEFINE why == IF o = "rejected" THEN "rejected" ELSE "ambiguous"
  <1>1. /\ why \in Optional({"rejected", "ambiguous"})
        /\ None \in Optional(Instant)
        /\ jr.attempts + 1 \in Nat
        /\ why # None
    BY SchedulerAssumption DEF Optional, Job
  <1>2. Parked(jr, o) = [jr EXCEPT !.attempts = jr.attempts + 1,
                                   !.nextFire = None, !.failure = why]
    BY DEF Parked
  <1> HIDE DEF why
  <1>3. Parked(jr, o) \in Job
    BY <1>1, <1>2 DEF Job
  <1> QED
    BY <1>1, <1>2, <1>3 DEF Job

\* Every outcome of a delivery keeps the job's identity and its bookkeeping
\* consistent: retries have a schedule, a failure none, attempts a bound.
LEMMA AfterDeliveryFacts ==
    ASSUME now \in Nat, NEW jr \in Job, NEW r, NEW after,
           NEW o \in {"delivered", "deferred", "rejected", "unknown"},
           after = AfterDelivery(r, jr, o),
           jr.attempts < MaxAttempts, jr.failure = None, ~jr.pending,
           jr.nextFire = r.followUp
    PROVE  /\ after \in Job
           /\ after.session = jr.session
           /\ (after.recurring <=> jr.recurring)
           /\ after.attempts <= MaxAttempts
           /\ after.attempts = MaxAttempts => after.failure # None
           /\ after.pending <=> o = "deferred"
           /\ after.failure # None => after.nextFire = None
           /\ o = "unknown" => after.failure # None
           /\ o = "delivered" => after.failure = None
           /\ after.failure # None => o \in {"rejected", "unknown"}
           /\ \/ o = "delivered" /\ r.followUp = None
              \/ /\ after.failure # None \/ after.nextFire # None \/ after.pending
                 /\ after.messageID => after.failure # None
  <1>0. MaxAttempts \in Nat /\ now + RetryDelay \in Nat /\ None \notin Nat /\ jr.attempts \in Nat
    BY SchedulerAssumption DEF Job
  <1>1. CASE o = "deferred"
    <2>0. after = [jr EXCEPT !.pending = TRUE, !.messageID = FALSE]
      BY <1>1 DEF AfterDelivery, MayRetry
    <2>1. after \in Job
      BY <2>0 DEF Job
    <2>2. /\ after.session = jr.session /\ (after.recurring <=> jr.recurring)
          /\ after.attempts = jr.attempts /\ after.pending
          /\ after.failure = jr.failure /\ after.nextFire = jr.nextFire
          /\ ~after.messageID
      BY <2>0 DEF Job
    <2> QED
      BY <1>0, <1>1, <2>1, <2>2
  <1>2. CASE o = "delivered" /\ r.followUp = None
    <2>0. after = jr
      BY <1>2 DEF AfterDelivery, MayRetry
    <2> QED
      BY <1>0, <1>2, <2>0
  <1>3. CASE o \in {"delivered", "rejected"} /\ r.followUp # None
    <2>0. after = [jr EXCEPT !.messageID = FALSE]
      BY <1>3 DEF AfterDelivery, MayRetry
    <2>1. after \in Job
      BY <2>0 DEF Job
    <2>2. /\ after.session = jr.session /\ (after.recurring <=> jr.recurring)
          /\ after.attempts = jr.attempts /\ (after.pending <=> jr.pending)
          /\ after.failure = jr.failure /\ after.nextFire = jr.nextFire
          /\ ~after.messageID
      BY <2>0 DEF Job
    <2> QED
      BY <1>0, <1>3, <2>1, <2>2
  <1>4. CASE o = "rejected" /\ r.followUp = None /\ MayRetry(o, jr)
    <2>0. after = Retried(jr) /\ jr.attempts + 1 < MaxAttempts
      BY <1>4 DEF AfterDelivery, MayRetry
    <2>1. after.nextFire # None
      BY <1>0, <2>0, RetriedFacts
    <2>2. /\ after \in Job /\ after.session = jr.session
          /\ (after.recurring <=> jr.recurring) /\ ~after.pending
          /\ after.attempts <= MaxAttempts /\ after.attempts # MaxAttempts
          /\ after.failure = None /\ ~after.messageID
      BY <1>0, <2>0, RetriedFacts
    <2> QED
      BY <1>0, <1>4, <2>1, <2>2
  <1>5. CASE \/ o = "rejected" /\ r.followUp = None /\ ~MayRetry(o, jr)
             \/ o = "unknown"
    <2>0. after = Parked(jr, o)
      BY <1>5 DEF AfterDelivery, MayRetry
    <2>1. /\ after \in Job /\ after.session = jr.session
          /\ (after.recurring <=> jr.recurring) /\ ~after.pending
          /\ after.attempts <= MaxAttempts /\ after.failure # None
          /\ after.nextFire = None
      BY <1>0, <2>0, ParkedFacts
    <2> QED
      BY <1>0, <1>5, <2>1
  <1> QED
    BY <1>1, <1>2, <1>3, <1>4, <1>5

-----------------------------------------------------------------------------
(* The timer.                                                              *)

LEMMA SmallestOf ==
    ASSUME NEW S \in SUBSET Nat, S # {}
    PROVE  \E x \in S : \A y \in S : x <= y
  <1>1. PICK x \in S : \A y \in S : ~(<<y, x>> \in OpToRel(<, Nat))
    BY NatLessThanWellFounded, WFMin, Zenon
  <1>2. x \in Nat /\ \A y \in S : y \in Nat /\ ~(y < x)
    BY <1>1, Zenon DEF OpToRel
  <1> QED
    BY <1>2

\* arm() covers every scheduled job that is not in flight.
LEMMA ArmedForFacts ==
    ASSUME now \in Nat, NEW store, NEW live, NEW busy, NEW stopped \in BOOLEAN,
           \A j \in live \ busy : store[j].nextFire \in Optional(Instant),
           stopped => live = {}
    PROVE  /\ ArmedFor(store, live, busy, stopped) \in Optional(Instant)
           /\ \A j \in live \ busy :
                 store[j].nextFire # None =>
                    /\ ArmedFor(store, live, busy, stopped) # None
                    /\ ArmedFor(store, live, busy, stopped) <= Later(store[j].nextFire, now)
  <1> DEFINE fires == {store[j].nextFire : j \in live \ busy} \ {None}
             first == CHOOSE t \in fires : \A u \in fires : t <= u
             at    == Earlier(Later(first, now), now + MaxArm)
  <1>0. fires \in SUBSET Nat /\ MaxArm \in Nat /\ None \notin Nat
    BY SchedulerAssumption DEF Optional, Instant
  <1>1. CASE stopped \/ fires = {}
    <2>1. ArmedFor(store, live, busy, stopped) = None
      BY <1>1 DEF ArmedFor
    <2>2. \A j \in live \ busy : store[j].nextFire = None
      BY <1>1
    <2> QED
      BY <2>1, <2>2 DEF Optional
  <1>2. CASE ~stopped /\ fires # {}
    <2>1. ArmedFor(store, live, busy, stopped) = at
      BY <1>2 DEF ArmedFor
    <2>2. first \in fires /\ \A u \in fires : first <= u
      <3>1. \E t \in fires : \A u \in fires : t <= u
        BY <1>0, <1>2, SmallestOf
      <3> HIDE DEF fires
      <3> QED
        BY <3>1
    <2> HIDE DEF first
    <2>3. at \in Nat /\ at <= Later(first, now)
      <3>1. first \in Nat
        BY <1>0, <2>2
      <3> QED
        BY <1>0, <3>1 DEF Earlier, Later
    <2>4. ASSUME NEW j \in live \ busy, store[j].nextFire # None
          PROVE  at <= Later(store[j].nextFire, now)
      <3>1. store[j].nextFire \in fires
        BY <2>4
      <3>2. store[j].nextFire \in Nat /\ first \in Nat /\ first <= store[j].nextFire
        BY <1>0, <2>2, <3>1
      <3> HIDE DEF at
      <3> QED
        BY <2>3, <3>2 DEF Later
    <2>5. at # None
      BY <1>0, <2>3
    <2> HIDE DEF at, fires
    <2> QED
      BY <2>1, <2>3, <2>4, <2>5 DEF Optional, Instant
  <1> QED
    BY <1>1, <1>2

\* What Arm gives the inductive step.
LEMMA ArmFacts ==
    ASSUME now' \in Nat, now' = now, Arm, (disposed \in BOOLEAN)',
           (disposed => jobs = {})',
           (\A j \in jobs : job[j].nextFire \in Optional(Instant))'
    PROVE  /\ (timer \in Optional(Instant))'
           /\ TimerCoversSchedule'
  BY ArmedForFacts DEF Arm, TimerCoversSchedule, Scheduled

-----------------------------------------------------------------------------
(* IInv holds initially and is preserved by every action.                  *)

LEMMA IdsInRange ==
    ASSUME TypeOK
    PROVE  /\ Ids \subseteq 1..MaxCreated /\ Ids \subseteq Nat
           /\ jobs \subseteq 1..MaxCreated
           /\ \A j \in jobs : job[j] \in Job /\ job[j].session \in Sessions
  <1>1. Ids \subseteq 1..MaxCreated /\ Ids \subseteq Nat
    BY SchedulerAssumption DEF TypeOK, Ids
  <1> QED
    BY <1>1 DEF TypeOK, Job

LEMMA InitEstablishes == Init => IInv
  <1> SUFFICES ASSUME Init PROVE IInv
    OBVIOUS
  <1> USE SchedulerAssumption DEF Init
  <1>1. TypeOK
    <2>0. MaxCreated \in Nat
      OBVIOUS
    <2>1. Ids = {} /\ 1..0 = {}
      BY DEF Ids
    <2>2. job \in [Ids -> Job]
      BY <2>1
    <2>3. /\ now \in Nat /\ seq \in 0..MaxCreated
          /\ jobs \subseteq Ids /\ firing \subseteq Ids /\ runs \subseteq Run
          /\ \A r \in runs : r.job \in Ids
          /\ timer \in Optional(Instant)
      BY <2>0, <2>1 DEF Optional
    <2>4. /\ idleEpochs \in [Sessions -> Nat]
          /\ deferredAtEpoch \in [1..MaxCreated -> Optional(Nat)]
          /\ landed \in [1..MaxCreated -> Nat]
          /\ heldAt \in [1..MaxCreated -> Nat]
      BY DEF Optional
    <2>5. disposed \in BOOLEAN
      OBVIOUS
    <2> QED
      BY <2>2, <2>3, <2>4, <2>5 DEF TypeOK
  <1>2. NoOverlap /\ DisposedIsEmpty /\ UnbornHasNothing /\ TimerCoversSchedule
    BY DEF NoOverlap, DisposedIsEmpty, UnbornHasNothing, TimerCoversSchedule
  <1>3. /\ DeliveringIsAdvanced /\ OneShotHasNoFollowUp /\ HoldIsRecorded
        /\ NoStrandedHold /\ NoLostFire
    BY DEF DeliveringIsAdvanced, OneShotHasNoFollowUp, HoldIsRecorded,
           NoStrandedHold, NoLostFire
  <1>4. ParkedIsInert /\ MessageIDIsInUse
    BY DEF ParkedIsInert, MessageIDIsInUse
  <1>5. AttemptsBounded /\ OneShotAtMostOnce
    BY DEF AttemptsBounded, OneShotAtMostOnce, Ids
  <1> QED
    BY <1>1, <1>2, <1>3, <1>4, <1>5 DEF IInv

\* The parts of IInv that no action of this module's clock can disturb.
LEMMA StutterPreserves == IInv /\ UNCHANGED vars => IInv'
  BY DEF IInv, vars, TypeOK, Ids, NoOverlap, DisposedIsEmpty, TimerCoversSchedule,
         Scheduled, DeliveringIsAdvanced, HoldIsRecorded, NoStrandedHold,
         NoLostFire, ParkedIsInert, MessageIDIsInUse, AttemptsBounded,
         OneShotAtMostOnce, UnbornHasNothing, OneShotHasNoFollowUp

LEMMA AdvancePreserves == IInv /\ Advance => IInv'
  <1> SUFFICES ASSUME IInv, Advance PROVE IInv'
    OBVIOUS
  <1>1. now \in Nat /\ now' = now + 1
    BY DEF IInv, TypeOK, Advance
  <1>2. TimerCoversSchedule'
    <2> SUFFICES ASSUME NEW j \in jobs \ firing, job[j].nextFire # None
                 PROVE  timer # None /\ timer <= Later(job[j].nextFire, now + 1)
      BY <1>1 DEF Advance, TimerCoversSchedule, Scheduled
    <2>1. timer # None /\ timer <= Later(job[j].nextFire, now)
      BY DEF IInv, TimerCoversSchedule, Scheduled
    <2>2. job[j].nextFire \in Nat /\ timer \in Nat
      BY <2>1 DEF IInv, TypeOK, Job, Optional, Instant
    <2> QED
      BY <1>1, <2>1, <2>2 DEF Later
  <1>3. TypeOK'
    BY <1>1 DEF IInv, TypeOK, Advance, Ids
  <1> QED
    BY <1>2, <1>3 DEF IInv, Advance, Ids, NoOverlap, DisposedIsEmpty,
         Scheduled, DeliveringIsAdvanced, HoldIsRecorded, NoStrandedHold,
         NoLostFire, ParkedIsInert, MessageIDIsInUse, AttemptsBounded,
         OneShotAtMostOnce, UnbornHasNothing, OneShotHasNoFollowUp

LEMMA NewJobFacts ==
    ASSUME now \in Nat, NEW s \in Sessions, NEW c \in Crons,
           NEW recurring \in BOOLEAN, NEW jitter \in Nat
    PROVE  /\ NewJob(s, c, recurring, jitter) \in Job
           /\ NewJob(s, c, recurring, jitter).nextFire # None
           /\ NewJob(s, c, recurring, jitter).failure = None
           /\ NewJob(s, c, recurring, jitter).attempts = 0
           /\ ~NewJob(s, c, recurring, jitter).pending
           /\ ~NewJob(s, c, recurring, jitter).messageID
  <1> DEFINE base == [session |-> s, cron |-> c, recurring |-> recurring,
                      jitter |-> jitter, createdAt |-> now,
                      expiresAt |-> IF recurring THEN now + RecurringTTL ELSE None,
                      pending |-> FALSE, nextFire |-> None, messageID |-> FALSE,
                      attempts |-> 0, failure |-> None]
  <1>1. /\ base.cron \in Nat \ {0} /\ base.recurring \in BOOLEAN /\ base.jitter \in Nat
        /\ None \notin Nat
        /\ (IF recurring THEN now + RecurringTTL ELSE None) \in Optional(Instant)
        /\ None \in Optional({"rejected", "ambiguous"})
    BY SchedulerAssumption DEF Optional, Instant
  <1>2. NextFireAfter(base, now) \in Nat
    BY <1>1, NextFireNat
  <1>3. NewJob(s, c, recurring, jitter) = [base EXCEPT !.nextFire = NextFireAfter(base, now)]
    BY DEF NewJob
  <1>4. NextFireAfter(base, now) \in Optional(Instant) /\ NextFireAfter(base, now) # None
    BY <1>1, <1>2 DEF Optional, Instant
  <1> DEFINE fire == NextFireAfter(base, now)
             exp  == IF recurring THEN now + RecurringTTL ELSE None
  <1>5. NewJob(s, c, recurring, jitter) =
            [session |-> s, cron |-> c, recurring |-> recurring,
             jitter |-> jitter, createdAt |-> now, expiresAt |-> exp,
             pending |-> FALSE, nextFire |-> fire, messageID |-> FALSE,
             attempts |-> 0, failure |-> None]
    BY <1>3
  <1> HIDE DEF fire, exp
  <1>6. fire \in Optional(Instant) /\ fire # None /\ exp \in Optional(Instant)
    BY <1>1, <1>4 DEF fire, exp
  <1>7. NewJob(s, c, recurring, jitter) \in Job
    BY <1>1, <1>5, <1>6 DEF Job, Instant
  <1> QED
    BY <1>5, <1>6, <1>7

LEMMA CreatePreserves ==
    ASSUME IInv, NEW s \in Sessions, NEW c \in Crons, NEW recurring \in BOOLEAN,
           NEW jitter \in Nat, Create(s, c, recurring, jitter)
    PROVE  IInv'
  <1> DEFINE id  == seq + 1
             new == NewJob(s, c, recurring, jitter)
  <1>1. /\ now \in Nat /\ seq \in Nat /\ now' = now /\ seq' = id /\ id \in 1..MaxCreated
        /\ id \notin Ids /\ Ids' = Ids \cup {id}
        /\ jobs' = jobs \cup {id} /\ jobs \subseteq Ids /\ firing \subseteq Ids
        /\ job' = [j \in Ids \cup {id} |-> IF j = id THEN new ELSE job[j]]
    <2>1. /\ now \in Nat /\ seq \in 0..MaxCreated /\ now' = now /\ seq' = id
          /\ seq < MaxCreated /\ jobs' = jobs \cup {id}
          /\ jobs \subseteq Ids /\ firing \subseteq Ids
          /\ job' = [j \in 1..id |-> IF j = id THEN new ELSE job[j]]
      BY DEF IInv, TypeOK, Create
    <2>2. MaxCreated \in Nat
      BY SchedulerAssumption
    <2>3. id \notin 1..seq /\ 1..id = (1..seq) \cup {id}
      BY <2>1, <2>2
    <2> HIDE DEF new
    <2> QED
      BY <2>1, <2>2, <2>3 DEF Ids
  <1>2. /\ new \in Job /\ new.nextFire # None /\ new.failure = None
        /\ new.attempts = 0 /\ ~new.pending /\ ~new.messageID
    BY <1>1, NewJobFacts
  <1> HIDE DEF new
  <1>3. /\ \A j \in Ids : job'[j] = job[j]
        /\ job'[id] = new
        /\ \A j \in Ids : job[j] \in Job
    BY <1>1 DEF IInv, TypeOK
  <1>4. /\ UNCHANGED <<firing, runs, idleEpochs, deferredAtEpoch, disposed, landed, heldAt>>
        /\ ~disposed /\ Arm
    BY DEF Create
  <1>5. \A r \in runs : r.job \in Ids /\ r.job # id
    BY <1>1 DEF IInv, TypeOK
  <1>6. job' \in [Ids' -> Job]
    BY <1>1, <1>2, <1>3
  <1>7. (timer \in Optional(Instant))' /\ TimerCoversSchedule'
    <2>1. (\A j \in jobs : job[j].nextFire \in Optional(Instant))'
      BY <1>1, <1>6 DEF Job
    <2>2. disposed' \in BOOLEAN /\ ~disposed'
      BY <1>4 DEF IInv, TypeOK
    <2> QED
      BY <1>1, <1>4, <2>1, <2>2, ArmFacts
  <1>8. TypeOK'
    BY <1>1, <1>4, <1>5, <1>6, <1>7 DEF IInv, TypeOK
  <1>9. NoOverlap' /\ DisposedIsEmpty' /\ UnbornHasNothing'
    BY <1>1, <1>4 DEF IInv, NoOverlap, DisposedIsEmpty, UnbornHasNothing
  <1>10. DeliveringIsAdvanced' /\ HoldIsRecorded' /\ NoStrandedHold'
    BY <1>1, <1>2, <1>3, <1>4, <1>5
       DEF IInv, DeliveringIsAdvanced, HoldIsRecorded, NoStrandedHold
  <1>15. OneShotHasNoFollowUp'
    BY <1>3, <1>4, <1>5 DEF IInv, OneShotHasNoFollowUp
  <1>11. NoLostFire' /\ MessageIDIsInUse'
    BY <1>1, <1>2, <1>3, <1>4, <1>5 DEF IInv, NoLostFire, MessageIDIsInUse, Scheduled
  <1>12. ParkedIsInert'
    BY <1>1, <1>2, <1>3, <1>4, <1>5 DEF IInv, ParkedIsInert, Scheduled
  <1>13. AttemptsBounded'
    BY <1>1, <1>2, <1>3, SchedulerAssumption DEF IInv, AttemptsBounded
  <1>14. OneShotAtMostOnce'
    <2> SUFFICES ASSUME NEW j \in Ids', ~job'[j].recurring, landed'[j] > 0
                 PROVE  /\ landed'[j] = 1
                        /\ j \in jobs' => job'[j].failure # None
                        /\ \A r \in runs' : r.job = j => r.phase = "done"
      BY DEF OneShotAtMostOnce
    <2>1. CASE j \in Ids
      BY <1>1, <1>3, <1>4, <2>1 DEF IInv, OneShotAtMostOnce
    <2>2. CASE j = id
      BY <1>1, <1>4, <2>2 DEF IInv, UnbornHasNothing
    <2> QED
      BY <1>1, <2>1, <2>2
  <1> QED
    BY <1>7, <1>8, <1>9, <1>10, <1>11, <1>12, <1>13, <1>14, <1>15 DEF IInv

\* What Remove, DropSession and Dispose have in common: jobs leave the store,
\* their objects and runs stay, and the epochs of the sessions that still own
\* jobs are kept.
LEMMA LeavingPreserves ==
    ASSUME IInv,
           jobs' \subseteq jobs,
           UNCHANGED <<now, seq, job, firing, runs, landed, heldAt>>,
           disposed' \in BOOLEAN, disposed' => jobs' = {},
           idleEpochs' \in [Sessions -> Nat],
           \A j \in jobs' : idleEpochs'[job[j].session] = idleEpochs[job[j].session],
           deferredAtEpoch' \in [1..MaxCreated -> Optional(Nat)],
           \A j \in jobs' : deferredAtEpoch'[j] = deferredAtEpoch[j],
           Arm \/ (jobs' = {} /\ timer' = None)
    PROVE  IInv'
  <1>1. job' \in [Ids' -> Job] /\ Ids' = Ids /\ jobs' \subseteq Ids
    BY DEF IInv, TypeOK, Ids
  <1>2. (timer \in Optional(Instant))' /\ TimerCoversSchedule'
    <2>1. CASE Arm
      <3>1. (\A j \in jobs : job[j].nextFire \in Optional(Instant))'
        BY <1>1 DEF Job
      <3>2. now' \in Nat /\ now' = now
        BY DEF IInv, TypeOK
      <3> QED
        BY <2>1, <3>1, <3>2, ArmFacts
    <2>2. CASE jobs' = {} /\ timer' = None
      BY <2>2 DEF TimerCoversSchedule, Optional
    <2> QED
      BY <2>1, <2>2
  <1>3. TypeOK'
    BY <1>1, <1>2 DEF IInv, TypeOK
  <1>4. NoOverlap' /\ DisposedIsEmpty' /\ UnbornHasNothing'
    BY DEF IInv, NoOverlap, DisposedIsEmpty, UnbornHasNothing
  <1>5. /\ DeliveringIsAdvanced' /\ OneShotHasNoFollowUp' /\ HoldIsRecorded'
        /\ NoStrandedHold'
    BY DEF IInv, DeliveringIsAdvanced, OneShotHasNoFollowUp, HoldIsRecorded, NoStrandedHold
  <1>6. NoLostFire' /\ ParkedIsInert' /\ MessageIDIsInUse'
    BY DEF IInv, NoLostFire, ParkedIsInert, MessageIDIsInUse, Scheduled
  <1>7. AttemptsBounded' /\ OneShotAtMostOnce'
    BY <1>1 DEF IInv, AttemptsBounded, OneShotAtMostOnce
  <1> QED
    BY <1>2, <1>3, <1>4, <1>5, <1>6, <1>7 DEF IInv

LEMMA RemovePreserves ==
    ASSUME IInv, NEW j \in jobs, Remove(j)
    PROVE  IInv'
  <1>1. /\ jobs' \subseteq jobs /\ Arm
        /\ UNCHANGED <<now, seq, job, firing, runs, landed, heldAt>>
        /\ disposed' \in BOOLEAN /\ (disposed' => jobs' = {})
    BY DEF Remove, IInv, TypeOK, DisposedIsEmpty
  <1>2. /\ idleEpochs' \in [Sessions -> Nat]
        /\ \A k \in jobs' : idleEpochs'[job[k].session] = idleEpochs[job[k].session]
    <2>1. CASE OwnedBy(job[j].session) = {j}
      <3>1. idleEpochs' = [idleEpochs EXCEPT ![job[j].session] = 0]
        BY <2>1 DEF Remove
      <3>2. \A k \in jobs' : job[k].session # job[j].session
        BY <2>1 DEF Remove, OwnedBy
      <3>3. \A k \in jobs' : job[k].session \in Sessions
        BY DEF Remove, IInv, TypeOK, Job
      <3> QED
        BY <3>1, <3>2, <3>3 DEF IInv, TypeOK
    <2>2. CASE OwnedBy(job[j].session) # {j}
      BY <2>2 DEF Remove, IInv, TypeOK
    <2> QED
      BY <2>1, <2>2
  <1>3. /\ deferredAtEpoch' \in [1..MaxCreated -> Optional(Nat)]
        /\ \A k \in jobs' : deferredAtEpoch'[k] = deferredAtEpoch[k]
    <2>1. \A k \in jobs' : k \in 1..MaxCreated /\ k # j
      BY IdsInRange DEF Remove, IInv
    <2> QED
      BY <2>1 DEF Remove, IInv, TypeOK, Optional
  <1> QED
    BY <1>1, <1>2, <1>3, LeavingPreserves

LEMMA DropSessionPreserves ==
    ASSUME IInv, NEW s \in Sessions, DropSession(s)
    PROVE  IInv'
  <1>1. /\ jobs' \subseteq jobs /\ Arm
        /\ UNCHANGED <<now, seq, job, firing, runs, landed, heldAt>>
        /\ disposed' \in BOOLEAN /\ (disposed' => jobs' = {})
    BY DEF DropSession, IInv, TypeOK, DisposedIsEmpty
  <1>2. /\ idleEpochs' \in [Sessions -> Nat]
        /\ \A k \in jobs' : idleEpochs'[job[k].session] = idleEpochs[job[k].session]
    <2>1. \A k \in jobs' : job[k].session # s /\ job[k].session \in Sessions
      BY DEF DropSession, OwnedBy, IInv, TypeOK, Job
    <2> QED
      BY <2>1 DEF DropSession, IInv, TypeOK
  <1>3. /\ deferredAtEpoch' \in [1..MaxCreated -> Optional(Nat)]
        /\ \A k \in jobs' : deferredAtEpoch'[k] = deferredAtEpoch[k]
    <2>1. jobs' \subseteq 1..MaxCreated /\ \A k \in jobs' : k \notin OwnedBy(s)
      BY IdsInRange DEF DropSession, IInv
    <2> QED
      BY <2>1 DEF DropSession, IInv, TypeOK, Optional
  <1> QED
    BY <1>1, <1>2, <1>3, LeavingPreserves

LEMMA DisposePreserves ==
    ASSUME IInv, Dispose
    PROVE  IInv'
  <1>1. /\ jobs' = {} /\ timer' = None /\ disposed' \in BOOLEAN
        /\ UNCHANGED <<now, seq, job, firing, runs, landed, heldAt>>
        /\ idleEpochs' \in [Sessions -> Nat]
        /\ deferredAtEpoch' \in [1..MaxCreated -> Optional(Nat)]
    BY DEF Dispose, IInv, TypeOK, Optional
  <1> QED
    BY <1>1, LeavingPreserves

LEMMA TimerFiresPreserves ==
    ASSUME IInv, TimerFires
    PROVE  IInv'
  <1>1. /\ UNCHANGED <<now, seq, job, jobs, idleEpochs, deferredAtEpoch, disposed,
                       landed, heldAt>>
        /\ firing' = firing \cup Due
        /\ runs' = runs \cup {ProbeRun(j) : j \in Due}
        /\ Arm
        /\ Ids' = Ids
    BY DEF TimerFires, Ids
  <1>2. /\ Due \subseteq jobs /\ Due \cap firing = {}
        /\ \A j \in Due : job[j].nextFire # None /\ job[j].failure = None
    BY DEF Due, Scheduled, IInv, ParkedIsInert
  <1>3. \A j \in Due : /\ ProbeRun(j).job = j
                      /\ ProbeRun(j).phase = "probe"
                      /\ ProbeRun(j).followUp = None
    BY DEF ProbeRun
  <1>4. \A j \in Due : ProbeRun(j) \in Run
    <2> SUFFICES ASSUME NEW j \in Due PROVE ProbeRun(j) \in Run
      OBVIOUS
    <2> DEFINE leader == CHOOSE k \in Due :
                            /\ job[k].session = job[j].session
                            /\ \A m \in Due : job[m].session = job[j].session => k <= m
               peers == {k \in Due : job[k].session = job[j].session}
    <2>1. Due \subseteq Nat /\ job[j].session \in Sessions
      BY <1>2, IdsInRange DEF IInv
    <2>2. \E k \in peers : \A m \in peers : k <= m
      <3>1. peers \in SUBSET Nat /\ peers # {}
        BY <2>1
      <3> HIDE DEF peers
      <3> QED
        BY <3>1, SmallestOf
    <2>3. leader \in Nat
      BY <2>1, <2>2
    <2>4. idleEpochs[job[j].session] \in Nat /\ j \in Nat
      BY <2>1 DEF IInv, TypeOK
    <2>5. ProbeRun(j) = [job |-> j, phase |-> "probe", check |-> leader,
                         epoch |-> idleEpochs[job[j].session], followUp |-> None]
      BY DEF ProbeRun
    <2> HIDE DEF leader
    <2> QED
      BY <2>3, <2>4, <2>5 DEF Run, Optional
  <1>5. (timer \in Optional(Instant))' /\ TimerCoversSchedule'
    <2>1. (\A j \in jobs : job[j].nextFire \in Optional(Instant))'
      BY <1>1 DEF IInv, TypeOK, Job
    <2>2. /\ now' \in Nat /\ now' = now /\ (disposed \in BOOLEAN)'
          /\ (disposed => jobs = {})'
      BY <1>1 DEF IInv, TypeOK, DisposedIsEmpty
    <2> QED
      BY <1>1, <2>1, <2>2, ArmFacts
  <1>6. TypeOK'
    BY <1>1, <1>2, <1>3, <1>4, <1>5 DEF IInv, TypeOK
  <1>7. NoOverlap' /\ DisposedIsEmpty' /\ UnbornHasNothing'
    BY <1>1, <1>2, <1>3 DEF IInv, NoOverlap, DisposedIsEmpty, UnbornHasNothing
  <1>8. DeliveringIsAdvanced' /\ HoldIsRecorded' /\ NoStrandedHold'
    BY <1>1, <1>2, <1>3
       DEF IInv, DeliveringIsAdvanced, Delivering, HoldIsRecorded, NoStrandedHold
  <1>14. OneShotHasNoFollowUp'
    BY <1>1, <1>3 DEF IInv, OneShotHasNoFollowUp
  <1>9. NoLostFire'
    BY <1>1, <1>2, <1>3 DEF IInv, NoLostFire, Scheduled
  <1>10. ParkedIsInert'
    BY <1>1, <1>2, <1>3 DEF IInv, ParkedIsInert, Scheduled
  <1>11. MessageIDIsInUse'
    BY <1>1 DEF IInv, MessageIDIsInUse
  <1>12. AttemptsBounded'
    BY <1>1 DEF IInv, AttemptsBounded
  <1>13. OneShotAtMostOnce'
    BY <1>1, <1>2, <1>3 DEF IInv, OneShotAtMostOnce
  <1> QED
    BY <1>5, <1>6, <1>7, <1>8, <1>9, <1>10, <1>11, <1>12, <1>13, <1>14 DEF IInv

\* The run a step is about owns its job's reservation and is its only run.
LEMMA RunFacts ==
    ASSUME IInv, NEW r \in runs
    PROVE  /\ r \in Run /\ r.job \in Ids /\ r.job \in firing
           /\ r.job \in 1..MaxCreated /\ r.job \in Nat
           /\ job[r.job] \in Job
           /\ \A q \in runs : q.job = r.job => q = r
  BY IdsInRange DEF IInv, TypeOK, NoOverlap

LEMMA ProbeAnswersPreserves ==
    ASSUME IInv, NEW c \in Nat, NEW idle \in BOOLEAN, ProbeAnswers(c, idle)
    PROVE  IInv'
  <1> DEFINE P       == Sharing(c)
             resumed == {r.job : r \in P} \cap jobs
  <1>1. /\ UNCHANGED <<now, seq, jobs, firing, idleEpochs, timer, landed>>
        /\ disposed' = disposed
        /\ runs' = (runs \ P) \cup {AfterProbe(r, idle) : r \in P}
        /\ job' = [j \in Ids |-> IF j \notin resumed THEN job[j]
                                 ELSE IF idle THEN Advanced(job[j]) ELSE Held(job[j])]
        /\ Ids' = Ids
    BY DEF ProbeAnswers, Ids
  <1>2. \A r \in P : r \in runs /\ r.phase = "probe"
    BY DEF Sharing
  <1>3. now \in Nat /\ (\A j \in Ids : job[j] \in Job) /\ jobs \subseteq Ids
    BY DEF IInv, TypeOK
  <1>4. /\ resumed \subseteq jobs /\ resumed \subseteq firing
        /\ \A r \in runs \ P : r.job \notin resumed
        /\ \A j \in resumed : job[j].failure = None /\ ~job[j].messageID
    <2>1. \A r \in P : r.job \in firing /\ \A q \in runs : q.job = r.job => q = r
      BY <1>2, RunFacts
    <2>2. \A j \in resumed : job[j].failure = None
      BY <1>2 DEF IInv, ParkedIsInert
    <2>3. \A j \in resumed : ~job[j].messageID
      BY <1>2, <2>1, <2>2 DEF IInv, MessageIDIsInUse
    <2> QED
      BY <2>1, <2>2, <2>3
  <1>5. \A r \in P : /\ AfterProbe(r, idle) \in Run
                    /\ AfterProbe(r, idle).job = r.job
                    /\ IF idle /\ r.job \in jobs
                       THEN /\ AfterProbe(r, idle).phase = "deliver"
                            /\ AfterProbe(r, idle).followUp = FollowUp(job[r.job])
                       ELSE /\ AfterProbe(r, idle).phase = "done"
                            /\ AfterProbe(r, idle).followUp = r.followUp
    <2> SUFFICES ASSUME NEW r \in P
                 PROVE  /\ AfterProbe(r, idle) \in Run
                        /\ AfterProbe(r, idle).job = r.job
                        /\ IF idle /\ r.job \in jobs
                           THEN /\ AfterProbe(r, idle).phase = "deliver"
                                /\ AfterProbe(r, idle).followUp = FollowUp(job[r.job])
                           ELSE /\ AfterProbe(r, idle).phase = "done"
                                /\ AfterProbe(r, idle).followUp = r.followUp
      OBVIOUS
    <2>1. r \in Run /\ r.job \in Nat /\ job[r.job] \in Job
      BY <1>2, RunFacts
    <2>2. CASE idle /\ r.job \in jobs
      <3>1. AfterProbe(r, idle) = DeliveryRun(r.job, job[r.job], idleEpochs[job[r.job].session])
        BY <2>2 DEF AfterProbe
      <3>2. idleEpochs[job[r.job].session] \in Nat
        BY <2>1 DEF IInv, TypeOK, Job
      <3> DEFINE run == DeliveryRun(r.job, job[r.job], idleEpochs[job[r.job].session])
      <3>3. /\ run \in Run /\ run.job = r.job /\ run.phase = "deliver"
            /\ run.followUp = FollowUp(job[r.job])
        BY <1>3, <2>1, <3>2, DeliveryRunFacts
      <3> QED
        BY <2>2, <3>1, <3>3
    <2>3. CASE ~(idle /\ r.job \in jobs)
      BY <2>1, <2>3 DEF AfterProbe, Run
    <2> QED
      BY <2>2, <2>3
  <1>6. \A j \in resumed :
           /\ job'[j] \in Job
           /\ job'[j].failure = None /\ ~job'[j].messageID
           /\ job'[j].attempts = job[j].attempts
           /\ idle => ~job'[j].pending /\ job'[j].nextFire = FollowUp(job[j])
           /\ ~idle => job'[j].pending
    BY <1>1, <1>3, <1>4, AdvancedFacts, HeldFacts
  <1>7. \A j \in Ids \ resumed : job'[j] = job[j]
    BY <1>1
  <1>8. /\ deferredAtEpoch' \in [1..MaxCreated -> Optional(Nat)]
        /\ heldAt' \in [1..MaxCreated -> Nat]
        /\ ~idle => \A j \in resumed : deferredAtEpoch'[j] = heldAt'[j]
        /\ \A j \in Ids \ resumed : /\ deferredAtEpoch'[j] = deferredAtEpoch[j]
                                    /\ heldAt'[j] = heldAt[j]
    <2>1. \A j \in resumed : ProbeEpoch(c, j) \in Nat
      <3> SUFFICES ASSUME NEW j \in resumed PROVE ProbeEpoch(c, j) \in Nat
        OBVIOUS
      <3>1. (CHOOSE r \in Sharing(c) : r.job = j) \in Sharing(c)
        OBVIOUS
      <3> QED
        BY <1>2, <3>1, RunFacts DEF ProbeEpoch, Run
    <2>2. Ids \subseteq 1..MaxCreated /\ resumed \subseteq 1..MaxCreated
      BY <1>4, IdsInRange DEF IInv
    <2>3. CASE idle
      BY <2>3 DEF ProbeAnswers, IInv, TypeOK
    <2>4. CASE ~idle
      <3>1. /\ deferredAtEpoch' = [j \in 1..MaxCreated |->
                   IF j \in resumed THEN ProbeEpoch(c, j) ELSE deferredAtEpoch[j]]
            /\ heldAt' = [j \in 1..MaxCreated |->
                   IF j \in resumed THEN ProbeEpoch(c, j) ELSE heldAt[j]]
        BY <2>4 DEF ProbeAnswers, IInv, TypeOK
      <3>2. /\ deferredAtEpoch \in [1..MaxCreated -> Optional(Nat)]
            /\ heldAt \in [1..MaxCreated -> Nat]
        BY DEF IInv, TypeOK
      <3> HIDE DEF resumed
      <3> QED
        BY <2>1, <2>2, <2>4, <3>1, <3>2 DEF Optional
    <2> QED
      BY <2>3, <2>4
  <1> HIDE DEF P, resumed
  <1>9. /\ \A r \in P : r.job \in jobs => r.job \in resumed
        /\ \A j \in resumed : \E r \in P : r.job = j
    BY DEF resumed
  <1>10. TypeOK'
    <2>1. job' \in [Ids' -> Job]
      BY <1>1, <1>3, <1>6, <1>7
    <2>2. runs' \subseteq Run /\ \A r \in runs' : r.job \in Ids'
      BY <1>1, <1>2, <1>5, RunFacts
    <2>3. disposed' \in BOOLEAN
      BY <1>1 DEF IInv, TypeOK
    <2> QED
      BY <1>1, <1>8, <2>1, <2>2, <2>3 DEF IInv, TypeOK
  <1>11. NoOverlap' /\ DisposedIsEmpty' /\ UnbornHasNothing'
    BY <1>1, <1>2, <1>5 DEF IInv, NoOverlap, DisposedIsEmpty, UnbornHasNothing
  <1>12. TimerCoversSchedule' /\ NoStrandedHold'
    BY <1>1, <1>3, <1>4, <1>7, <1>8
       DEF IInv, TimerCoversSchedule, Scheduled, NoStrandedHold
  <1>13. DeliveringIsAdvanced' /\ HoldIsRecorded'
    <2> SUFFICES ASSUME NEW r \in runs', r.job \in jobs'
                 PROVE  /\ r.phase \in Delivering =>
                             ~job'[r.job].pending /\ job'[r.job].nextFire = r.followUp
                        /\ r.phase = "done" /\ job'[r.job].pending =>
                             deferredAtEpoch'[r.job] = heldAt'[r.job]
      BY DEF DeliveringIsAdvanced, HoldIsRecorded
    <2>1. CASE r \in runs \ P
      <3>1. r.job \in jobs /\ r.job \in Ids \ resumed
        BY <1>1, <1>3, <1>4, <2>1
      <3> QED
        BY <1>7, <1>8, <2>1, <3>1 DEF IInv, DeliveringIsAdvanced, HoldIsRecorded
    <2>2. CASE \E q \in P : r = AfterProbe(q, idle)
      <3>1. PICK q \in P : r = AfterProbe(q, idle)
        BY <2>2
      <3>2. q.job = r.job /\ q.job \in resumed
        BY <1>1, <1>5, <1>9, <3>1
      <3>3. CASE idle
        <4>1. r.phase = "deliver" /\ r.followUp = FollowUp(job[q.job])
          BY <1>1, <1>5, <3>1, <3>2, <3>3
        <4> QED
          BY <1>6, <3>2, <3>3, <4>1
      <3>4. CASE ~idle
        <4>1. r.phase = "done"
          BY <1>5, <3>1, <3>4
        <4> QED
          BY <1>8, <3>2, <3>4, <4>1 DEF Delivering
      <3> QED
        BY <3>3, <3>4
    <2> QED
      BY <1>1, <2>1, <2>2
  <1>14. NoLostFire'
    <2> SUFFICES ASSUME NEW j \in jobs',
                        \A r \in runs' : r.job = j => r.phase = "done"
                 PROVE  job'[j].nextFire # None \/ job'[j].pending \/ job'[j].failure # None
      BY DEF NoLostFire, Scheduled
    <2>1. CASE j \in resumed
      <3>1. PICK r \in P : r.job = j
        BY <1>9, <2>1
      <3>2. AfterProbe(r, idle).phase = "done" /\ r.job \in jobs
        BY <1>1, <1>5, <3>1
      <3>3. ~idle
        BY <1>5, <3>2
      <3> QED
        BY <1>6, <2>1, <3>3
    <2>2. CASE j \notin resumed
      <3>1. j \in jobs /\ job'[j] = job[j]
        BY <1>1, <1>3, <1>7, <2>2
      <3>2. \A r \in runs : r.job = j => r.phase = "done"
        BY <1>1, <1>9, <2>2, <3>1
      <3> QED
        BY <3>1, <3>2 DEF IInv, NoLostFire, Scheduled
    <2> QED
      BY <2>1, <2>2
  <1>15. ParkedIsInert'
    <2> SUFFICES ASSUME NEW j \in jobs', job'[j].failure # None
                 PROVE  /\ job'[j].nextFire = None /\ ~job'[j].pending
                        /\ \A r \in runs' : r.job = j => r.phase = "done"
      BY DEF ParkedIsInert, Scheduled
    <2>1. j \in jobs /\ j \notin resumed /\ job'[j] = job[j]
      BY <1>1, <1>3, <1>6, <1>7
    <2>2. \A r \in runs' : r.job = j => r \in runs
      BY <1>1, <1>5, <1>9, <2>1
    <2> QED
      BY <2>1, <2>2 DEF IInv, ParkedIsInert, Scheduled
  <1>16. MessageIDIsInUse'
    <2> SUFFICES ASSUME NEW j \in jobs', job'[j].messageID
                 PROVE  \/ job'[j].failure # None
                        \/ \E r \in runs' : r.job = j /\ r.phase = "dispatched"
      BY DEF MessageIDIsInUse
    <2>1. j \in jobs /\ j \notin resumed /\ job'[j] = job[j]
      BY <1>1, <1>3, <1>6, <1>7
    <2>2. \A r \in runs : r.phase = "dispatched" => r \in runs'
      BY <1>1, <1>2
    <2> QED
      BY <2>1, <2>2 DEF IInv, MessageIDIsInUse
  <1>17. AttemptsBounded'
    BY <1>1, <1>3, <1>4, <1>6, <1>7 DEF IInv, AttemptsBounded
  <1>18. OneShotAtMostOnce'
    <2>1. \A j \in resumed : job'[j].recurring <=> job[j].recurring
      BY <1>1, <1>3, <1>4, AdvancedFacts, HeldFacts
    <2> SUFFICES ASSUME NEW j \in Ids, ~job'[j].recurring, landed[j] > 0
                 PROVE  /\ landed[j] = 1
                        /\ j \in jobs => job'[j].failure # None
                        /\ \A r \in runs' : r.job = j => r.phase = "done"
      BY <1>1 DEF OneShotAtMostOnce
    <2>2. /\ landed[j] = 1
          /\ j \in jobs => job[j].failure # None
          /\ \A r \in runs : r.job = j => r.phase = "done"
      BY <1>7, <2>1 DEF IInv, OneShotAtMostOnce
    <2>3. j \notin resumed /\ job'[j] = job[j] /\ \A r \in P : r.job # j
      BY <1>2, <1>7, <1>9, <2>2
    <2> QED
      BY <1>1, <1>5, <2>2, <2>3
  <1>19. OneShotHasNoFollowUp'
    <2>1. \A j \in Ids : job'[j].recurring <=> job[j].recurring
      BY <1>1, <1>3, <1>7, AdvancedFacts, HeldFacts
    <2>2. \A j \in Ids : ~job[j].recurring => FollowUp(job[j]) = None
      BY <1>3, AdvancedFacts
    <2>3. \A r \in runs : r.job \in Ids
      BY RunFacts
    <2> SUFFICES ASSUME NEW r \in runs', ~job'[r.job].recurring
                 PROVE  r.followUp = None
      BY DEF OneShotHasNoFollowUp
    <2>4. CASE r \in runs \ P
      BY <2>1, <2>3, <2>4 DEF IInv, OneShotHasNoFollowUp
    <2>5. CASE \E q \in P : r = AfterProbe(q, idle)
      <3>1. PICK q \in P : r = AfterProbe(q, idle)
        BY <2>5
      <3>2. q \in runs /\ q.job = r.job /\ q.job \in Ids /\ ~job[q.job].recurring
        BY <1>2, <1>5, <2>1, <2>3, <3>1
      <3>3. q.followUp = None
        BY <3>2 DEF IInv, OneShotHasNoFollowUp
      <3> QED
        BY <1>5, <2>2, <3>1, <3>2, <3>3
    <2> QED
      BY <1>1, <2>4, <2>5
  <1> QED
    BY <1>19, <1>10, <1>11, <1>12, <1>13, <1>14, <1>15, <1>16, <1>17, <1>18 DEF IInv

\* A run that only moves on to a later phase disturbs nothing that IInv says
\* of the other runs.
LEMMA BeginAttemptPreserves ==
    ASSUME IInv, NEW r \in runs, BeginAttempt(r)
    PROVE  IInv'
  <1>1. /\ UNCHANGED <<now, seq, jobs, firing, idleEpochs, deferredAtEpoch, timer,
                       landed, heldAt>>
        /\ disposed' = disposed /\ r.phase = "deliver" /\ Ids' = Ids
    BY DEF BeginAttempt, Ids
  <1>2. /\ r \in Run /\ r.job \in Ids /\ r.job \in firing /\ job[r.job] \in Job
        /\ \A q \in runs : q.job = r.job => q = r
    BY RunFacts
  <1>3. PICK new \in Run :
           /\ runs' = (runs \ {r}) \cup {new}
           /\ new.job = r.job /\ new.followUp = r.followUp
           /\ \/ new.phase = "refused" /\ job' = job /\ r.job \notin jobs
              \/ new.phase = "dispatched" /\ job' = [job EXCEPT ![r.job].messageID = TRUE]
    <2>1. CASE disposed \/ r.job \notin jobs
      <3>1. r.job \notin jobs
        BY <2>1 DEF IInv, DisposedIsEmpty
      <3>2. [r EXCEPT !.phase = "refused"] \in Run
        BY <1>2 DEF Run
      <3> QED
        BY <1>2, <2>1, <3>1, <3>2 DEF BeginAttempt, Run
    <2>2. CASE ~(disposed \/ r.job \notin jobs)
      <3>1. [r EXCEPT !.phase = "dispatched"] \in Run
        BY <1>2 DEF Run
      <3> QED
        BY <1>2, <2>2, <3>1 DEF BeginAttempt, Run
    <2> QED
      BY <2>1, <2>2
  <1>4. /\ job \in [Ids -> Job] /\ jobs \subseteq Ids
        /\ ~(r.job \in jobs /\ job[r.job].failure # None)
    BY <1>1 DEF IInv, TypeOK, ParkedIsInert
  <1>5. /\ job' \in [Ids' -> Job]
        /\ \A j \in Ids : /\ job'[j].session = job[j].session
                          /\ job'[j].nextFire = job[j].nextFire
                          /\ job'[j].attempts = job[j].attempts
                          /\ job'[j].failure = job[j].failure
                          /\ job'[j].pending <=> job[j].pending
                          /\ job'[j].recurring <=> job[j].recurring
                          /\ j # r.job => job'[j] = job[j]
    <2>1. CASE job' = job
      BY <1>1, <1>4, <2>1
    <2>2. CASE job' = [job EXCEPT ![r.job].messageID = TRUE]
      <3> DEFINE jr == [job[r.job] EXCEPT !.messageID = TRUE]
      <3>1. job' = [job EXCEPT ![r.job] = jr]
        BY <2>2
      <3>2. jr \in Job
        BY <1>2 DEF Job
      <3>3. /\ jr.session = job[r.job].session /\ jr.nextFire = job[r.job].nextFire
            /\ jr.attempts = job[r.job].attempts /\ jr.failure = job[r.job].failure
            /\ (jr.pending <=> job[r.job].pending)
            /\ (jr.recurring <=> job[r.job].recurring)
        BY <1>2 DEF Job
      <3> HIDE DEF jr
      <3>4. job' \in [Ids' -> Job]
        BY <1>1, <1>2, <1>4, <3>1, <3>2
      <3>5. job'[r.job] = jr /\ \A j \in Ids : j # r.job => job'[j] = job[j]
        BY <1>2, <1>4, <3>1
      <3> QED
        BY <3>3, <3>4, <3>5
    <2> QED
      BY <1>3, <2>1, <2>2
  <1>6. TypeOK'
    <2>1. disposed' \in BOOLEAN
      BY <1>1 DEF IInv, TypeOK
    <2>2. runs' \subseteq Run /\ \A q \in runs' : q.job \in Ids'
      BY <1>1, <1>2, <1>3, RunFacts
    <2> QED
      BY <1>1, <1>5, <2>1, <2>2 DEF IInv, TypeOK
  <1>7. NoOverlap' /\ DisposedIsEmpty' /\ UnbornHasNothing'
    BY <1>1, <1>2, <1>3 DEF IInv, NoOverlap, DisposedIsEmpty, UnbornHasNothing
  <1>8. TimerCoversSchedule' /\ NoStrandedHold'
    BY <1>1, <1>4, <1>5 DEF IInv, TimerCoversSchedule, Scheduled, NoStrandedHold
  <1>9. DeliveringIsAdvanced' /\ HoldIsRecorded'
    BY <1>1, <1>2, <1>3, <1>4, <1>5
       DEF IInv, DeliveringIsAdvanced, Delivering, HoldIsRecorded
  <1>15. OneShotHasNoFollowUp'
    BY <1>2, <1>3, <1>5, RunFacts DEF IInv, OneShotHasNoFollowUp
  <1>10. NoLostFire'
    <2> SUFFICES ASSUME NEW j \in jobs,
                        \A q \in runs' : q.job = j => q.phase = "done"
                 PROVE  job'[j].nextFire # None \/ job'[j].pending \/ job'[j].failure # None
      BY <1>1 DEF NoLostFire, Scheduled
    <2>1. j # r.job
      BY <1>3
    <2>2. \A q \in runs : q.job = j => q.phase = "done"
      BY <1>3, <2>1
    <2> QED
      BY <1>4, <1>5, <2>2 DEF IInv, NoLostFire, Scheduled
  <1>11. ParkedIsInert'
    BY <1>1, <1>3, <1>4, <1>5 DEF IInv, ParkedIsInert, Scheduled
  <1>12. MessageIDIsInUse'
    <2> SUFFICES ASSUME NEW j \in jobs, job'[j].messageID
                 PROVE  \/ job'[j].failure # None
                        \/ \E q \in runs' : q.job = j /\ q.phase = "dispatched"
      BY <1>1 DEF MessageIDIsInUse
    <2>1. CASE j = r.job
      BY <1>3, <2>1
    <2>2. CASE j # r.job
      BY <1>2, <1>3, <1>4, <1>5, <2>2 DEF IInv, MessageIDIsInUse
    <2> QED
      BY <2>1, <2>2
  <1>13. AttemptsBounded'
    BY <1>1, <1>4, <1>5 DEF IInv, AttemptsBounded
  <1>14. OneShotAtMostOnce'
    BY <1>1, <1>2, <1>3, <1>4, <1>5 DEF IInv, OneShotAtMostOnce
  <1> QED
    BY <1>6, <1>7, <1>8, <1>9, <1>10, <1>11, <1>12, <1>13, <1>14, <1>15 DEF IInv

LEMMA DeliverReturnsPreserves ==
    ASSUME IInv, NEW r \in runs,
           NEW o \in {"delivered", "deferred", "rejected", "unknown"},
           NEW accepted \in 0..1, DeliverReturns(r, o, accepted)
    PROVE  IInv'
  <1> DEFINE new   == [r EXCEPT !.phase = "done"]
             after == AfterDelivery(r, job[r.job], o)
  <1>1. /\ UNCHANGED <<now, seq, firing, idleEpochs, timer>>
        /\ disposed' = disposed /\ Ids' = Ids
        /\ runs' = (runs \ {r}) \cup {new}
        /\ landed' = [landed EXCEPT ![r.job] = @ + accepted]
        /\ <<o, accepted>> \in Outcomes(r.phase)
    BY DEF DeliverReturns, Ids
  <1>2. /\ r \in Run /\ r.job \in Ids /\ r.job \in firing /\ job[r.job] \in Job
        /\ \A q \in runs : q.job = r.job => q = r
        /\ r.job \in 1..MaxCreated
    BY RunFacts
  <1>3. /\ new \in Run /\ new.job = r.job /\ new.phase = "done"
        /\ new.followUp = r.followUp
    BY <1>2 DEF Run
  <1>4. /\ r.phase \in Delivering
        /\ accepted = 1 => o \in {"delivered", "unknown"}
        /\ o = "delivered" => accepted = 1
    BY <1>1 DEF Outcomes, Delivering
  <1>5. /\ job \in [Ids -> Job] /\ jobs \subseteq Ids /\ jobs' \subseteq jobs
        /\ now \in Nat
    BY DEF DeliverReturns, IInv, TypeOK
  <1> HIDE DEF new
  <1>6. CASE r.job \notin jobs
    <2>1. UNCHANGED <<job, jobs, deferredAtEpoch, heldAt>>
      BY <1>6 DEF DeliverReturns
    <2>2. TypeOK'
      <3>1. disposed' \in BOOLEAN
        BY <1>1 DEF IInv, TypeOK
      <3>2. runs' \subseteq Run /\ \A q \in runs' : q.job \in Ids'
        BY <1>1, <1>2, <1>3, RunFacts
      <3>3. landed' \in [1..MaxCreated -> Nat]
        BY <1>1, <1>2 DEF IInv, TypeOK
      <3> QED
        BY <1>1, <2>1, <3>1, <3>2, <3>3 DEF IInv, TypeOK
    <2>3. NoOverlap' /\ DisposedIsEmpty' /\ UnbornHasNothing'
      <3>1. \A j \in 1..MaxCreated : j > seq => j # r.job
        BY <1>2 DEF Ids, IInv, TypeOK
      <3> QED
        BY <1>1, <1>2, <1>3, <2>1, <3>1
           DEF IInv, TypeOK, NoOverlap, DisposedIsEmpty, UnbornHasNothing
    <2>4. TimerCoversSchedule' /\ NoStrandedHold'
      BY <1>1, <2>1 DEF IInv, TimerCoversSchedule, Scheduled, NoStrandedHold
    <2>5. DeliveringIsAdvanced' /\ HoldIsRecorded'
      BY <1>1, <1>3, <1>6, <2>1 DEF IInv, DeliveringIsAdvanced, HoldIsRecorded
    <2>10. OneShotHasNoFollowUp'
      BY <1>1, <1>3, <2>1 DEF IInv, OneShotHasNoFollowUp
    <2>6. NoLostFire'
      BY <1>1, <1>2, <1>6, <2>1 DEF IInv, NoLostFire, Scheduled
    <2>7. ParkedIsInert' /\ MessageIDIsInUse'
      BY <1>1, <1>2, <1>3, <1>6, <2>1 DEF IInv, ParkedIsInert, MessageIDIsInUse, Scheduled
    <2>8. AttemptsBounded'
      BY <1>1, <2>1 DEF IInv, AttemptsBounded
    <2>9. OneShotAtMostOnce'
      <3> SUFFICES ASSUME NEW j \in Ids, ~job[j].recurring, landed'[j] > 0
                   PROVE  /\ landed'[j] = 1
                          /\ j \in jobs => job[j].failure # None
                          /\ \A q \in runs' : q.job = j => q.phase = "done"
        BY <1>1, <2>1 DEF OneShotAtMostOnce
      <3>1. CASE j # r.job
        <4>1. landed'[j] = landed[j]
          BY <1>1, <3>1 DEF IInv, TypeOK
        <4> QED
          BY <1>1, <1>3, <3>1, <4>1 DEF IInv, OneShotAtMostOnce
      <3>2. CASE j = r.job
        <4>1. landed[j] \in Nat /\ ~(landed[j] > 0)
          BY <1>2, <1>4, <3>2 DEF IInv, TypeOK, OneShotAtMostOnce, Delivering
        <4>2. landed'[j] = 1
          BY <1>1, <1>2, <3>2, <4>1 DEF IInv, TypeOK
        <4> QED
          BY <1>1, <1>2, <1>3, <1>6, <3>2, <4>2
      <3> QED
        BY <3>1, <3>2
    <2> QED
      BY <2>2, <2>3, <2>4, <2>5, <2>6, <2>7, <2>8, <2>9, <2>10 DEF IInv
  <1>7. CASE r.job \in jobs
    <2>1. /\ job' = [job EXCEPT ![r.job] = after]
          /\ jobs' = IF o = "delivered" /\ r.followUp = None THEN jobs \ {r.job} ELSE jobs
          /\ deferredAtEpoch' = IF o = "deferred"
                                THEN [deferredAtEpoch EXCEPT ![r.job] = r.epoch]
                                ELSE deferredAtEpoch
          /\ heldAt' = IF o = "deferred" THEN [heldAt EXCEPT ![r.job] = r.epoch]
                                         ELSE heldAt
      BY <1>7 DEF DeliverReturns
    <2>2. /\ job[r.job].failure = None /\ ~job[r.job].pending
          /\ job[r.job].nextFire = r.followUp
          /\ job[r.job].attempts < MaxAttempts
      <3>1. job[r.job].failure = None
        BY <1>4, <1>7 DEF IInv, ParkedIsInert, Delivering
      <3>2. ~job[r.job].pending /\ job[r.job].nextFire = r.followUp
        BY <1>4, <1>7 DEF IInv, DeliveringIsAdvanced
      <3>3. /\ job[r.job].attempts <= MaxAttempts /\ job[r.job].attempts # MaxAttempts
            /\ job[r.job].attempts \in Nat /\ MaxAttempts \in Nat
        BY <1>2, <1>7, <3>1, SchedulerAssumption DEF IInv, AttemptsBounded, Job
      <3> QED
        BY <3>1, <3>2, <3>3
    <2> HIDE DEF after
    <2>3. /\ after \in Job
          /\ after.session = job[r.job].session
          /\ (after.recurring <=> job[r.job].recurring)
          /\ after.attempts <= MaxAttempts
          /\ after.attempts = MaxAttempts => after.failure # None
          /\ after.pending <=> o = "deferred"
          /\ after.failure # None => after.nextFire = None
          /\ o = "unknown" => after.failure # None
          /\ after.failure # None => o \in {"rejected", "unknown"}
          /\ \/ o = "delivered" /\ r.followUp = None
             \/ /\ after.failure # None \/ after.nextFire # None \/ after.pending
                /\ after.messageID => after.failure # None
      BY <1>2, <1>5, <2>2, AfterDeliveryFacts DEF after
    <2>4. job'[r.job] = after /\ \A j \in Ids : j # r.job => job'[j] = job[j]
      BY <1>2, <1>5, <2>1
    <2>5. /\ o = "deferred" => deferredAtEpoch'[r.job] = heldAt'[r.job]
          /\ deferredAtEpoch' \in [1..MaxCreated -> Optional(Nat)]
          /\ heldAt' \in [1..MaxCreated -> Nat]
          /\ \A j \in 1..MaxCreated : j # r.job =>
                deferredAtEpoch'[j] = deferredAtEpoch[j] /\ heldAt'[j] = heldAt[j]
      <3>1. r.epoch \in Nat
        BY <1>2 DEF Run
      <3> QED
        BY <1>2, <2>1, <3>1 DEF IInv, TypeOK, Optional
    <2>6. TypeOK'
      <3>1. disposed' \in BOOLEAN
        BY <1>1 DEF IInv, TypeOK
      <3>2. runs' \subseteq Run /\ \A q \in runs' : q.job \in Ids'
        BY <1>1, <1>2, <1>3, RunFacts
      <3>3. landed' \in [1..MaxCreated -> Nat]
        BY <1>1, <1>2 DEF IInv, TypeOK
      <3>4. job' \in [Ids' -> Job] /\ jobs' \subseteq Ids'
        BY <1>1, <1>2, <1>5, <2>1, <2>3
      <3> QED
        BY <1>1, <2>5, <3>1, <3>2, <3>3, <3>4 DEF IInv, TypeOK
    <2>7. NoOverlap' /\ DisposedIsEmpty' /\ UnbornHasNothing'
      <3>1. \A j \in 1..MaxCreated : j > seq => j # r.job
        BY <1>2 DEF Ids, IInv, TypeOK
      <3> QED
        BY <1>1, <1>2, <1>3, <1>5, <3>1
           DEF IInv, TypeOK, NoOverlap, DisposedIsEmpty, UnbornHasNothing
    <2>8. TimerCoversSchedule' /\ NoStrandedHold'
      BY <1>1, <1>2, <1>5, <2>4, <2>5, IdsInRange
         DEF IInv, TimerCoversSchedule, Scheduled, NoStrandedHold
    <2>9. DeliveringIsAdvanced' /\ HoldIsRecorded'
      <3> SUFFICES ASSUME NEW q \in runs', q.job \in jobs'
                   PROVE  /\ q.phase \in Delivering =>
                               ~job'[q.job].pending /\ job'[q.job].nextFire = q.followUp
                          /\ q.phase = "done" /\ job'[q.job].pending =>
                               deferredAtEpoch'[q.job] = heldAt'[q.job]
        BY DEF DeliveringIsAdvanced, HoldIsRecorded
      <3>1. CASE q = new
        BY <1>3, <2>3, <2>4, <2>5, <3>1 DEF Delivering
      <3>2. CASE q \in runs /\ q # r
        <4>1. q.job # r.job /\ q.job \in jobs /\ q.job \in Ids /\ q.job \in 1..MaxCreated
          BY <1>2, <1>5, <3>2, RunFacts
        <4> QED
          BY <2>4, <2>5, <3>2, <4>1 DEF IInv, DeliveringIsAdvanced, HoldIsRecorded
      <3> QED
        BY <1>1, <3>1, <3>2
    <2>15. OneShotHasNoFollowUp'
      BY <1>1, <1>2, <1>3, <2>3, <2>4, RunFacts DEF IInv, OneShotHasNoFollowUp
    <2>10. NoLostFire'
      <3> SUFFICES ASSUME NEW j \in jobs',
                          \A q \in runs' : q.job = j => q.phase = "done"
                   PROVE  job'[j].nextFire # None \/ job'[j].pending \/ job'[j].failure # None
        BY DEF NoLostFire, Scheduled
      <3>1. CASE j = r.job
        BY <2>1, <2>3, <2>4, <3>1
      <3>2. CASE j # r.job
        BY <1>1, <1>5, <2>4, <3>2 DEF IInv, NoLostFire, Scheduled
      <3> QED
        BY <3>1, <3>2
    <2>11. ParkedIsInert'
      <3> SUFFICES ASSUME NEW j \in jobs', job'[j].failure # None
                   PROVE  /\ job'[j].nextFire = None /\ ~job'[j].pending
                          /\ \A q \in runs' : q.job = j => q.phase = "done"
        BY DEF ParkedIsInert, Scheduled
      <3>1. CASE j = r.job
        BY <1>1, <1>2, <1>3, <2>3, <2>4, <3>1
      <3>2. CASE j # r.job
        BY <1>1, <1>3, <1>5, <2>4, <3>2 DEF IInv, ParkedIsInert, Scheduled
      <3> QED
        BY <3>1, <3>2
    <2>12. MessageIDIsInUse'
      <3> SUFFICES ASSUME NEW j \in jobs', job'[j].messageID
                   PROVE  \/ job'[j].failure # None
                          \/ \E q \in runs' : q.job = j /\ q.phase = "dispatched"
        BY DEF MessageIDIsInUse
      <3>1. CASE j = r.job
        BY <2>1, <2>3, <2>4, <3>1
      <3>2. CASE j # r.job
        BY <1>1, <1>5, <2>4, <3>2 DEF IInv, MessageIDIsInUse
      <3> QED
        BY <3>1, <3>2
    <2>13. AttemptsBounded'
      BY <1>1, <1>5, <2>3, <2>4 DEF IInv, AttemptsBounded
    <2>14. OneShotAtMostOnce'
      <3> SUFFICES ASSUME NEW j \in Ids, ~job'[j].recurring, landed'[j] > 0
                   PROVE  /\ landed'[j] = 1
                          /\ j \in jobs' => job'[j].failure # None
                          /\ \A q \in runs' : q.job = j => q.phase = "done"
        BY <1>1 DEF OneShotAtMostOnce
      <3>1. CASE j # r.job
        <4>1. landed'[j] = landed[j] /\ job'[j] = job[j]
          BY <1>1, <2>4, <3>1 DEF IInv, TypeOK
        <4> QED
          BY <1>1, <1>3, <1>5, <3>1, <4>1 DEF IInv, OneShotAtMostOnce
      <3>2. CASE j = r.job
        <4>1. landed[j] \in Nat /\ ~(landed[j] > 0) /\ ~job[j].recurring
          BY <1>2, <1>4, <2>3, <2>4, <3>2 DEF IInv, TypeOK, OneShotAtMostOnce, Delivering
        <4>2. landed'[j] = accepted /\ accepted = 1
          BY <1>1, <1>2, <3>2, <4>1 DEF IInv, TypeOK
        <4>3. r.followUp = None
          BY <3>2, <4>1 DEF IInv, OneShotHasNoFollowUp
        <4>4. j \in jobs' => job'[j].failure # None
          BY <1>4, <2>1, <2>3, <2>4, <3>2, <4>2, <4>3
        <4> QED
          BY <1>1, <1>2, <1>3, <3>2, <4>2, <4>4
      <3> QED
        BY <3>1, <3>2
    <2> QED
      BY <2>6, <2>7, <2>8, <2>9, <2>10, <2>11, <2>12, <2>13, <2>14, <2>15 DEF IInv
  <1> QED
    BY <1>6, <1>7

LEMMA FinishPreserves ==
    ASSUME IInv, NEW r \in runs, Finish(r)
    PROVE  IInv'
  <1> DEFINE id  == r.job
             run == DeliveryRun(id, job[id], idleEpochs[job[id].session])
  <1>1. /\ UNCHANGED <<now, seq, jobs, idleEpochs, landed, heldAt>>
        /\ disposed' = disposed /\ Ids' = Ids /\ Arm /\ r.phase = "done"
        /\ deferredAtEpoch' = [deferredAtEpoch EXCEPT ![id] = None]
    BY DEF Finish, Ids
  <1>2. /\ r \in Run /\ id \in Ids /\ id \in firing /\ job[id] \in Job
        /\ \A q \in runs : q.job = id => q = r
        /\ id \in 1..MaxCreated
    BY RunFacts
  <1>3. /\ job \in [Ids -> Job] /\ jobs \subseteq Ids /\ now \in Nat
        /\ disposed' \in BOOLEAN /\ Ids \subseteq 1..MaxCreated
    BY <1>1, IdsInRange DEF IInv, TypeOK
  <1>4. /\ deferredAtEpoch' \in [1..MaxCreated -> Optional(Nat)]
        /\ \A j \in Ids : j # id => deferredAtEpoch'[j] = deferredAtEpoch[j]
    BY <1>1, <1>2, <1>3 DEF IInv, TypeOK, Optional
  <1>5. CASE Raced(id)
    <2>1. /\ runs' = (runs \ {r}) \cup {run}
          /\ job' = [job EXCEPT ![id] = Advanced(job[id])]
          /\ firing' = firing
          /\ id \in jobs /\ job[id].pending
      BY <1>5 DEF Finish, Raced
    <2>2. /\ run \in Run /\ run.job = id /\ run.phase = "deliver"
          /\ run.followUp = FollowUp(job[id])
      <3>1. idleEpochs[job[id].session] \in Nat /\ id \in Nat
        BY <1>2, RunFacts DEF IInv, TypeOK, Job
      <3> QED
        BY <1>2, <1>3, <3>1, DeliveryRunFacts
    <2> DEFINE jr == Advanced(job[id])
    <2>3. /\ jr \in Job /\ ~jr.pending /\ jr.nextFire = FollowUp(job[id])
          /\ jr.session = job[id].session /\ (jr.recurring <=> job[id].recurring)
          /\ (jr.messageID <=> job[id].messageID)
          /\ jr.attempts = job[id].attempts /\ jr.failure = job[id].failure
          /\ ~job[id].recurring => FollowUp(job[id]) = None
      BY <1>2, <1>3, AdvancedFacts
    <2> HIDE DEF jr, run
    <2>4. /\ job'[id] = jr /\ \A j \in Ids : j # id => job'[j] = job[j]
          /\ job' \in [Ids' -> Job]
      <3>1. job' = [job EXCEPT ![id] = jr]
        BY <2>1 DEF jr
      <3> QED
        BY <1>1, <1>2, <1>3, <2>3, <3>1
    <2>5. job[id].failure = None
      BY <2>1 DEF IInv, ParkedIsInert
    <2>6. (timer \in Optional(Instant))' /\ TimerCoversSchedule'
      <3>1. (\A j \in jobs : job[j].nextFire \in Optional(Instant))'
        BY <1>1, <1>3, <2>4 DEF Job
      <3>2. /\ now' \in Nat /\ now' = now /\ (disposed \in BOOLEAN)'
            /\ (disposed => jobs = {})'
        BY <1>1, <1>3 DEF IInv, DisposedIsEmpty
      <3> QED
        BY <1>1, <3>1, <3>2, ArmFacts
    <2>7. TypeOK'
      <3>1. runs' \subseteq Run /\ \A q \in runs' : q.job \in Ids'
        BY <1>1, <1>2, <2>1, <2>2, RunFacts
      <3> QED
        BY <1>1, <1>3, <1>4, <2>1, <2>4, <2>6, <3>1 DEF IInv, TypeOK
    <2>8. NoOverlap' /\ DisposedIsEmpty' /\ UnbornHasNothing'
      BY <1>1, <1>2, <2>1, <2>2
         DEF IInv, NoOverlap, DisposedIsEmpty, UnbornHasNothing
    <2>9. DeliveringIsAdvanced'
      BY <1>1, <1>2, <2>1, <2>2, <2>3, <2>4, RunFacts
         DEF IInv, DeliveringIsAdvanced, Delivering
    <2>10. OneShotHasNoFollowUp'
      BY <1>2, <2>1, <2>2, <2>3, <2>4, RunFacts DEF IInv, OneShotHasNoFollowUp
    <2>11. HoldIsRecorded'
      <3> SUFFICES ASSUME NEW q \in runs', q.phase = "done", q.job \in jobs',
                          job'[q.job].pending
                   PROVE  deferredAtEpoch'[q.job] = heldAt'[q.job]
        BY DEF HoldIsRecorded
      <3>1. q \in runs /\ q # r /\ q.job \in Ids /\ q.job # id
        BY <1>2, <2>1, <2>2, RunFacts
      <3> QED
        BY <1>1, <1>4, <2>4, <3>1 DEF IInv, HoldIsRecorded
    <2>12. NoStrandedHold'
      BY <1>1, <1>2, <1>3, <2>1, <2>4 DEF IInv, NoStrandedHold
    <2>13. NoLostFire' /\ ParkedIsInert'
      BY <1>1, <1>2, <1>3, <2>1, <2>2, <2>3, <2>4, <2>5
         DEF IInv, NoLostFire, ParkedIsInert, Scheduled
    <2>14. MessageIDIsInUse'
      <3> SUFFICES ASSUME NEW j \in jobs', job'[j].messageID
                   PROVE  \/ job'[j].failure # None
                          \/ \E q \in runs' : q.job = j /\ q.phase = "dispatched"
        BY DEF MessageIDIsInUse
      <3>1. j \in jobs /\ j \in Ids /\ job[j].messageID /\ job'[j].failure = job[j].failure
        BY <1>1, <1>3, <2>3, <2>4
      <3>2. CASE job[j].failure # None
        BY <3>1, <3>2
      <3>3. CASE \E q \in runs : q.job = j /\ q.phase = "dispatched"
        BY <1>1, <2>1, <3>3
      <3> QED
        BY <3>1, <3>2, <3>3 DEF IInv, MessageIDIsInUse
    <2>15. AttemptsBounded'
      BY <1>1, <1>3, <2>3, <2>4 DEF IInv, AttemptsBounded
    <2>16. OneShotAtMostOnce'
      <3> SUFFICES ASSUME NEW j \in Ids, ~job'[j].recurring, landed[j] > 0
                   PROVE  /\ landed[j] = 1
                          /\ j \in jobs => job'[j].failure # None
                          /\ \A q \in runs' : q.job = j => q.phase = "done"
        BY <1>1 DEF OneShotAtMostOnce
      <3>1. /\ landed[j] = 1
            /\ j \in jobs => job[j].failure # None
            /\ \A q \in runs : q.job = j => q.phase = "done"
        BY <2>3, <2>4 DEF IInv, OneShotAtMostOnce
      <3>2. j # id
        BY <2>1, <2>5, <3>1
      <3> QED
        BY <2>1, <2>2, <2>4, <3>1, <3>2
    <2> QED
      BY <2>6, <2>7, <2>8, <2>9, <2>10, <2>11, <2>12, <2>13, <2>14, <2>15, <2>16
         DEF IInv
  <1>6. CASE ~Raced(id)
    <2>1. runs' = runs \ {r} /\ job' = job /\ firing' = firing \ {id}
      BY <1>6 DEF Finish, Released
    <2>2. (timer \in Optional(Instant))' /\ TimerCoversSchedule'
      <3>1. (\A j \in jobs : job[j].nextFire \in Optional(Instant))'
        BY <1>1, <1>3, <2>1 DEF Job
      <3>2. /\ now' \in Nat /\ now' = now /\ (disposed \in BOOLEAN)'
            /\ (disposed => jobs = {})'
        BY <1>1, <1>3 DEF IInv, DisposedIsEmpty
      <3> QED
        BY <1>1, <3>1, <3>2, ArmFacts
    <2>3. TypeOK'
      BY <1>1, <1>3, <1>4, <2>1, <2>2 DEF IInv, TypeOK
    <2>4. NoOverlap' /\ DisposedIsEmpty' /\ UnbornHasNothing'
      BY <1>1, <1>2, <2>1 DEF IInv, NoOverlap, DisposedIsEmpty, UnbornHasNothing
    <2>5. DeliveringIsAdvanced' /\ OneShotHasNoFollowUp'
      BY <1>1, <2>1 DEF IInv, DeliveringIsAdvanced, OneShotHasNoFollowUp
    <2>6. HoldIsRecorded'
      BY <1>1, <1>2, <1>4, <2>1, RunFacts DEF IInv, HoldIsRecorded
    <2>7. NoStrandedHold'
      <3> SUFFICES ASSUME NEW j \in jobs, j \notin firing \ {id}, job[j].pending
                   PROVE  heldAt[j] = idleEpochs[job[j].session]
        BY <1>1, <2>1 DEF NoStrandedHold
      <3>1. CASE j # id
        BY <3>1 DEF IInv, NoStrandedHold
      <3>2. CASE j = id
        <4>1. deferredAtEpoch[id] = heldAt[id]
          BY <1>1, <3>2 DEF IInv, HoldIsRecorded
        <4>2. heldAt[id] \in Nat /\ None \notin Nat
          BY <1>2, SchedulerAssumption DEF IInv, TypeOK
        <4> QED
          BY <1>6, <3>2, <4>1, <4>2 DEF Raced
      <3> QED
        BY <3>1, <3>2
    <2>8. NoLostFire'
      <3> SUFFICES ASSUME NEW j \in jobs,
                          \A q \in runs \ {r} : q.job = j => q.phase = "done"
                   PROVE  Scheduled(job, j) \/ job[j].pending \/ job[j].failure # None
        BY <1>1, <2>1 DEF NoLostFire, Scheduled
      <3> QED
        BY <1>1 DEF IInv, NoLostFire
    <2>9. ParkedIsInert' /\ MessageIDIsInUse'
      BY <1>1, <1>2, <2>1 DEF IInv, ParkedIsInert, MessageIDIsInUse, Scheduled
    <2>10. AttemptsBounded' /\ OneShotAtMostOnce'
      BY <1>1, <2>1 DEF IInv, AttemptsBounded, OneShotAtMostOnce
    <2> QED
      BY <2>2, <2>3, <2>4, <2>5, <2>6, <2>7, <2>8, <2>9, <2>10 DEF IInv
  <1> QED
    BY <1>5, <1>6

LEMMA SessionIdlePreserves ==
    ASSUME IInv, NEW s \in Sessions, SessionIdle(s)
    PROVE  IInv'
  <1> DEFINE F == Flushed(s)
             epoch == idleEpochs'[s]
  <1>1. /\ UNCHANGED <<now, seq, jobs, deferredAtEpoch, landed, heldAt>>
        /\ disposed' = disposed /\ Ids' = Ids
        /\ idleEpochs' = [idleEpochs EXCEPT ![s] = @ + 1]
        /\ firing' = firing \cup F
        /\ runs' = runs \cup {DeliveryRun(j, job[j], epoch) : j \in F}
        /\ job' = [j \in Ids |-> IF j \in F THEN Advanced(job[j]) ELSE job[j]]
        /\ F # {} => Arm
        /\ F = {} => timer' = timer
    BY DEF SessionIdle, Ids
  <1>2. /\ F \subseteq jobs /\ F \cap firing = {}
        /\ \A j \in F : job[j].pending /\ job[j].session = s
        /\ \A j \in jobs \ firing : job[j].session = s /\ job[j].pending => j \in F
    BY DEF Flushed, OwnedBy
  <1> HIDE DEF F, epoch
  <1>3. /\ job \in [Ids -> Job] /\ jobs \subseteq Ids /\ now \in Nat
        /\ disposed' \in BOOLEAN /\ Ids \subseteq Nat
        /\ idleEpochs' \in [Sessions -> Nat] /\ epoch \in Nat
        /\ \A x \in Sessions : x # s => idleEpochs'[x] = idleEpochs[x]
    BY <1>1, IdsInRange DEF IInv, TypeOK, epoch
  <1>4. \A j \in F : /\ DeliveryRun(j, job[j], epoch) \in Run
                     /\ DeliveryRun(j, job[j], epoch).job = j
                     /\ DeliveryRun(j, job[j], epoch).phase = "deliver"
                     /\ DeliveryRun(j, job[j], epoch).followUp = FollowUp(job[j])
    <2>1. \A j \in F : j \in Nat /\ job[j] \in Job
      BY <1>2, <1>3
    <2> QED
      BY <1>3, <2>1, DeliveryRunFacts
  <1>18. \A j \in F : /\ ~job'[j].pending
                      /\ job'[j].nextFire = FollowUp(job[j])
                      /\ ~job[j].recurring => FollowUp(job[j]) = None
    BY <1>1, <1>2, <1>3, AdvancedFacts
  <1>5. \A j \in Ids : /\ job'[j].session = job[j].session
                       /\ (job'[j].recurring <=> job[j].recurring)
                       /\ (job'[j].messageID <=> job[j].messageID)
                       /\ job'[j].attempts = job[j].attempts
                       /\ job'[j].failure = job[j].failure
                       /\ j \notin F => job'[j] = job[j]
    <2> SUFFICES ASSUME NEW j \in Ids
                 PROVE  /\ job'[j].session = job[j].session
                        /\ (job'[j].recurring <=> job[j].recurring)
                        /\ (job'[j].messageID <=> job[j].messageID)
                        /\ job'[j].attempts = job[j].attempts
                        /\ job'[j].failure = job[j].failure
                        /\ j \notin F => job'[j] = job[j]
      OBVIOUS
    <2>1. CASE j \in F
      <3>1. job[j] \in Job /\ job'[j] = Advanced(job[j])
        BY <1>1, <1>3, <2>1
      <3> QED
        BY <1>3, <2>1, <3>1, AdvancedFacts
    <2>2. CASE j \notin F
      BY <1>1, <2>2
    <2> QED
      BY <2>1, <2>2
  <1>6. \A j \in F : job[j].failure = None
    BY <1>2 DEF IInv, ParkedIsInert
  <1>7. job' \in [Ids' -> Job]
    <2>1. \A j \in F : Advanced(job[j]) \in Job
      BY <1>2, <1>3, AdvancedFacts
    <2> QED
      BY <1>1, <1>3, <2>1
  <1>8. (timer \in Optional(Instant))' /\ TimerCoversSchedule'
    <2>1. CASE F # {}
      <3>1. (\A j \in jobs : job[j].nextFire \in Optional(Instant))'
        BY <1>1, <1>3, <1>7 DEF Job
      <3>2. /\ now' \in Nat /\ now' = now /\ (disposed \in BOOLEAN)'
            /\ (disposed => jobs = {})'
        BY <1>1, <1>3 DEF IInv, DisposedIsEmpty
      <3> QED
        BY <1>1, <2>1, <3>1, <3>2, ArmFacts
    <2>2. CASE F = {}
      BY <1>1, <1>3, <1>5, <1>18, <2>2 DEF IInv, TypeOK, TimerCoversSchedule, Scheduled
    <2> QED
      BY <2>1, <2>2
  <1>9. TypeOK'
    <2>1. runs' \subseteq Run /\ \A q \in runs' : q.job \in Ids'
      BY <1>1, <1>2, <1>3, <1>4, RunFacts
    <2> QED
      BY <1>1, <1>2, <1>3, <1>7, <1>8, <2>1 DEF IInv, TypeOK
  <1>10. NoOverlap' /\ DisposedIsEmpty' /\ UnbornHasNothing'
    BY <1>1, <1>2, <1>4 DEF IInv, NoOverlap, DisposedIsEmpty, UnbornHasNothing
  <1>11. \A q \in runs : q.job \notin F /\ q.job \in Ids /\ job'[q.job] = job[q.job]
    <2>1. \A q \in runs : q.job \in firing /\ q.job \in Ids
      BY RunFacts
    <2> QED
      BY <1>2, <1>5, <1>18, <2>1
  <1>12. DeliveringIsAdvanced' /\ OneShotHasNoFollowUp' /\ HoldIsRecorded'
    <2> SUFFICES ASSUME NEW q \in runs'
                 PROVE  /\ q.phase \in Delivering /\ q.job \in jobs' =>
                             ~job'[q.job].pending /\ job'[q.job].nextFire = q.followUp
                        /\ ~job'[q.job].recurring => q.followUp = None
                        /\ q.phase = "done" /\ q.job \in jobs' /\ job'[q.job].pending =>
                             deferredAtEpoch'[q.job] = heldAt'[q.job]
      BY DEF DeliveringIsAdvanced, OneShotHasNoFollowUp, HoldIsRecorded
    <2>1. CASE q \in runs
      BY <1>1, <1>11, <2>1 DEF IInv, DeliveringIsAdvanced, OneShotHasNoFollowUp,
                               HoldIsRecorded
    <2>2. CASE \E j \in F : q = DeliveryRun(j, job[j], epoch)
      <3>1. PICK j \in F : q = DeliveryRun(j, job[j], epoch)
        BY <2>2
      <3>2. /\ q.job = j /\ q.phase = "deliver" /\ q.followUp = FollowUp(job[j])
            /\ j \in Ids
        BY <1>2, <1>3, <1>4, <3>1
      <3> QED
        BY <1>5, <1>18, <3>2
    <2> QED
      BY <1>1, <2>1, <2>2
  <1>13. NoStrandedHold'
    <2> SUFFICES ASSUME NEW j \in jobs, j \notin firing, j \notin F, job[j].pending
                 PROVE  heldAt[j] = idleEpochs'[job[j].session]
      BY <1>1, <1>3, <1>5, <1>18 DEF NoStrandedHold
    <2>1. job[j].session # s /\ job[j].session \in Sessions
      BY <1>2, <1>3 DEF Job
    <2> QED
      BY <1>3, <2>1 DEF IInv, NoStrandedHold
  <1>14. NoLostFire'
    <2> SUFFICES ASSUME NEW j \in jobs,
                        \A q \in runs' : q.job = j => q.phase = "done"
                 PROVE  job'[j].nextFire # None \/ job'[j].pending \/ job'[j].failure # None
      BY <1>1 DEF NoLostFire, Scheduled
    <2>1. j \notin F
      BY <1>1, <1>4
    <2> QED
      BY <1>1, <1>3, <1>5, <1>18, <2>1 DEF IInv, NoLostFire, Scheduled
  <1>15. ParkedIsInert' /\ MessageIDIsInUse'
    <2> SUFFICES ASSUME NEW j \in jobs
                 PROVE  /\ job'[j].failure # None =>
                             /\ job'[j].nextFire = None /\ ~job'[j].pending
                             /\ \A q \in runs' : q.job = j => q.phase = "done"
                        /\ job'[j].messageID =>
                             \/ job'[j].failure # None
                             \/ \E q \in runs' : q.job = j /\ q.phase = "dispatched"
      BY <1>1 DEF ParkedIsInert, MessageIDIsInUse, Scheduled
    <2>1. j \in Ids /\ job'[j].failure = job[j].failure
          /\ (job'[j].messageID <=> job[j].messageID)
      BY <1>3, <1>5, <1>18
    <2>2. ASSUME job'[j].failure # None
          PROVE  /\ job'[j].nextFire = None /\ ~job'[j].pending
                 /\ \A q \in runs' : q.job = j => q.phase = "done"
      <3>1. j \notin F
        BY <1>6, <2>1, <2>2
      <3> QED
        BY <1>1, <1>4, <1>5, <1>18, <2>1, <2>2, <3>1 DEF IInv, ParkedIsInert, Scheduled
    <2>3. ASSUME job'[j].messageID
          PROVE  \/ job'[j].failure # None
                 \/ \E q \in runs' : q.job = j /\ q.phase = "dispatched"
      BY <1>1, <2>1, <2>3 DEF IInv, MessageIDIsInUse
    <2> QED
      BY <2>2, <2>3
  <1>16. AttemptsBounded'
    <2>1. \A j \in Ids : job'[j].attempts = job[j].attempts /\ job'[j].failure = job[j].failure
      BY <1>5, <1>18
    <2> QED
      BY <1>1, <2>1 DEF IInv, AttemptsBounded
  <1>17. OneShotAtMostOnce'
    <2> SUFFICES ASSUME NEW j \in Ids, ~job'[j].recurring, landed[j] > 0
                 PROVE  /\ landed[j] = 1
                        /\ j \in jobs => job'[j].failure # None
                        /\ \A q \in runs' : q.job = j => q.phase = "done"
      BY <1>1 DEF OneShotAtMostOnce
    <2>1. /\ landed[j] = 1
          /\ j \in jobs => job[j].failure # None
          /\ \A q \in runs : q.job = j => q.phase = "done"
      <3>1. ~job[j].recurring
        BY <1>5, <1>18
      <3> QED
        BY <3>1 DEF IInv, OneShotAtMostOnce
    <2>2. j \notin F
      BY <1>2, <1>6, <2>1
    <2> QED
      BY <1>1, <1>4, <1>5, <1>18, <2>1, <2>2
  <1> QED
    BY <1>8, <1>9, <1>10, <1>12, <1>13, <1>14, <1>15, <1>16, <1>17 DEF IInv

-----------------------------------------------------------------------------
(* The theorems.                                                           *)

LEMMA NextPreserves == IInv /\ [Next]_vars => IInv'
  <1> SUFFICES ASSUME IInv, [Next]_vars PROVE IInv'
    OBVIOUS
  <1>1. CASE Advance
    BY <1>1, AdvancePreserves
  <1>2. CASE \E s \in Sessions, c \in Crons, recurring \in BOOLEAN,
               jitter \in 0..(JitterSteps - 1) : Create(s, c, recurring, jitter)
    <2>1. 0..(JitterSteps - 1) \subseteq Nat
      BY TimeAssumption
    <2> QED
      BY <1>2, <2>1, CreatePreserves
  <1>3. CASE \E j \in jobs : Remove(j)
    BY <1>3, RemovePreserves
  <1>4. CASE \E s \in Sessions : DropSession(s)
    BY <1>4, DropSessionPreserves
  <1>5. CASE Dispose
    BY <1>5, DisposePreserves
  <1>6. CASE TimerFires
    BY <1>6, TimerFiresPreserves
  <1>7. CASE \E r \in runs : RunStep(r)
    <2>1. PICK r \in runs : RunStep(r)
      BY <1>7
    <2>2. r.check \in Nat
      BY RunFacts DEF Run
    <2>3. CASE BeginAttempt(r)
      BY <2>3, BeginAttemptPreserves
    <2>4. CASE \E o \in {"delivered", "deferred", "rejected", "unknown"}, accepted \in 0..1 :
                  DeliverReturns(r, o, accepted)
      BY <2>4, DeliverReturnsPreserves
    <2>5. CASE Finish(r)
      BY <2>5, FinishPreserves
    <2>6. CASE \E idle \in BOOLEAN : ProbeAnswers(r.check, idle)
      BY <2>2, <2>6, ProbeAnswersPreserves
    <2> QED
      BY <2>1, <2>3, <2>4, <2>5, <2>6 DEF RunStep
  <1>8. CASE \E s \in Sessions : SessionIdle(s)
    BY <1>8, SessionIdlePreserves
  <1>9. CASE UNCHANGED vars
    BY <1>9, StutterPreserves
  <1> QED
    BY <1>1, <1>2, <1>3, <1>4, <1>5, <1>6, <1>7, <1>8, <1>9 DEF Next

\* The inductive invariant holds in every reachable state of the scheduler,
\* whatever mix of ticks, probes, deliveries, idle events and removals.
THEOREM IInvHolds == Spec => []IInv
  BY InitEstablishes, NextPreserves, PTL DEF Spec

\* Every variable keeps its type: in particular a run only ever names a job
\* that createScheduler handed an id to.
THEOREM TypeCorrect == Spec => []TypeOK
  <1>1. IInv => TypeOK
    BY DEF IInv
  <1> QED
    BY <1>1, IInvHolds, PTL

\* A job never has two runs, and firing reserves exactly the jobs with a run.
THEOREM NeverOverlaps == Spec => []NoOverlap
  <1>1. IInv => NoOverlap
    BY DEF IInv
  <1> QED
    BY <1>1, IInvHolds, PTL

\* A held fire always waits for an idle transition that is still to come.
THEOREM HeldFiresAreFlushed == Spec => []NoStrandedHold
  <1>1. IInv => NoStrandedHold
    BY DEF IInv
  <1> QED
    BY <1>1, IInvHolds, PTL

\* The single timer covers every scheduled job that is not in flight.
THEOREM TimerIsArmed == Spec => []TimerCoversSchedule
  <1>1. IInv => TimerCoversSchedule
    BY DEF IInv
  <1> QED
    BY <1>1, IInvHolds, PTL

\* No fire is lost silently: a job that is not in flight is scheduled, held
\* for the next idle transition, or parked with a visible failure.
THEOREM NoFireIsLost == Spec => []NoLostJob
  <1>1. IInv => NoLostJob
    <2> SUFFICES ASSUME IInv, NEW j \in jobs \ firing
                 PROVE  Scheduled(job, j) \/ job[j].pending \/ job[j].failure # None
      BY DEF NoLostJob
    <2>1. \A r \in runs : r.job # j
      BY DEF IInv, NoOverlap
    <2> QED
      BY <2>1 DEF IInv, NoLostFire
  <1> QED
    BY <1>1, IInvHolds, PTL

\* Both: whatever is raced, refused or deferred, a fire is scheduled, held with a
\* wake-up to come, in flight or visibly parked.
THEOREM NoFireIsForgotten == Spec => []FiresAreKept
  BY HeldFiresAreFlushed, NoFireIsLost, PTL DEF FiresAreKept

\* A parked job is never scheduled, held or delivered again.
THEOREM ParkedStaysInert == Spec => []ParkedIsInert
  <1>1. IInv => ParkedIsInert
    BY DEF IInv
  <1> QED
    BY <1>1, IInvHolds, PTL

\* No attempt is dispatched under a message ID minted for an earlier one.
THEOREM MessageIDsAreFresh == Spec => []FreshMessageID
  <1>1. IInv => FreshMessageID
    <2> SUFFICES ASSUME IInv, NEW r \in runs, r.phase \in {"probe", "deliver"},
                        r.job \in jobs, job[r.job].messageID
                 PROVE  FALSE
      BY DEF FreshMessageID
    <2>1. job[r.job].failure = None
      BY DEF IInv, ParkedIsInert
    <2>2. \A q \in runs : q.job = r.job => q = r
      BY RunFacts
    <2> QED
      BY <2>1, <2>2 DEF IInv, MessageIDIsInUse
  <1> QED
    BY <1>1, IInvHolds, PTL

\* A one-shot's prompt reaches the host at most once, and never again after.
THEOREM OneShotsLandOnce == Spec => []OneShotAtMostOnce
  <1>1. IInv => OneShotAtMostOnce
    BY DEF IInv
  <1> QED
    BY <1>1, IInvHolds, PTL

\* A terminal fire is attempted at most MaxAttempts times before it parks.
THEOREM AttemptsStayBounded == Spec => []AttemptsBounded
  <1>1. IInv => AttemptsBounded
    BY DEF IInv
  <1> QED
    BY <1>1, IInvHolds, PTL

-----------------------------------------------------------------------------
(* The matches of a recurring job.                                         *)

LEMMA NextMatchDivides ==
    ASSUME NEW p \in Nat \ {0}, NEW t \in Nat
    PROVE  NextMatch(p, t) % p = 0
  <1> DEFINE k == (t \div p) + 1
  <1>1. k \in Nat
    OBVIOUS
  <1>2. NextMatch(p, t) = p * k
    BY <1>1 DEF NextMatch
  <1> HIDE DEF k
  <1>3. (p * k) % p = 0
    BY <1>1
  <1> QED
    BY <1>2, <1>3

\* A recurring fire comes at its match or later.
LEMMA RecurringFireNat ==
    ASSUME NEW jr \in Job, NEW n \in Nat
    PROVE  RecurringFire(jr, n) \in Nat /\ RecurringFire(jr, n) >= n
  <1> DEFINE following == NextMatch(jr.cron, n)
             cap       == RecurringCap(jr.cron, n)
  <1>0. jr.cron \in Nat \ {0} /\ jr.jitter \in Nat
    BY SchedulerAssumption DEF Job
  <1>1. following \in Nat /\ following > n
    BY <1>0, NextMatchAfter
  <1>2. cap \in Nat
    <2>1. (following - n) \div 2 \in Nat
      BY <1>1
    <2> QED
      BY <2>1, TimeAssumption DEF RecurringCap, Earlier
  <1>3. Spread(jr.jitter, cap) \in Nat
    BY <1>0, <1>2, SpreadWithin
  <1> QED
    BY <1>3 DEF RecurringFire

\* Two job objects with the same identity: the same matches and fire instants.
SameJob(a, b) ==
    /\ b.cron = a.cron /\ b.jitter = a.jitter
    /\ b.createdAt = a.createdAt /\ b.expiresAt = a.expiresAt
    /\ (b.recurring <=> a.recurring)

\* The match a job is scheduled for.
MatchOf(jr, n) ==
    /\ n \in 1..jr.nextFire
    /\ n % jr.cron = 0
    /\ n > jr.createdAt
    /\ RecurringFire(jr, n) = jr.nextFire

LEMMA NextFireIsOnMatch ==
    ASSUME NEW jr \in Job, NEW a \in Job, SameJob(a, jr), a.recurring,
           NEW t \in Nat, a.createdAt <= t,
           jr.nextFire = NextFireAfter(a, t)
    PROVE  /\ jr.nextFire \in Nat /\ jr.nextFire > t
           /\ \E n \in 1..jr.nextFire : MatchOf(jr, n)
  <1> DEFINE n == NextMatch(a.cron, t)
  <1>0. a.cron \in Nat \ {0} /\ a.createdAt \in Nat
    BY SchedulerAssumption DEF Job, Instant
  <1>1. n \in Nat /\ n > t /\ n % a.cron = 0
    BY <1>0, NextMatchAfter, NextMatchDivides
  <1>2. RecurringFire(a, n) \in Nat /\ RecurringFire(a, n) >= n
    BY <1>1, RecurringFireNat
  <1>3. RecurringFire(jr, n) = RecurringFire(a, n)
    BY DEF SameJob, RecurringFire
  <1>4. jr.nextFire = RecurringFire(a, n)
    BY DEF NextFireAfter
  <1> HIDE DEF n
  <1>5. n \in 1..jr.nextFire
    BY <1>1, <1>2, <1>4
  <1>6. MatchOf(jr, n)
    BY <1>0, <1>1, <1>3, <1>4, <1>5 DEF MatchOf, SameJob
  <1> QED
    BY <1>1, <1>2, <1>4, <1>5, <1>6

\* UsedUp as a function of the clock.
UsedBy(jr, t) ==
    {n \in 1..t : /\ n % jr.cron = 0
                  /\ n > jr.createdAt
                  /\ RecurringFire(jr, n) <= t
                  /\ jr.nextFire # None /\ jr.attempts = 0 =>
                        RecurringFire(jr, n) < jr.nextFire}

LEMMA UsedUpIsUsedBy ==
    ASSUME NEW jr, jr.recurring
    PROVE  UsedUp(jr) = UsedBy(jr, now)
  BY DEF UsedUp, UsedBy, FireInstants

LEMMA UsedByFinite ==
    ASSUME NEW jr, NEW t \in Nat
    PROVE  IsFiniteSet(UsedBy(jr, t)) /\ Cardinality(UsedBy(jr, t)) \in Nat
  <1>1. IsFiniteSet(1..t)
    BY FS_Interval
  <1>2. UsedBy(jr, t) \subseteq 1..t
    BY DEF UsedBy
  <1> QED
    BY <1>1, <1>2, FS_Subset, FS_CardinalityType

\* A job object that waits for no match of its own up to t has used up all.
Spent(jr, t) ==
    \/ jr.nextFire = None
    \/ jr.attempts > 0
    \/ jr.nextFire > t

\* Time only adds to what is used up, and so does any change of the job that
\* leaves its schedule alone or takes it past t.
LEMMA UsedByGrows ==
    ASSUME NEW a \in Job, NEW b \in Job, SameJob(a, b),
           NEW t \in Nat, NEW u \in Nat, t <= u,
           \/ b.nextFire = a.nextFire /\ b.attempts = a.attempts
           \/ Spent(b, u)
    PROVE  /\ UsedBy(a, t) \subseteq UsedBy(b, u)
           /\ Cardinality(UsedBy(a, t)) <= Cardinality(UsedBy(b, u))
  <1>1. ASSUME NEW n \in UsedBy(a, t) PROVE n \in UsedBy(b, u)
    <2>1. /\ n \in 1..t /\ n % a.cron = 0 /\ n > a.createdAt
          /\ RecurringFire(a, n) <= t
          /\ a.nextFire # None /\ a.attempts = 0 => RecurringFire(a, n) < a.nextFire
      BY <1>1 DEF UsedBy
    <2>2. RecurringFire(b, n) = RecurringFire(a, n) /\ RecurringFire(a, n) \in Nat
      BY <2>1, RecurringFireNat DEF SameJob, RecurringFire
    <2>3. n \in 1..u /\ RecurringFire(b, n) <= u
      BY <2>1, <2>2
    <2>4. b.nextFire # None /\ b.attempts = 0 => RecurringFire(b, n) < b.nextFire
      <3>1. b.nextFire \in Nat \cup {None} /\ b.attempts \in Nat
        BY DEF Job, Optional, Instant
      <3> QED
        BY <2>1, <2>2, <2>3, <3>1 DEF Spent
    <2> QED
      BY <2>1, <2>3, <2>4 DEF UsedBy, SameJob
  <1>2. UsedBy(a, t) \subseteq UsedBy(b, u)
    BY <1>1
  <1> QED
    BY <1>2, UsedByFinite, FS_Subset

\* Advancing a job past the match it was due for uses up one match more.
LEMMA UsedByGains ==
    ASSUME NEW a \in Job, NEW b \in Job, SameJob(a, b), NEW t \in Nat,
           a.attempts = 0, a.nextFire # None, a.nextFire <= t,
           NEW m \in 1..a.nextFire, MatchOf(a, m), Spent(b, t)
    PROVE  Cardinality(UsedBy(a, t)) + 1 <= Cardinality(UsedBy(b, t))
  <1>0. a.nextFire \in Nat /\ b.nextFire \in Nat \cup {None} /\ b.attempts \in Nat
    BY DEF Job, Optional, Instant
  <1>1. UsedBy(a, t) \subseteq UsedBy(b, t)
    BY UsedByGrows
  <1>2. RecurringFire(a, m) = a.nextFire /\ RecurringFire(b, m) = a.nextFire
    BY DEF MatchOf, SameJob, RecurringFire
  <1>3. m \notin UsedBy(a, t)
    BY <1>0, <1>2 DEF UsedBy
  <1>4. m \in UsedBy(b, t)
    BY <1>0, <1>2 DEF UsedBy, MatchOf, SameJob, Spent
  <1>5. /\ IsFiniteSet(UsedBy(a, t)) /\ IsFiniteSet(UsedBy(b, t))
        /\ Cardinality(UsedBy(a, t)) \in Nat
    BY UsedByFinite
  <1>6. Cardinality(UsedBy(a, t) \cup {m}) = Cardinality(UsedBy(a, t)) + 1
    BY <1>3, <1>5, FS_AddElement
  <1>7. UsedBy(a, t) \cup {m} \subseteq UsedBy(b, t)
    BY <1>1, <1>4
  <1>8. Cardinality(UsedBy(a, t) \cup {m}) <= Cardinality(UsedBy(b, t))
    BY <1>5, <1>7, FS_Subset
  <1> QED
    BY <1>6, <1>8

-----------------------------------------------------------------------------
(* The accounts of one job and of one run.                                 *)

Paid(j) ==
    job[j].recurring =>
        /\ landed[j] <= Cardinality(UsedUp(job[j]))
        /\ Outstanding(j) => landed[j] + 1 <= Cardinality(UsedUp(job[j]))

OnMatch(j) ==
    job[j].recurring =>
        /\ job[j].createdAt <= now
        /\ Scheduled(job, j) /\ job[j].attempts = 0 =>
               \E n \in 1..job[j].nextFire : MatchOf(job[j], n)

TerminalJob(j) ==
    j \in jobs /\ job[j].recurring /\ job[j].attempts > 0 /\ job[j].failure = None =>
        Expired(job[j])

TerminalRun(r) ==
    r.phase \in Delivering /\ r.job \in jobs /\ job[r.job].recurring =>
        /\ r.followUp = None => Expired(job[r.job])
        /\ job[r.job].attempts > 0 => r.followUp = None

DueProbe(r) ==
    r.phase = "probe" /\ r.job \in jobs =>
        Scheduled(job, r.job) /\ job[r.job].nextFire <= now

Books ==
    /\ \A j \in Ids : Paid(j) /\ OnMatch(j) /\ TerminalJob(j)
    /\ \A r \in runs : TerminalRun(r) /\ DueProbe(r)

LEMMA AccountsAreBooks ==
    ASSUME jobs \subseteq Ids
    PROVE  Accounts <=> Books
  <1>1. FiresAreAccounted <=> \A j \in Ids : Paid(j)
    BY DEF FiresAreAccounted, Paid
  <1>2. ScheduledOnMatch <=> \A j \in Ids : OnMatch(j)
    BY DEF ScheduledOnMatch, OnMatch, MatchOf
  <1>3. RetriesAreTerminal <=> /\ \A j \in Ids : TerminalJob(j)
                               /\ \A r \in runs : TerminalRun(r)
    BY DEF RetriesAreTerminal, TerminalJob, TerminalRun
  <1>4. ProbesAreDue <=> \A r \in runs : DueProbe(r)
    BY DEF ProbesAreDue, DueProbe
  <1> QED
    BY <1>1, <1>2, <1>3, <1>4 DEF Accounts, Books

\* The frame: a job object that does not change, with nothing new outstanding,
\* keeps its accounts while time passes.
LEMMA FrameJob ==
    ASSUME now \in Nat, now' \in Nat, now <= now', NEW j, job[j] \in Job,
           landed[j] \in Nat, job'[j] = job[j], landed'[j] = landed[j],
           j \in jobs' => j \in jobs,
           Outstanding(j)' => Outstanding(j),
           Paid(j), OnMatch(j), TerminalJob(j)
    PROVE  Paid(j)' /\ OnMatch(j)' /\ TerminalJob(j)'
  <1> DEFINE jr == job[j]
  <1>1. jr.createdAt \in Nat /\ jr.expiresAt \in Nat \cup {None}
    BY DEF Job, Instant, Optional
  <1>2. ASSUME jr.recurring
        PROVE  /\ UsedUp(jr) = UsedBy(jr, now)
               /\ UsedUp(job[j])' = UsedBy(jr, now')
               /\ Cardinality(UsedBy(jr, now)) <= Cardinality(UsedBy(jr, now'))
               /\ Cardinality(UsedBy(jr, now)) \in Nat
               /\ Cardinality(UsedBy(jr, now')) \in Nat
    <2>1. SameJob(jr, jr)
      BY DEF SameJob
    <2>2. UsedUp(job[j])' = UsedBy(jr, now')
      BY <1>2 DEF UsedUp, UsedBy, FireInstants
    <2>3. UsedUp(jr) = UsedBy(jr, now)
      BY <1>2, UsedUpIsUsedBy
    <2> QED
      BY <2>1, <2>2, <2>3, UsedByGrows, UsedByFinite
  <1>3. Paid(j)'
    BY <1>2 DEF Paid
  <1>4. OnMatch(j)'
    BY <1>1 DEF OnMatch, Scheduled, MatchOf
  <1>5. TerminalJob(j)'
    BY <1>1 DEF TerminalJob, Expired
  <1> QED
    BY <1>3, <1>4, <1>5

\* The same for a change that the accounts do not look at.
LEMMA TouchedJob ==
    ASSUME now \in Nat, now' = now, NEW j, job[j] \in Job, landed[j] \in Nat,
           job'[j] \in Job, SameJob(job[j], job'[j]),
           job'[j].nextFire = job[j].nextFire, job'[j].attempts = job[j].attempts,
           job'[j].failure = job[j].failure,
           j \in jobs' => j \in jobs,
           \/ landed'[j] = landed[j] /\ (Outstanding(j)' => Outstanding(j))
           \/ landed'[j] \in {landed[j], landed[j] + 1} /\ Outstanding(j) /\ ~Outstanding(j)'
           \/ landed'[j] = landed[j] /\ Outstanding(j),
           Paid(j), OnMatch(j), TerminalJob(j)
    PROVE  Paid(j)' /\ OnMatch(j)' /\ TerminalJob(j)'
  <1> DEFINE a == job[j]
             b == job'[j]
  <1>1. ASSUME a.recurring
        PROVE  /\ UsedUp(a) = UsedBy(a, now)
               /\ UsedUp(job[j])' = UsedBy(b, now)
               /\ Cardinality(UsedBy(a, now)) <= Cardinality(UsedBy(b, now))
               /\ Cardinality(UsedBy(a, now)) \in Nat
               /\ Cardinality(UsedBy(b, now)) \in Nat
    <2>1. UsedUp(job[j])' = UsedBy(b, now)
      BY <1>1 DEF UsedUp, UsedBy, FireInstants, SameJob
    <2>2. UsedUp(a) = UsedBy(a, now)
      BY <1>1, UsedUpIsUsedBy
    <2>3. Cardinality(UsedBy(a, now)) <= Cardinality(UsedBy(b, now))
      BY UsedByGrows
    <2> QED
      BY <2>1, <2>2, <2>3, UsedByFinite
  <1>2. Paid(j)'
    BY <1>1 DEF Paid, SameJob
  <1>3. OnMatch(j)'
    <2>1. \A n : MatchOf(a, n) => MatchOf(b, n)
      BY DEF MatchOf, SameJob, RecurringFire
    <2> QED
      BY <2>1 DEF OnMatch, Scheduled, SameJob
  <1>4. TerminalJob(j)'
    BY DEF TerminalJob, Expired, SameJob
  <1> QED
    BY <1>2, <1>3, <1>4

LEMMA FrameRun ==
    ASSUME now \in Nat, now' \in Nat, now <= now', NEW r, job[r.job] \in Job,
           job'[r.job] = job[r.job], r.job \in jobs' => r.job \in jobs,
           TerminalRun(r), DueProbe(r)
    PROVE  TerminalRun(r)' /\ DueProbe(r)'
  <1>1. /\ job[r.job].expiresAt \in Nat \cup {None}
        /\ job[r.job].nextFire \in Nat \cup {None}
        /\ None \notin Nat
    BY SchedulerAssumption DEF Job, Instant, Optional
  <1> QED
    BY <1>1 DEF TerminalRun, DueProbe, Expired, Scheduled

\* The identity of a job survives everything a delivery does to its object.
LEMMA AdvancedIsSame ==
    ASSUME NEW jr \in Job
    PROVE  SameJob(jr, Advanced(jr)) /\ SameJob(jr, Held(jr))
  BY DEF Advanced, Held, SameJob, Job

LEMMA AfterDeliveryIsSame ==
    ASSUME NEW jr \in Job, NEW r, NEW o
    PROVE  SameJob(jr, AfterDelivery(r, jr, o))
  BY DEF AfterDelivery, Retried, Parked, SameJob, Job

\* The fire of a job that is held, or due, is used up as soon as the job is
\* advanced or rescheduled past now - and not before.
LEMMA FireIsUsedUp ==
    ASSUME now \in Nat, NEW j, job[j] \in Job, landed[j] \in Nat, j \in jobs,
           Paid(j), OnMatch(j), job[j].recurring,
           \/ job[j].pending
           \/ Scheduled(job, j) /\ job[j].nextFire <= now,
           NEW b \in Job, SameJob(job[j], b), Spent(b, now)
    PROVE  landed[j] + 1 <= Cardinality(UsedBy(b, now))
  <1> DEFINE a == job[j]
  <1>1. UsedUp(a) = UsedBy(a, now)
    BY UsedUpIsUsedBy
  <1>2. /\ Cardinality(UsedBy(a, now)) \in Nat /\ Cardinality(UsedBy(b, now)) \in Nat
        /\ Cardinality(UsedBy(a, now)) <= Cardinality(UsedBy(b, now))
    BY UsedByFinite, UsedByGrows
  <1>3. CASE a.pending \/ (Scheduled(job, j) /\ a.attempts > 0)
    <2>1. Outstanding(j)
      BY <1>3 DEF Outstanding
    <2> QED
      BY <1>1, <1>2, <2>1 DEF Paid
  <1>4. CASE Scheduled(job, j) /\ a.nextFire <= now /\ ~(a.attempts > 0)
    <2>1. a.attempts = 0 /\ a.nextFire # None
      BY <1>4 DEF Scheduled, Job
    <2>2. PICK m \in 1..a.nextFire : MatchOf(a, m)
      BY <1>4, <2>1 DEF OnMatch, Scheduled
    <2>3. Cardinality(UsedBy(a, now)) + 1 <= Cardinality(UsedBy(b, now))
      BY <1>4, <2>1, <2>2, UsedByGains
    <2>4. landed[j] <= Cardinality(UsedBy(a, now))
      BY <1>1 DEF Paid
    <2> QED
      BY <1>2, <2>3, <2>4
  <1> QED
    BY <1>3, <1>4

-----------------------------------------------------------------------------
(* Every action keeps the accounts.                                        *)

\* A due or held fire that is advanced, or held again, is used up.
LEMMA RescheduledBooks ==
    ASSUME now \in Nat, now' = now, NEW j, job[j] \in Job, landed[j] \in Nat,
           landed'[j] = landed[j], j \in jobs,
           Paid(j), OnMatch(j), TerminalJob(j), job[j].failure = None,
           \/ job[j].pending
           \/ Scheduled(job, j) /\ job[j].nextFire <= now,
           job'[j] = Advanced(job[j]) \/ job'[j] = Held(job[j])
    PROVE  Paid(j)' /\ OnMatch(j)' /\ TerminalJob(j)'
  <1> DEFINE a == job[j]
             b == job'[j]
  <1>1. /\ b \in Job /\ SameJob(a, b) /\ b.attempts = a.attempts /\ b.failure = a.failure
    BY AdvancedFacts, HeldFacts, AdvancedIsSame
  <1>2. ASSUME a.recurring
        PROVE  \/ b.nextFire = None
               \/ b.nextFire = NextFireAfter(a, now)
    <2>1. CASE b = Advanced(a)
      <3>1. b.nextFire = FollowUp(a)
        BY <2>1, AdvancedFacts
      <3> QED
        BY <3>1 DEF FollowUp
    <2>2. CASE b = Held(a)
      BY <1>2, <2>2 DEF Held, Job
    <2> QED
      BY <2>1, <2>2
  <1>3. ASSUME a.recurring
        PROVE  /\ Spent(b, now)
               /\ b.nextFire # None => \E n \in 1..b.nextFire : MatchOf(b, n)
               /\ a.createdAt <= now
    <2>1. a.createdAt <= now
      BY <1>3 DEF OnMatch
    <2>2. CASE b.nextFire = None
      BY <2>1, <2>2 DEF Spent
    <2>3. CASE b.nextFire = NextFireAfter(a, now)
      BY <1>1, <1>3, <2>1, <2>3, NextFireIsOnMatch DEF Spent
    <2> QED
      BY <1>2, <1>3, <2>2, <2>3
  <1>4. Paid(j)'
    <2> SUFFICES ASSUME b.recurring
                 PROVE  /\ landed[j] <= Cardinality(UsedUp(job[j])')
                        /\ landed[j] + 1 <= Cardinality(UsedUp(job[j])')
      BY DEF Paid
    <2>1. UsedUp(job[j])' = UsedBy(b, now)
      BY DEF UsedUp, UsedBy, FireInstants
    <2>2. a.recurring
      BY <1>1 DEF SameJob
    <2>3. landed[j] + 1 <= Cardinality(UsedBy(b, now))
      BY <1>1, <1>3, <2>2, FireIsUsedUp
    <2>4. Cardinality(UsedBy(b, now)) \in Nat
      BY UsedByFinite
    <2> QED
      BY <2>1, <2>3, <2>4
  <1>5. OnMatch(j)'
    BY <1>1, <1>3 DEF OnMatch, SameJob, Scheduled
  <1>6. TerminalJob(j)'
    BY <1>1 DEF TerminalJob, SameJob, Expired
  <1> QED
    BY <1>4, <1>5, <1>6

\* The delivery it is handed to is terminal only if the job has expired.
LEMMA AdvancedRun ==
    ASSUME now \in Nat, now' = now, NEW j, job[j] \in Job, j \in jobs,
           TerminalJob(j), job[j].failure = None, job'[j] = Advanced(job[j]),
           NEW r, r.job = j, r.phase = "deliver", r.followUp = FollowUp(job[j])
    PROVE  TerminalRun(r)' /\ DueProbe(r)'
  <1> DEFINE a == job[j]
             b == job'[j]
  <1>1. SameJob(a, b) /\ b.attempts = a.attempts
    BY AdvancedFacts, AdvancedIsSame
  <1>2. ASSUME a.recurring, FollowUp(a) = None
        PROVE  Expired(a)
    <2>1. a.cron \in Nat \ {0} /\ a.recurring \in BOOLEAN /\ a.jitter \in Nat
      BY SchedulerAssumption DEF Job
    <2>2. NextFireAfter(a, now) \in Nat /\ None \notin Nat
      BY <2>1, NextFireNat, SchedulerAssumption
    <2> QED
      BY <1>2, <2>2 DEF FollowUp
  <1>3. ASSUME a.recurring, a.attempts > 0
        PROVE  FollowUp(a) = None
    BY <1>3 DEF TerminalJob, FollowUp
  <1>4. Expired(job[j])' <=> Expired(a)
    BY <1>1 DEF Expired, SameJob
  <1> QED
    BY <1>1, <1>2, <1>3, <1>4 DEF TerminalRun, DueProbe, SameJob

LEMMA InvFacts ==
    ASSUME IInv, Books
    PROVE  /\ now \in Nat /\ jobs \subseteq Ids
           /\ \A j \in Ids : /\ job[j] \in Job /\ landed[j] \in Nat /\ j \in 1..MaxCreated
                             /\ Paid(j) /\ OnMatch(j) /\ TerminalJob(j)
           /\ \A r \in runs : /\ r \in Run /\ r.job \in Ids
                              /\ TerminalRun(r) /\ DueProbe(r)
                              /\ \A q \in runs : q.job = r.job => q = r
  BY IdsInRange, RunFacts DEF IInv, TypeOK, Books

\* Steps that leave every job object alone, start no delivery and hold nothing:
\* the clock, jobs leaving the store, and runs that end.
LEMMA QuietBooks ==
    ASSUME IInv, Books, now' \in Nat, now <= now', UNCHANGED <<seq, job, landed>>,
           runs' \subseteq runs, jobs' \subseteq jobs
    PROVE  Books'
  <1>1. Ids' = Ids
    BY DEF Ids
  <1>2. \A j \in Ids : Outstanding(j)' => Outstanding(j)
    BY DEF Outstanding, Scheduled
  <1>3. ASSUME NEW j \in Ids PROVE Paid(j)' /\ OnMatch(j)' /\ TerminalJob(j)'
    BY <1>2, InvFacts, FrameJob
  <1>4. ASSUME NEW r \in runs PROVE TerminalRun(r)' /\ DueProbe(r)'
    BY InvFacts, FrameRun
  <1> QED
    BY <1>1, <1>3, <1>4 DEF Books

LEMMA CreateBooks ==
    ASSUME IInv, Books, NEW s \in Sessions, NEW c \in Crons, NEW recurring \in BOOLEAN,
           NEW jitter \in Nat, Create(s, c, recurring, jitter)
    PROVE  Books'
  <1>0. PICK id : id = seq + 1
    OBVIOUS
  <1> DEFINE new == NewJob(s, c, recurring, jitter)
  <1>1. /\ now \in Nat /\ seq \in Nat /\ now' = now /\ id \in 1..MaxCreated
        /\ id \notin Ids /\ Ids' = Ids \cup {id} /\ jobs \subseteq Ids
        /\ jobs' = jobs \cup {id} /\ runs' = runs /\ landed' = landed
        /\ job' = [j \in Ids' |-> IF j = id THEN new ELSE job[j]]
    <2>1. /\ now \in Nat /\ seq \in 0..MaxCreated /\ now' = now /\ seq' = id
          /\ seq < MaxCreated /\ jobs' = jobs \cup {id} /\ jobs \subseteq Ids
          /\ runs' = runs /\ landed' = landed
          /\ job' = [j \in 1..id |-> IF j = id THEN new ELSE job[j]]
      BY <1>0 DEF IInv, TypeOK, Create
    <2>2. MaxCreated \in Nat
      BY SchedulerAssumption
    <2>3. id \notin 1..seq /\ 1..id = (1..seq) \cup {id}
      BY <1>0, <2>1, <2>2
    <2> HIDE DEF new
    <2> QED
      BY <1>0, <2>1, <2>2, <2>3 DEF Ids
  <1>2. /\ new \in Job /\ new.failure = None
        /\ new.attempts = 0 /\ ~new.pending /\ new.createdAt = now
        /\ (new.recurring <=> recurring)
        /\ new.nextFire # None
    BY <1>1, NewJobFacts DEF NewJob
  <1>10. ASSUME new.recurring PROVE \E n \in 1..new.nextFire : MatchOf(new, n)
    <2> DEFINE base == [session |-> s, cron |-> c, recurring |-> recurring,
                   jitter |-> jitter, createdAt |-> now,
                   expiresAt |-> IF recurring THEN now + RecurringTTL ELSE None,
                   pending |-> FALSE, nextFire |-> None, messageID |-> FALSE,
                   attempts |-> 0, failure |-> None]
    <2>1. new = [base EXCEPT !.nextFire = NextFireAfter(base, now)]
      BY DEF NewJob
    <2>2. base \in Job
      BY <1>1, SchedulerAssumption DEF Job, Optional, Instant
    <2>3. SameJob(base, new) /\ new.nextFire = NextFireAfter(base, now) /\ base.createdAt = now
      BY <2>1 DEF SameJob
    <2>4. base.recurring
      BY <1>2, <1>10
    <2> HIDE DEF base, new
    <2> QED
      BY <1>1, <1>2, <2>2, <2>3, <2>4, NextFireIsOnMatch
  <1> HIDE DEF new
  <1>3. /\ \A j \in Ids : job'[j] = job[j]
        /\ job'[id] = new
    BY <1>1
  <1>4. \A r \in runs : r.job \in Ids /\ r.job # id
    BY <1>1, InvFacts
  <1>5. ASSUME NEW j \in Ids PROVE Paid(j)' /\ OnMatch(j)' /\ TerminalJob(j)'
    <2>1. Outstanding(j)' => Outstanding(j)
      BY <1>1, <1>3 DEF Outstanding, Scheduled
    <2> QED
      BY <1>1, <1>3, <2>1, InvFacts, FrameJob
  <1>6. Paid(id)'
    <2>1. landed'[id] = 0
      BY <1>0, <1>1 DEF IInv, UnbornHasNothing
    <2>2. ~Outstanding(id)'
      BY <1>1, <1>2, <1>3, <1>4 DEF Outstanding
    <2>3. ASSUME new.recurring PROVE Cardinality(UsedUp(job[id])') \in Nat
      <3>1. UsedUp(job[id])' = UsedBy(new, now')
        BY <1>3, <2>3 DEF UsedUp, UsedBy, FireInstants
      <3> QED
        BY <1>1, <3>1, UsedByFinite
    <2> QED
      BY <1>3, <2>1, <2>2, <2>3 DEF Paid
  <1>7. OnMatch(id)'
    BY <1>1, <1>2, <1>3, <1>10 DEF OnMatch
  <1>8. TerminalJob(id)'
    BY <1>2, <1>3 DEF TerminalJob
  <1>9. ASSUME NEW r \in runs PROVE TerminalRun(r)' /\ DueProbe(r)'
    <2>1. /\ job[r.job] \in Job /\ job'[r.job] = job[r.job]
          /\ r.job \in jobs' => r.job \in jobs
          /\ TerminalRun(r) /\ DueProbe(r) /\ now <= now'
      BY <1>1, <1>3, <1>4, InvFacts
    <2> QED
      BY <1>1, <2>1, FrameRun
  <1> QED
    BY <1>1, <1>5, <1>6, <1>7, <1>8, <1>9 DEF Books

LEMMA TimerFiresBooks ==
    ASSUME IInv, Books, TimerFires
    PROVE  Books'
  <1>1. /\ UNCHANGED <<now, seq, job, jobs, landed>>
        /\ runs' = runs \cup {ProbeRun(j) : j \in Due}
        /\ Ids' = Ids
    BY DEF TimerFires, Ids
  <1>2. \A j \in Due : /\ ProbeRun(j).job = j /\ ProbeRun(j).phase = "probe"
                      /\ Scheduled(job, j) /\ job[j].nextFire <= now
    BY DEF ProbeRun, Due
  <1>3. ASSUME NEW j \in Ids PROVE Paid(j)' /\ OnMatch(j)' /\ TerminalJob(j)'
    <2>1. Outstanding(j)' => Outstanding(j)
      BY <1>1, <1>2 DEF Outstanding, Scheduled, Delivering
    <2> QED
      BY <1>1, <2>1, InvFacts, FrameJob
  <1>4. ASSUME NEW r \in runs PROVE TerminalRun(r)' /\ DueProbe(r)'
    BY <1>1, InvFacts, FrameRun
  <1>5. ASSUME NEW r \in {ProbeRun(j) : j \in Due} PROVE TerminalRun(r)' /\ DueProbe(r)'
    BY <1>1, <1>2 DEF TerminalRun, DueProbe, Delivering, Scheduled
  <1> QED
    BY <1>1, <1>3, <1>4, <1>5 DEF Books

LEMMA ProbeAnswersBooks ==
    ASSUME IInv, Books, NEW c \in Nat, NEW idle \in BOOLEAN, ProbeAnswers(c, idle)
    PROVE  Books'
  <1> DEFINE P       == Sharing(c)
             resumed == {r.job : r \in P} \cap jobs
  <1>1. /\ UNCHANGED <<now, seq, jobs, landed>> /\ Ids' = Ids
        /\ runs' = (runs \ P) \cup {AfterProbe(r, idle) : r \in P}
        /\ job' = [j \in Ids |-> IF j \notin resumed THEN job[j]
                                 ELSE IF idle THEN Advanced(job[j]) ELSE Held(job[j])]
    BY DEF ProbeAnswers, Ids
  <1>2. \A r \in P : r \in runs /\ r.phase = "probe"
    BY DEF Sharing
  <1>3. now \in Nat /\ jobs \subseteq Ids /\ \A j \in Ids : job[j] \in Job /\ landed[j] \in Nat
    BY InvFacts
  <1>4. /\ \A r \in runs \ P : r.job \notin resumed
        /\ \A r \in P : r.job \in jobs => r.job \in resumed
        /\ resumed \subseteq jobs
        /\ \A j \in resumed : \E r \in P : r.job = j
    BY <1>2, InvFacts
  <1>5. ASSUME NEW j \in resumed
        PROVE  /\ job[j].failure = None /\ Scheduled(job, j) /\ job[j].nextFire <= now
               /\ job'[j] = IF idle THEN Advanced(job[j]) ELSE Held(job[j])
    <2>1. PICK r \in P : r.job = j
      BY <1>4
    <2>2. job[j].failure = None
      BY <1>2, <1>4, <2>1 DEF IInv, ParkedIsInert
    <2>3. DueProbe(r)
      BY <1>2, InvFacts
    <2> QED
      BY <1>1, <1>2, <1>3, <1>4, <2>1, <2>2, <2>3 DEF DueProbe
  <1>6. ASSUME NEW r \in P
        PROVE  /\ AfterProbe(r, idle).job = r.job
               /\ IF idle /\ r.job \in jobs
                  THEN /\ AfterProbe(r, idle).phase = "deliver"
                       /\ AfterProbe(r, idle).followUp = FollowUp(job[r.job])
                  ELSE AfterProbe(r, idle).phase = "done"
    <2>1. r \in Run
      BY <1>2, InvFacts
    <2> QED
      BY <2>1 DEF AfterProbe, DeliveryRun, Run
  <1> HIDE DEF P, resumed
  <1>7. ASSUME NEW j \in Ids PROVE Paid(j)' /\ OnMatch(j)' /\ TerminalJob(j)'
    <2>1. CASE j \in resumed
      <3>1. job'[j] = Advanced(job[j]) \/ job'[j] = Held(job[j])
        BY <1>5, <2>1
      <3>2. landed'[j] = landed[j] /\ now' = now /\ j \in jobs
        BY <1>1, <1>4, <2>1
      <3> QED
        BY <1>3, <1>5, <2>1, <3>1, <3>2, InvFacts, RescheduledBooks
    <2>2. CASE j \notin resumed
      <3>1. job'[j] = job[j]
        BY <1>1, <2>2
      <3>2. ASSUME NEW q \in runs', q.job = j, q.phase \in Delivering
            PROVE  q \in runs
        BY <1>1, <1>4, <1>6, <2>2, <3>2 DEF Delivering
      <3>3. Outstanding(j)' => Outstanding(j)
        BY <1>1, <3>1, <3>2 DEF Outstanding, Scheduled
      <3> QED
        BY <1>1, <1>3, <3>1, <3>3, InvFacts, FrameJob
    <2> QED
      BY <2>1, <2>2
  <1>8. ASSUME NEW r \in runs' PROVE TerminalRun(r)' /\ DueProbe(r)'
    <2>1. CASE r \in runs \ P
      <3>1. job'[r.job] = job[r.job] /\ job[r.job] \in Job
        BY <1>1, <1>3, <1>4, <2>1, InvFacts
      <3> QED
        BY <1>1, <1>3, <2>1, <3>1, InvFacts, FrameRun
    <2>2. CASE \E q \in P : r = AfterProbe(q, idle)
      <3>1. PICK q \in P : r = AfterProbe(q, idle)
        BY <2>2
      <3>2. CASE idle /\ q.job \in jobs
        <4>1. /\ r.job = q.job /\ r.phase = "deliver" /\ r.followUp = FollowUp(job[q.job])
              /\ q.job \in resumed
          BY <1>4, <1>6, <3>1, <3>2
        <4>2. job'[q.job] = Advanced(job[q.job]) /\ job[q.job].failure = None /\ q.job \in Ids
          BY <1>3, <1>5, <3>2, <4>1
        <4> QED
          BY <1>1, <1>3, <3>2, <4>1, <4>2, InvFacts, AdvancedRun
      <3>3. CASE ~(idle /\ q.job \in jobs)
        <4>1. r.phase = "done"
          BY <1>6, <3>1, <3>3
        <4> QED
          BY <4>1 DEF TerminalRun, DueProbe, Delivering
      <3> QED
        BY <3>2, <3>3
    <2> QED
      BY <1>1, <2>1, <2>2
  <1> QED
    BY <1>1, <1>7, <1>8 DEF Books

\* A run that moves on, and nothing else: its job keeps what Books looks at.
LEMMA BeginAttemptBooks ==
    ASSUME IInv, Books, NEW r \in runs, BeginAttempt(r)
    PROVE  Books'
  <1>1. /\ UNCHANGED <<now, seq, jobs, landed>> /\ Ids' = Ids /\ r.phase = "deliver"
    BY DEF BeginAttempt, Ids
  <1>2. /\ r \in Run /\ r.job \in Ids /\ job \in [Ids -> Job] /\ now \in Nat
        /\ \A q \in runs : q.job = r.job => q = r
        /\ \A j \in Ids : job[j] \in Job /\ landed[j] \in Nat
    BY InvFacts DEF IInv, TypeOK
  <1>3. PICK new :
           /\ runs' = (runs \ {r}) \cup {new}
           /\ new.job = r.job /\ new.followUp = r.followUp
           /\ new.phase \in {"dispatched", "refused"}
           /\ job' = job \/ job' = [job EXCEPT ![r.job].messageID = TRUE]
    <2>0. \A p \in {"dispatched", "refused"} :
             /\ [r EXCEPT !.phase = p].job = r.job
             /\ [r EXCEPT !.phase = p].followUp = r.followUp
             /\ [r EXCEPT !.phase = p].phase = p
      BY <1>2 DEF Run
    <2>1. CASE disposed \/ r.job \notin jobs
      BY <2>0, <2>1 DEF BeginAttempt
    <2>2. CASE ~(disposed \/ r.job \notin jobs)
      BY <2>0, <2>2 DEF BeginAttempt
    <2> QED
      BY <2>1, <2>2
  <1>4. ASSUME NEW j \in Ids
        PROVE  /\ job'[j] \in Job /\ SameJob(job[j], job'[j])
               /\ job'[j].nextFire = job[j].nextFire
               /\ job'[j].attempts = job[j].attempts
               /\ job'[j].failure = job[j].failure
               /\ (job'[j].pending <=> job[j].pending)
    <2>1. CASE job' = job
      BY <1>2, <2>1 DEF SameJob
    <2>2. CASE job' = [job EXCEPT ![r.job].messageID = TRUE]
      <3> DEFINE jr == [job[r.job] EXCEPT !.messageID = TRUE]
      <3>1. jr \in Job
        BY <1>2 DEF Job
      <3>2. /\ SameJob(job[r.job], jr) /\ jr.nextFire = job[r.job].nextFire
            /\ jr.attempts = job[r.job].attempts /\ jr.failure = job[r.job].failure
            /\ (jr.pending <=> job[r.job].pending)
        BY <1>2 DEF Job, SameJob
      <3>3. job' = [job EXCEPT ![r.job] = jr]
        BY <2>2
      <3> HIDE DEF jr
      <3>4. CASE j = r.job
        BY <1>2, <3>1, <3>2, <3>3, <3>4
      <3>5. CASE j # r.job
        BY <1>2, <3>3, <3>5 DEF SameJob
      <3> QED
        BY <3>4, <3>5
    <2> QED
      BY <1>3, <2>1, <2>2
  <1>5. ASSUME NEW j \in Ids PROVE Paid(j)' /\ OnMatch(j)' /\ TerminalJob(j)'
    <2>1. Outstanding(j)' => Outstanding(j)
      BY <1>1, <1>3, <1>4 DEF Outstanding, Scheduled, Delivering
    <2> QED
      BY <1>1, <1>2, <1>4, <2>1, InvFacts, TouchedJob
  <1>6. ASSUME NEW q \in runs' PROVE TerminalRun(q)' /\ DueProbe(q)'
    <2>1. q.job \in Ids
      BY <1>2, <1>3, InvFacts
    <2>2. /\ SameJob(job[q.job], job'[q.job])
          /\ job'[q.job].nextFire = job[q.job].nextFire
          /\ job'[q.job].attempts = job[q.job].attempts
      BY <1>4, <2>1
    <2>3. CASE q \in runs
      <3>1. TerminalRun(q) /\ DueProbe(q)
        BY <2>3, InvFacts
      <3> QED
        BY <1>1, <2>2, <3>1 DEF TerminalRun, DueProbe, SameJob, Expired, Scheduled
    <2>4. CASE q = new
      <3>1. TerminalRun(r)
        BY InvFacts
      <3> QED
        BY <1>1, <1>3, <2>2, <2>4, <3>1
           DEF TerminalRun, DueProbe, SameJob, Expired, Delivering
    <2> QED
      BY <1>3, <2>3, <2>4
  <1> QED
    BY <1>1, <1>5, <1>6 DEF Books

\* What becomes of the job when the delivery returned: it keeps its schedule,
\* is retried - then its fire was terminal - or is parked.
KeepsSchedule(a, b, o) ==
    /\ b.nextFire = a.nextFire /\ b.attempts = a.attempts /\ b.failure = a.failure
    /\ (b.pending <=> a.pending \/ o = "deferred") /\ o # "unknown"

IsRetried(a, b, r, o) ==
    /\ o = "rejected" /\ r.followUp = None
    /\ b.attempts > 0 /\ b.failure = a.failure

IsParked(a, b, o) ==
    /\ b.nextFire = None /\ b.attempts > 0 /\ b.failure # None
    /\ (b.pending <=> a.pending) /\ o \in {"rejected", "unknown"}

LEMMA AfterDeliveryCases ==
    ASSUME now \in Nat, NEW a \in Job, NEW r, NEW b, NEW o \in {"delivered", "deferred", "rejected", "unknown"},
           b = AfterDelivery(r, a, o)
    PROVE  /\ b \in Job /\ SameJob(a, b)
           /\ KeepsSchedule(a, b, o) \/ IsRetried(a, b, r, o) \/ IsParked(a, b, o)
  <1> USE DEF KeepsSchedule, IsRetried, IsParked
  <1>0. a.attempts \in Nat /\ SameJob(a, b)
    BY AfterDeliveryIsSame DEF Job
  <1>1. CASE o = "deferred"
    <2>0. b = [a EXCEPT !.pending = TRUE, !.messageID = FALSE]
      BY <1>1 DEF AfterDelivery, MayRetry
    <2>1. b \in Job
      BY <2>0 DEF Job
    <2>2. /\ b.nextFire = a.nextFire /\ b.attempts = a.attempts /\ b.failure = a.failure
          /\ b.pending
      BY <2>0 DEF Job
    <2> QED
      BY <1>0, <1>1, <2>1, <2>2
  <1>2. CASE o = "delivered" /\ r.followUp = None
    <2>0. b = a
      BY <1>2 DEF AfterDelivery, MayRetry
    <2> QED
      BY <1>0, <1>2, <2>0
  <1>3. CASE o \in {"delivered", "rejected"} /\ r.followUp # None
    <2>0. b = [a EXCEPT !.messageID = FALSE]
      BY <1>3 DEF AfterDelivery, MayRetry
    <2>1. b \in Job
      BY <2>0 DEF Job
    <2>2. /\ b.nextFire = a.nextFire /\ b.attempts = a.attempts /\ b.failure = a.failure
          /\ (b.pending <=> a.pending)
      BY <2>0 DEF Job
    <2> QED
      BY <1>0, <1>3, <2>1, <2>2
  <1>4. CASE o = "rejected" /\ r.followUp = None /\ MayRetry(o, a)
    <2>0. b = Retried(a)
      BY <1>4 DEF AfterDelivery, MayRetry
    <2> QED
      BY <1>0, <1>4, <2>0, RetriedFacts
  <1>5. CASE \/ o = "rejected" /\ r.followUp = None /\ ~MayRetry(o, a)
             \/ o = "unknown"
    <2>0. b = Parked(a, o)
      BY <1>5 DEF AfterDelivery, MayRetry
    <2> QED
      BY <1>0, <1>5, <2>0, ParkedFacts
  <1> QED
    BY <1>1, <1>2, <1>3, <1>4, <1>5

LEMMA DeliverReturnsBooks ==
    ASSUME IInv, Books, NEW r \in runs,
           NEW o \in {"delivered", "deferred", "rejected", "unknown"},
           NEW accepted \in 0..1, DeliverReturns(r, o, accepted)
    PROVE  Books'
  <1>1. /\ UNCHANGED <<now, seq>> /\ Ids' = Ids
        /\ landed' = [landed EXCEPT ![r.job] = @ + accepted]
        /\ <<o, accepted>> \in Outcomes(r.phase)
    BY DEF DeliverReturns, Ids
  <1>2. /\ r \in Run /\ r.job \in Ids /\ job \in [Ids -> Job] /\ now \in Nat
        /\ \A q \in runs : q.job = r.job => q = r
        /\ \A j \in Ids : /\ job[j] \in Job /\ landed[j] \in Nat
                         /\ Paid(j) /\ OnMatch(j) /\ TerminalJob(j)
        /\ TerminalRun(r)
    BY InvFacts DEF IInv, TypeOK
  <1>3. PICK new : /\ runs' = (runs \ {r}) \cup {new}
                   /\ new.job = r.job /\ new.phase = "done"
    <2>1. [r EXCEPT !.phase = "done"].job = r.job /\ [r EXCEPT !.phase = "done"].phase = "done"
      BY <1>2 DEF Run
    <2> QED
      BY <2>1 DEF DeliverReturns
  <1>4. /\ r.phase \in Delivering
        /\ accepted = 1 => o \in {"delivered", "unknown"}
    BY <1>1 DEF Outcomes, Delivering
  <1>5. /\ landed'[r.job] = landed[r.job] + accepted
        /\ \A j \in Ids : j # r.job => landed'[j] = landed[j]
    BY <1>1, <1>2, InvFacts DEF IInv, TypeOK
  <1>6. /\ jobs' \subseteq jobs
        /\ \A j \in Ids : j # r.job => job'[j] = job[j]
        /\ r.job \notin jobs => job' = job
        /\ r.job \in jobs /\ o = "delivered" /\ r.followUp = None => r.job \notin jobs'
    BY <1>2 DEF DeliverReturns
  <1>7. Outstanding(r.job)
    BY <1>4 DEF Outstanding
  <1>8. PICK id : id = r.job
    OBVIOUS
  <1>9. Paid(id)' /\ OnMatch(id)' /\ TerminalJob(id)'
    <2> DEFINE a == job[id]
               b == job'[id]
    <2>1. /\ Paid(id) /\ OnMatch(id) /\ TerminalJob(id) /\ Outstanding(id)
          /\ a \in Job /\ landed[id] \in Nat
          /\ landed'[id] = landed[id] + accepted
          /\ landed'[id] \in {landed[id], landed[id] + 1}
          /\ accepted = 0 => landed'[id] = landed[id]
      BY <1>2, <1>5, <1>7, <1>8
    <2>2. \A q \in runs' : q.job = id => q.phase = "done"
      BY <1>2, <1>3, <1>8
    <2>3. CASE id \notin jobs
      <3>1. ~Outstanding(id)'
        BY <1>6, <2>2, <2>3 DEF Outstanding, Delivering
      <3>2. /\ b = a /\ SameJob(a, b) /\ now' = now /\ b \in Job
            /\ id \in jobs' => id \in jobs
        BY <1>1, <1>6, <1>8, <2>1, <2>3 DEF SameJob
      <3> QED
        BY <1>2, <2>1, <3>1, <3>2, TouchedJob
    <2>4. CASE id \in jobs
      <3>1. /\ ~a.pending /\ a.nextFire = r.followUp /\ a.failure = None
        BY <1>4, <1>8, <2>4 DEF IInv, DeliveringIsAdvanced, ParkedIsInert, Delivering
      <3>2. b = AfterDelivery(r, a, o)
        <4>1. job' = [job EXCEPT ![r.job] = AfterDelivery(r, @, o)]
          BY <1>8, <2>4 DEF DeliverReturns
        <4> QED
          BY <1>2, <1>8, <4>1
      <3> HIDE DEF a, b
      <3>3. b \in Job /\ SameJob(a, b)
        BY <1>2, <2>1, <3>2, AfterDeliveryCases
      <3>7. KeepsSchedule(a, b, o) \/ IsRetried(a, b, r, o) \/ IsParked(a, b, o)
        BY <1>2, <2>1, <3>2, AfterDeliveryCases
      <3> USE DEF a, b
      <3>4. a.recurring => /\ r.followUp = None => Expired(a)
                           /\ a.attempts > 0 => r.followUp = None
        BY <1>2, <1>4, <1>8, <2>4 DEF TerminalRun
      <3>5. CASE KeepsSchedule(a, b, o)
        <4> USE DEF KeepsSchedule
        <4>1. CASE ~a.recurring
          BY <3>3, <4>1 DEF Paid, OnMatch, TerminalJob, SameJob
        <4>2. CASE a.recurring /\ accepted = 0
          <5>1. landed'[id] = landed[id] /\ now' = now /\ (id \in jobs' => id \in jobs)
            BY <1>1, <1>6, <2>1, <4>2
          <5> QED
            BY <1>2, <2>1, <3>3, <3>5, <5>1, TouchedJob
        <4>3. CASE a.recurring /\ accepted = 1
          <5>1. o = "delivered"
            BY <1>4, <3>5, <4>3
          <5>2. ~Outstanding(id)'
            <6>1. id \in jobs' => r.followUp # None
              BY <1>6, <1>8, <2>4, <5>1, Zenon
            <6>2. id \in jobs' => ~(a.attempts > 0)
              BY <3>4, <4>3, <6>1
            <6>3. ~b.pending
              BY <3>1, <3>5, <5>1
            <6> QED
              BY <2>2, <3>5, <6>2, <6>3 DEF Outstanding, Delivering
          <5>3. now' = now /\ (id \in jobs' => id \in jobs)
            BY <1>1, <1>6
          <5> QED
            BY <1>2, <2>1, <3>3, <3>5, <5>2, <5>3, TouchedJob
        <4> QED
          BY <4>1, <4>2, <4>3
      <3>6. CASE IsRetried(a, b, r, o) \/ IsParked(a, b, o)
        <4> USE DEF IsRetried, IsParked
        <4>2. b.attempts > 0 /\ b.attempts # 0
          BY <3>3, <3>6 DEF Job
        <4>3. OnMatch(id)'
          <5>1. now' = now
            BY <1>1
          <5> QED
            BY <2>1, <3>3, <4>2, <5>1 DEF OnMatch, SameJob
        <4>4. TerminalJob(id)'
          BY <1>1, <3>1, <3>3, <3>4, <3>6 DEF TerminalJob, SameJob, Expired
        <4>5. Paid(id)'
          <5> SUFFICES ASSUME b.recurring
                       PROVE  /\ landed'[id] <= Cardinality(UsedUp(job[id])')
                              /\ Outstanding(id)' => landed'[id] + 1 <= Cardinality(UsedUp(job[id])')
            BY DEF Paid
          <5>1. UsedUp(job[id])' = UsedBy(b, now)
            BY <1>1 DEF UsedUp, UsedBy, FireInstants
          <5>2. a.recurring /\ UsedUp(a) = UsedBy(a, now)
            BY <3>3, UsedUpIsUsedBy DEF SameJob
          <5>3. landed[id] + 1 <= Cardinality(UsedBy(a, now))
            BY <2>1, <5>2 DEF Paid
          <5>4. Cardinality(UsedBy(a, now)) <= Cardinality(UsedBy(b, now))
            BY <1>2, <2>1, <3>3, <4>2, UsedByGrows DEF Spent
          <5>5. Cardinality(UsedBy(a, now)) \in Nat /\ Cardinality(UsedBy(b, now)) \in Nat
            BY <1>2, UsedByFinite
          <5>6. accepted = 1 => ~Outstanding(id)'
            <6> SUFFICES ASSUME accepted = 1 PROVE ~Outstanding(id)'
              OBVIOUS
            <6>1. b.nextFire = None /\ ~b.pending
              BY <1>4, <3>1, <3>6
            <6> QED
              BY <2>2, <6>1 DEF Outstanding, Scheduled, Delivering
          <5>7. accepted = 0 \/ accepted = 1
            OBVIOUS
          <5> QED
            BY <2>1, <5>1, <5>3, <5>4, <5>5, <5>6, <5>7
        <4> QED
          BY <4>3, <4>4, <4>5
      <3> QED
        BY <3>5, <3>6, <3>7
    <2> QED
      BY <2>3, <2>4
  <1>10. ASSUME NEW j \in Ids, j # id PROVE Paid(j)' /\ OnMatch(j)' /\ TerminalJob(j)'
    <2>1. job'[j] = job[j] /\ landed'[j] = landed[j] /\ (j \in jobs' => j \in jobs)
      BY <1>5, <1>6, <1>8, <1>10
    <2>2. Outstanding(j)' => Outstanding(j)
      BY <1>3, <1>6, <2>1 DEF Outstanding, Scheduled, Delivering
    <2> QED
      BY <1>1, <1>2, <2>1, <2>2, FrameJob
  <1>11. ASSUME NEW q \in runs' PROVE TerminalRun(q)' /\ DueProbe(q)'
    <2>1. CASE q = new
      BY <1>3, <2>1 DEF TerminalRun, DueProbe, Delivering
    <2>2. CASE q \in runs \ {r}
      <3>1. q.job \in Ids /\ q.job # r.job /\ TerminalRun(q) /\ DueProbe(q)
        BY <1>2, <2>2, InvFacts
      <3>2. job'[q.job] = job[q.job] /\ (q.job \in jobs' => q.job \in jobs)
        BY <1>6, <3>1
      <3> QED
        BY <1>1, <1>2, <3>1, <3>2, FrameRun
    <2> QED
      BY <1>3, <2>1, <2>2
  <1> QED
    BY <1>1, <1>9, <1>10, <1>11 DEF Books

LEMMA FinishBooks ==
    ASSUME IInv, Books, NEW r \in runs, Finish(r)
    PROVE  Books'
  <1>1. /\ UNCHANGED <<now, seq, jobs, landed>> /\ Ids' = Ids
    BY DEF Finish, Ids
  <1>2. /\ r \in Run /\ r.job \in Ids /\ job \in [Ids -> Job] /\ now \in Nat
        /\ \A q \in runs : q.job = r.job => q = r
        /\ \A j \in Ids : /\ job[j] \in Job /\ landed[j] \in Nat
                         /\ Paid(j) /\ OnMatch(j) /\ TerminalJob(j)
    BY InvFacts DEF IInv, TypeOK
  <1>3. CASE ~Raced(r.job)
    <2>1. runs' \subseteq runs /\ job' = job
      BY <1>3 DEF Finish
    <2> QED
      BY <1>1, <1>2, <2>1, QuietBooks
  <1>4. CASE Raced(r.job)
    <2>1. PICK run : /\ runs' = (runs \ {r}) \cup {run}
                     /\ run.job = r.job /\ run.phase = "deliver"
                     /\ run.followUp = FollowUp(job[r.job])
      <3> DEFINE run == DeliveryRun(r.job, job[r.job], idleEpochs[job[r.job].session])
      <3>1. run.job = r.job /\ run.phase = "deliver" /\ run.followUp = FollowUp(job[r.job])
        BY DEF DeliveryRun
      <3>2. runs' = (runs \ {r}) \cup {run}
        BY <1>4 DEF Finish
      <3> QED
        BY <3>1, <3>2
    <2>2. PICK id : id = r.job
      OBVIOUS
    <2>3. /\ id \in jobs /\ id \in Ids /\ job[id].pending
          /\ job'[id] = Advanced(job[id])
          /\ \A j \in Ids : j # id => job'[j] = job[j]
      BY <1>2, <1>4, <2>2 DEF Finish, Raced
    <2>4. job[id].failure = None
      BY <2>3 DEF IInv, ParkedIsInert
    <2>5. now' = now /\ landed'[id] = landed[id]
      BY <1>1
    <2>6. Paid(id)' /\ OnMatch(id)' /\ TerminalJob(id)'
      BY <1>2, <2>3, <2>4, <2>5, RescheduledBooks
    <2>7. ASSUME NEW j \in Ids, j # id PROVE Paid(j)' /\ OnMatch(j)' /\ TerminalJob(j)'
      <3>1. job'[j] = job[j] /\ landed'[j] = landed[j] /\ (j \in jobs' => j \in jobs)
        BY <1>1, <2>3, <2>7
      <3>2. Outstanding(j)' => Outstanding(j)
        BY <1>1, <2>1, <2>2, <2>7, <3>1 DEF Outstanding, Scheduled, Delivering
      <3> QED
        BY <1>1, <1>2, <3>1, <3>2, FrameJob
    <2>8. ASSUME NEW q \in runs' PROVE TerminalRun(q)' /\ DueProbe(q)'
      <3>1. CASE q = run
        BY <1>2, <2>1, <2>2, <2>3, <2>4, <2>5, <3>1, AdvancedRun
      <3>2. CASE q \in runs \ {r}
        <4>1. q.job \in Ids /\ q.job # id /\ TerminalRun(q) /\ DueProbe(q)
          BY <1>2, <2>2, <3>2, InvFacts
        <4>2. job'[q.job] = job[q.job] /\ (q.job \in jobs' => q.job \in jobs)
          BY <1>1, <2>3, <4>1
        <4> QED
          BY <1>1, <1>2, <4>1, <4>2, FrameRun
      <3> QED
        BY <2>1, <3>1, <3>2
    <2> QED
      BY <1>1, <2>6, <2>7, <2>8 DEF Books
  <1> QED
    BY <1>3, <1>4

LEMMA SessionIdleBooks ==
    ASSUME IInv, Books, NEW s \in Sessions, SessionIdle(s)
    PROVE  Books'
  <1> DEFINE F == Flushed(s)
             epoch == idleEpochs'[s]
  <1>1. /\ UNCHANGED <<now, seq, jobs, landed>> /\ Ids' = Ids
        /\ runs' = runs \cup {DeliveryRun(j, job[j], epoch) : j \in F}
        /\ job' = [j \in Ids |-> IF j \in F THEN Advanced(job[j]) ELSE job[j]]
    BY DEF SessionIdle, Ids
  <1>2. /\ F \subseteq jobs /\ F \cap firing = {} /\ \A j \in F : job[j].pending
    BY DEF Flushed, OwnedBy
  <1>3. \A j \in F : /\ DeliveryRun(j, job[j], epoch).job = j
                     /\ DeliveryRun(j, job[j], epoch).phase = "deliver"
                     /\ DeliveryRun(j, job[j], epoch).followUp = FollowUp(job[j])
    BY DEF DeliveryRun
  <1> HIDE DEF F, epoch
  <1>4. /\ now \in Nat /\ jobs \subseteq Ids
        /\ \A j \in Ids : /\ job[j] \in Job /\ landed[j] \in Nat
                         /\ Paid(j) /\ OnMatch(j) /\ TerminalJob(j)
    BY InvFacts
  <1>5. \A j \in F : job[j].failure = None
    BY <1>2 DEF IInv, ParkedIsInert
  <1>6. ASSUME NEW j \in Ids PROVE Paid(j)' /\ OnMatch(j)' /\ TerminalJob(j)'
    <2>1. now' = now /\ landed'[j] = landed[j] /\ (j \in jobs' => j \in jobs)
      BY <1>1
    <2>2. CASE j \in F
      <3>1. job'[j] = Advanced(job[j]) /\ job[j].pending /\ job[j].failure = None /\ j \in jobs
        BY <1>1, <1>2, <1>5, <2>2
      <3> QED
        BY <1>4, <2>1, <3>1, RescheduledBooks
    <2>3. CASE j \notin F
      <3>1. job'[j] = job[j]
        BY <1>1, <2>3
      <3>2. Outstanding(j)' => Outstanding(j)
        BY <1>1, <1>3, <2>3, <3>1 DEF Outstanding, Scheduled, Delivering
      <3> QED
        BY <1>1, <1>4, <2>1, <3>1, <3>2, FrameJob
    <2> QED
      BY <2>2, <2>3
  <1>7. ASSUME NEW q \in runs' PROVE TerminalRun(q)' /\ DueProbe(q)'
    <2>1. CASE q \in runs
      <3>1. /\ q.job \in Ids /\ q.job \in firing /\ TerminalRun(q) /\ DueProbe(q)
        BY <2>1, InvFacts, RunFacts
      <3>2. job'[q.job] = job[q.job] /\ (q.job \in jobs' => q.job \in jobs)
        BY <1>1, <1>2, <3>1
      <3> QED
        BY <1>1, <1>4, <3>1, <3>2, FrameRun
    <2>2. CASE \E j \in F : q = DeliveryRun(j, job[j], epoch)
      <3>1. PICK j \in F : q = DeliveryRun(j, job[j], epoch)
        BY <2>2
      <3>2. /\ q.job = j /\ q.phase = "deliver" /\ q.followUp = FollowUp(job[j])
            /\ j \in jobs /\ j \in Ids /\ job[j].failure = None
            /\ job'[j] = Advanced(job[j]) /\ now' = now
        BY <1>1, <1>2, <1>3, <1>4, <1>5, <3>1
      <3> QED
        BY <1>4, <3>2, AdvancedRun
    <2> QED
      BY <1>1, <2>1, <2>2
  <1> QED
    BY <1>1, <1>6, <1>7 DEF Books

LEMMA NextBooks == IInv /\ Books /\ [Next]_vars => Books'
  <1> SUFFICES ASSUME IInv, Books, [Next]_vars PROVE Books'
    OBVIOUS
  <1>0. now \in Nat
    BY DEF IInv, TypeOK
  <1>1. CASE Advance \/ UNCHANGED vars
    <2>1. /\ now' \in Nat /\ now <= now' /\ UNCHANGED <<seq, job, landed>>
          /\ runs' \subseteq runs /\ jobs' \subseteq jobs
      BY <1>0, <1>1 DEF Advance, vars
    <2> QED
      BY <2>1, QuietBooks
  <1>2. CASE \E s \in Sessions, c \in Crons, recurring \in BOOLEAN,
               jitter \in 0..(JitterSteps - 1) : Create(s, c, recurring, jitter)
    <2>1. 0..(JitterSteps - 1) \subseteq Nat
      BY TimeAssumption
    <2> QED
      BY <1>2, <2>1, CreateBooks
  <1>3. CASE (\E j \in jobs : Remove(j)) \/ (\E s \in Sessions : DropSession(s)) \/ Dispose
    <2>1. /\ now' = now /\ UNCHANGED <<seq, job, landed>>
          /\ runs' \subseteq runs /\ jobs' \subseteq jobs
      BY <1>3 DEF Remove, DropSession, Dispose
    <2> QED
      BY <1>0, <2>1, QuietBooks
  <1>4. CASE TimerFires
    BY <1>4, TimerFiresBooks
  <1>5. CASE \E r \in runs : RunStep(r)
    <2>1. PICK r \in runs : RunStep(r)
      BY <1>5
    <2>2. r.check \in Nat
      BY RunFacts DEF Run
    <2>3. CASE BeginAttempt(r)
      BY <2>3, BeginAttemptBooks
    <2>4. CASE \E o \in {"delivered", "deferred", "rejected", "unknown"}, accepted \in 0..1 :
                  DeliverReturns(r, o, accepted)
      BY <2>4, DeliverReturnsBooks
    <2>5. CASE Finish(r)
      BY <2>5, FinishBooks
    <2>6. CASE \E idle \in BOOLEAN : ProbeAnswers(r.check, idle)
      BY <2>2, <2>6, ProbeAnswersBooks
    <2> QED
      BY <2>1, <2>3, <2>4, <2>5, <2>6 DEF RunStep
  <1>6. CASE \E s \in Sessions : SessionIdle(s)
    BY <1>6, SessionIdleBooks
  <1> QED
    BY <1>1, <1>2, <1>3, <1>4, <1>5, <1>6 DEF Next

\* The scheduler's invariant with its accounts, whatever is raced, refused,
\* held, retried or answered ambiguously.
THEOREM SchedulerInvHolds == Spec => []SchedulerInv
  <1>1. Init => Books
    BY SchedulerAssumption DEF Init, Books, Ids
  <1>2. Spec => [](IInv /\ Books)
    BY <1>1, InitEstablishes, NextPreserves, NextBooks, PTL DEF Spec
  <1>3. IInv /\ Books => SchedulerInv
    BY AccountsAreBooks DEF SchedulerInv, IInv, TypeOK
  <1> QED
    BY <1>2, <1>3, PTL

\* No fire is delivered twice: the host never accepts more prompts for a
\* recurring job than matches have elapsed, nor more than one for a one-shot.
THEOREM NoFireTwiceHolds == Spec => []NoFireTwice
  <1>1. SchedulerInv => NoFireTwice
    <2> SUFFICES ASSUME SchedulerInv, NEW j \in Ids
                 PROVE  landed[j] <= Cardinality(FireInstants(job[j]))
      BY DEF SchedulerInv, IInv, NoFireTwice, AtMostOncePerFire
    <2>1. landed[j] \in Nat /\ now \in Nat
      BY IdsInRange DEF SchedulerInv, IInv, TypeOK
    <2>2. CASE job[j].recurring
      <3>1. landed[j] <= Cardinality(UsedUp(job[j]))
        BY <2>2 DEF SchedulerInv, Accounts, FiresAreAccounted
      <3>2. UsedUp(job[j]) \subseteq FireInstants(job[j]) /\ FireInstants(job[j]) \subseteq 1..now
        BY <2>2 DEF UsedUp, FireInstants
      <3>3. IsFiniteSet(FireInstants(job[j])) /\ IsFiniteSet(UsedUp(job[j]))
        <4>1. IsFiniteSet(1..now)
          BY <2>1, FS_Interval
        <4>2. IsFiniteSet(FireInstants(job[j]))
          BY <3>2, <4>1, FS_Subset
        <4> QED
          BY <3>2, <4>2, FS_Subset
      <3>4. Cardinality(UsedUp(job[j])) <= Cardinality(FireInstants(job[j]))
        BY <3>2, <3>3, FS_Subset
      <3> QED
        BY <2>1, <3>1, <3>3, <3>4, FS_CardinalityType
    <2>3. CASE ~job[j].recurring
      <3>1. FireInstants(job[j]) = {0}
        BY <2>3 DEF FireInstants
      <3>2. Cardinality({0}) = 1
        BY FS_Singleton
      <3>3. landed[j] <= 1
        BY <2>1, <2>3 DEF SchedulerInv, IInv, OneShotAtMostOnce
      <3> QED
        BY <3>1, <3>2, <3>3
    <2> QED
      BY <2>2, <2>3
  <1> QED
    BY <1>1, SchedulerInvHolds, PTL
=============================================================================
