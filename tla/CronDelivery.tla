---------------------------- MODULE CronDelivery ----------------------------
(***************************************************************************)
(* How the cron plugin delivers the fires of one session                   *)
(* (plugins/cron/src/plugin.ts, with the session activity tracker of       *)
(* libraries/permission-rules/src/async.ts): a serial lane per session,    *)
(* two idle checks around the identity read, the dispatch, the search for  *)
(* the stored message, and the awaiting-idle mark that keeps the next fire *)
(* back until the turn the first one started has ended.                    *)
(*                                                                         *)
(* The scheduler above it is CronScheduler; here it may call a delivery    *)
(* and remove a job at any time.  The host below it is external, modelled  *)
(* after the contract the tracker's header comment states: it publishes a  *)
(* status change to the plugin before it changes its own map, an idle one  *)
(* twice (session.status, then the legacy session.idle), and it answers a  *)
(* prompt before the forked work has stored the message.                   *)
(***************************************************************************)
EXTENDS Integers, Sequences, FiniteSets

CONSTANTS
    Jobs,            \* the cron jobs of the session
    MaxCalls,        \* bound on the deliveries of the whole run
    MaxTurns,        \* bound on the turns the host runs
    MaxProbes        \* bound on the watchdog reads in flight at a time

ASSUME DeliveryAssumption ==
    /\ IsFiniteSet(Jobs)
    /\ MaxCalls \in Nat
    /\ MaxTurns \in Nat
    /\ MaxProbes \in Nat \ {0}

VARIABLES
    \* the delivery layer
    lane,        \* deliveries of the session, in order; the head is running
    at,          \* where the delivery of a job stands
    epochAt,     \* idleEpochs when it was dispatched
    answer,      \* what its last delivery returned
    removed,     \* jobs that left the scheduler
    mark,        \* awaitingIdle: "none", or the watchdog "off" or "armed"
    probes,      \* watchdog reads in flight: undisturbed, overtaken by an event,
                 \* or started for a mark that is gone
    idleEpoch,   \* idleEpochs of the session
    suppress,    \* the session is in suppressLegacyIdle
    observed,    \* the tracker's record of the session
    closed,      \* "no", or the session is "gone", or the plugin "disposed"
    \* the host
    map,         \* GET /session/status: "busy" while a turn runs
    publishing,  \* what is left of an idle transition
    msg,         \* the last prompt of a job at the host
    msgId,       \* the ID it was dispatched under (its rank in minting order)
    stored,      \* the stored cron prompts, in storage order
    \* bounds and auxiliary state
    calls, turns,
    shown,       \* auxiliary: jobs since whose dispatch the session was seen idle
    open         \* auxiliary: a prompt was delivered and is not in shown

delivery == <<lane, at, epochAt, answer, removed>>
activity == <<mark, probes, idleEpoch, suppress, observed, closed, shown, open>>
prompts == <<msg, msgId, stored>>
host == <<map, publishing>>
bounds == <<calls, turns>>
vars == <<delivery, activity, prompts, host, bounds>>

Places == {"none", "queued", "idle1", "identity", "idle2", "sending", "confirming"}
ProbeKinds == {"clean", "overtaken", "stale"}
NoProbes == [kind \in ProbeKinds |-> 0]
Current == probes["clean"] + probes["overtaken"]

Init ==
    /\ lane = <<>>
    /\ at = [j \in Jobs |-> "none"]
    /\ epochAt = [j \in Jobs |-> 0]
    /\ answer = [j \in Jobs |-> "none"]
    /\ removed = {}
    /\ mark = "none"
    /\ probes = NoProbes
    /\ idleEpoch = 0
    /\ suppress = FALSE
    /\ observed = "unseen"
    /\ closed = "no"
    /\ map = "idle"
    /\ publishing = <<>>
    /\ msg = [j \in Jobs |-> "none"]
    /\ msgId = [j \in Jobs |-> 0]
    /\ stored = <<>>
    /\ calls = 0
    /\ turns = 0
    /\ shown = Jobs
    /\ open = FALSE

-----------------------------------------------------------------------------
(* The scheduler's side.                                                   *)

Call(j) ==
    /\ calls < MaxCalls
    /\ j \notin removed
    /\ at[j] = "none"
    /\ answer[j] # "unknown"
    /\ calls' = calls + 1
    /\ lane' = Append(lane, j)
    /\ at' = [at EXCEPT ![j] = "queued"]
    /\ UNCHANGED <<epochAt, answer, removed, activity, prompts, host, turns>>

Remove(j) ==
    /\ j \notin removed
    /\ removed' = removed \cup {j}
    /\ UNCHANGED <<lane, at, epochAt, answer, activity, prompts, host, bounds>>

-----------------------------------------------------------------------------
(* One delivery.                                                           *)

Running(j, place) == at[j] = place /\ lane # <<>> /\ Head(lane) = j

\* deliverOne returned: the lane goes on to the next delivery.
Returns(j, outcome) ==
    /\ lane' = Tail(lane)
    /\ at' = [at EXCEPT ![j] = "none"]
    /\ answer' = [answer EXCEPT ![j] = outcome]

Moves(j, place) ==
    /\ at' = [at EXCEPT ![j] = place]
    /\ UNCHANGED <<lane, answer>>

\* scheduleAwaitingIdleRecheck: one timer per mark.
Watched == IF mark = "off" THEN "armed" ELSE mark

HeldBack == mark # "none"

\* deliverOne up to its first await: an earlier prompt's turn holds it back, or
\* the tracker answers from what it observed, or the host is asked.
Start(j) ==
    /\ Running(j, "queued")
    /\ IF HeldBack
       THEN mark' = Watched /\ Returns(j, "deferred")
       ELSE /\ UNCHANGED mark
            /\ CASE observed = "busy"   -> Returns(j, "deferred")
                 [] observed = "idle"   -> Moves(j, "identity")
                 [] observed = "unseen" -> Moves(j, "idle1")
    /\ UNCHANGED <<epochAt, removed, probes, idleEpoch, suppress, observed, closed,
                   shown, open, prompts, host, bounds>>

\* The endpoint's answer to an unforced isIdle: an event that arrived during
\* the request beats it, and so it does when the request fails.
StatusRead(idle) ==
    IF observed # "unseen"
    THEN idle = (observed = "idle")
    ELSE idle => map = "idle" /\ closed # "disposed"

FirstIdleCheck(j) ==
    /\ Running(j, "idle1")
    /\ \E idle \in BOOLEAN :
          /\ StatusRead(idle)
          /\ IF idle THEN Moves(j, "identity") ELSE Returns(j, "deferred")
    /\ UNCHANGED <<epochAt, removed, activity, prompts, host, bounds>>

NextId == 1 + IF \A j \in Jobs : msgId[j] = 0 THEN 0
              ELSE CHOOSE n \in {msgId[j] : j \in Jobs} : \A j \in Jobs : msgId[j] <= n

\* beginAttempt and the prompt request, or neither for a removed job.
Dispatch(j) ==
    IF j \in removed
    THEN /\ Returns(j, "rejected")
         /\ UNCHANGED <<epochAt, shown, prompts>>
    ELSE /\ Moves(j, "sending")
         /\ epochAt' = [epochAt EXCEPT ![j] = idleEpoch]
         /\ shown' = shown \ {j}
         /\ msg' = [msg EXCEPT ![j] = "inflight"]
         /\ msgId' = [msgId EXCEPT ![j] = NextId]
         /\ UNCHANGED stored

\* The identity read, then the second idle check when it needs no request.
Undispatched == UNCHANGED <<epochAt, shown, prompts>>

IdentityRead(j) ==
    /\ Running(j, "identity")
    /\ \/ Returns(j, "rejected") /\ Undispatched
       \/ /\ closed # "disposed"
          /\ CASE observed = "busy"   -> Returns(j, "deferred") /\ Undispatched
               [] observed = "idle"   -> Dispatch(j)
               [] observed = "unseen" -> Moves(j, "idle2") /\ Undispatched
    /\ UNCHANGED <<removed, mark, probes, idleEpoch, suppress, observed, closed,
                   open, host, bounds>>

SecondIdleCheck(j) ==
    /\ Running(j, "idle2")
    /\ \E idle \in BOOLEAN :
          /\ StatusRead(idle)
          /\ IF idle THEN Dispatch(j) ELSE Returns(j, "deferred") /\ Undispatched
    /\ UNCHANGED <<removed, mark, probes, idleEpoch, suppress, observed, closed,
                   open, host, bounds>>

\* Mutant of AfterFailure: a transport failure taken for a refusal.
MutAfterFailure(j) == Returns(j, "rejected")

\* The request may have reached the host: look for the message.
AfterFailure(j) == Moves(j, "confirming")

PromptReturns(j) ==
    /\ Running(j, "sending")
    /\ \/ AfterFailure(j)
       \/ msg[j] = "refused" /\ closed # "disposed" /\ Returns(j, "rejected")
       \/ msg[j] \in {"forked", "stored", "dead"} /\ Moves(j, "confirming")
    /\ UNCHANGED <<epochAt, removed, activity, prompts, host, bounds>>

\* clearAwaitingIdle, then the mark or none: a read in flight is now stale.
NewMark(m) ==
    /\ mark' = m
    /\ probes' = [NoProbes EXCEPT !["stale"] = Current + probes["stale"]]

ClearMark == NewMark("none")

NoIdleSince(j) == idleEpoch = epochAt[j]

\* confirmEnqueued found the message; recordTurn marks the session unless its
\* next idle transition has already been seen.
Confirmed(j) ==
    /\ Running(j, "confirming")
    /\ msg[j] = "stored"
    /\ closed # "disposed"
    /\ Returns(j, "delivered")
    /\ IF NoIdleSince(j)
       THEN NewMark("off")
       ELSE UNCHANGED <<mark, probes>>
    /\ open' = (j \notin shown)
    /\ UNCHANGED <<epochAt, removed, idleEpoch, suppress, observed, closed, shown,
                   prompts, host, bounds>>

\* The lookups found nothing, failed, or were cut short by disposal.
GivesUp(j) ==
    /\ Running(j, "confirming")
    /\ Returns(j, "unknown")
    /\ UNCHANGED <<epochAt, removed, activity, prompts, host, bounds>>

-----------------------------------------------------------------------------
(* The watchdog of a mark that holds a delivery back.                      *)

\* The timer fires: isIdle with refresh asks the host again, unless the
\* session is known to be busy; then the timer is armed anew.
WatchdogFires ==
    /\ mark = "armed"
    /\ observed # "busy"
    /\ Current + probes["stale"] < MaxProbes
    /\ mark' = "off"
    /\ probes' = [probes EXCEPT !["clean"] = @ + 1]
    /\ UNCHANGED <<delivery, idleEpoch, suppress, observed, closed, shown, open,
                   prompts, host, bounds>>

\* The session was seen to be idle, in whatever way.
Idle(seen) ==
    /\ shown' = IF seen THEN Jobs ELSE shown
    /\ open' = (open /\ ~seen)

\* Mutant of Rearmed: a busy answer ends the watch.
MutRearmed == mark

Rearmed == Watched

\* The read was started for the mark the session still has.
OwnMark(kind) == kind # "stale"

WatchdogSees(kind, idle) ==
    LET finished == [probes EXCEPT ![kind] = @ - 1]
    IN  /\ probes[kind] > 0
        /\ CASE ~OwnMark(kind) ->
                   probes' = finished /\ UNCHANGED <<mark, idleEpoch>>
             [] OwnMark(kind) /\ ~idle ->
                   probes' = finished /\ mark' = Rearmed /\ UNCHANGED idleEpoch
             [] OwnMark(kind) /\ idle ->
                   /\ mark' = "none"
                   /\ probes' = [NoProbes EXCEPT !["stale"] = Current + probes["stale"] - 1]
                   /\ idleEpoch' = idleEpoch + 1
        /\ Idle(idle /\ kind # "stale")
        /\ UNCHANGED <<delivery, suppress, observed, closed, prompts, host, bounds>>

\* An answer, unless an event overtook it: the event's record is newer.
WatchdogAnswers ==
    \/ WatchdogSees("clean", map = "idle")
    \/ WatchdogSees("overtaken", observed = "idle")
    \/ \E idle \in BOOLEAN : WatchdogSees("stale", idle)

\* A failed read that no event overtook counts as not idle.
WatchdogFails == WatchdogSees("clean", FALSE)

-----------------------------------------------------------------------------
(* The host, and the plugin's event hook that it calls while publishing.   *)

\* Every record replaces the object a refreshing read compares with.
Overtaken == [probes EXCEPT !["clean"] = 0, !["overtaken"] = Current]

Unobserved == UNCHANGED activity

\* session.status, busy or retry
ObserveBusy ==
    /\ observed' = "busy"
    /\ suppress' = FALSE
    /\ probes' = Overtaken
    /\ UNCHANGED <<mark, idleEpoch, closed, shown, open>>

\* session.status, idle
ObserveIdle ==
    /\ observed' = "idle"
    /\ suppress' = TRUE
    /\ ClearMark
    /\ idleEpoch' = idleEpoch + 1
    /\ Idle(TRUE)
    /\ UNCHANGED closed

\* Mutant of Duplicate: the legacy event always counts as a transition.
MutDuplicate == FALSE

Duplicate == suppress

\* session.idle: ignored as the second half of a transition already seen.
ObserveLegacyIdle(transition) ==
    /\ observed' = "idle"
    /\ suppress' = FALSE
    /\ IF Duplicate
       THEN probes' = Overtaken /\ UNCHANGED <<mark, idleEpoch>>
       ELSE ClearMark /\ idleEpoch' = idleEpoch + 1
    /\ Idle(transition)
    /\ UNCHANGED closed

\* A turn starts, for a stored cron prompt or for the user.
TurnStarts ==
    /\ turns < MaxTurns
    /\ map = "idle"
    /\ publishing = <<>>
    /\ map' = "busy"
    /\ turns' = turns + 1
    /\ IF closed = "disposed" THEN Unobserved ELSE ObserveBusy
    /\ UNCHANGED <<delivery, prompts, publishing, calls>>

\* A turn ends: the transition is published (in both forms, or in one of them)
\* before the map changes.
TurnEnds ==
    /\ map = "busy"
    /\ publishing = <<>>
    /\ publishing' \in {<<"status", "duplicate", "map">>, <<"status", "map">>,
                         <<"legacy", "map">>}
    /\ UNCHANGED <<delivery, activity, prompts, map, bounds>>

PublishStatus ==
    /\ publishing # <<>> /\ Head(publishing) = "status"
    /\ publishing' = Tail(publishing)
    /\ IF closed = "disposed" THEN Unobserved ELSE ObserveIdle
    /\ UNCHANGED <<delivery, prompts, map, bounds>>

PublishLegacy ==
    /\ publishing # <<>> /\ Head(publishing) \in {"legacy", "duplicate"}
    /\ publishing' = Tail(publishing)
    /\ IF closed = "disposed" THEN Unobserved
       ELSE ObserveLegacyIdle(Head(publishing) = "legacy")
    /\ UNCHANGED <<delivery, prompts, map, bounds>>

MapClears ==
    /\ publishing = <<"map">>
    /\ publishing' = <<>>
    /\ map' = "idle"
    /\ UNCHANGED <<delivery, activity, prompts, bounds>>

\* The host receives the prompt request: it validates the session and forks
\* the work, or refuses; either may happen after the client stopped waiting.
HostTakes(j) ==
    /\ msg[j] = "inflight"
    /\ \E next \in {"forked", "refused"} : msg' = [msg EXCEPT ![j] = next]
    /\ UNCHANGED <<delivery, activity, msgId, stored, host, bounds>>

\* The forked work stores the message, or dies before it does.
HostStores(j) ==
    /\ msg[j] = "forked"
    /\ \/ /\ msg' = [msg EXCEPT ![j] = "stored"]
          /\ stored' = Append(stored, [id |-> msgId[j], job |-> j])
       \/ /\ msg' = [msg EXCEPT ![j] = "dead"]
          /\ UNCHANGED stored
    /\ UNCHANGED <<delivery, activity, msgId, host, bounds>>

\* session.deleted, or disposal of the plugin: the session's entries are
\* dropped and the scheduler drops its jobs.
Close ==
    /\ closed = "no"
    /\ closed' \in {"gone", "disposed"}
    /\ removed' = Jobs
    /\ ClearMark
    /\ idleEpoch' = 0
    /\ suppress' = FALSE
    /\ observed' = "unseen"
    /\ Idle(TRUE)
    /\ UNCHANGED <<lane, at, epochAt, answer, prompts, host, bounds>>

-----------------------------------------------------------------------------
DeliveryStep(j) ==
    \/ Start(j)
    \/ FirstIdleCheck(j)
    \/ IdentityRead(j)
    \/ SecondIdleCheck(j)
    \/ PromptReturns(j)
    \/ Confirmed(j)
    \/ GivesUp(j)

Next ==
    \/ \E j \in Jobs : Call(j) \/ Remove(j) \/ DeliveryStep(j)
    \/ WatchdogFires \/ WatchdogAnswers \/ WatchdogFails
    \/ TurnStarts \/ TurnEnds \/ PublishStatus \/ PublishLegacy \/ MapClears
    \/ \E j \in Jobs : HostTakes(j) \/ HostStores(j)
    \/ Close

\* Every await of a delivery has a deadline, an armed timer fires, the host
\* ends its turns, publishes them, and answers the status endpoint again and
\* again.
Fairness ==
    /\ \A j \in Jobs : WF_vars(DeliveryStep(j))
    /\ WF_vars(WatchdogFires)
    /\ SF_vars(WatchdogAnswers)
    /\ WF_vars(TurnEnds)
    /\ WF_vars(PublishStatus \/ PublishLegacy \/ MapClears)

Spec == Init /\ [][Next]_vars
FairSpec == Spec /\ Fairness

-----------------------------------------------------------------------------
(* Properties.                                                             *)

TypeOK ==
    /\ lane \in Seq(Jobs)
    /\ at \in [Jobs -> Places]
    /\ epochAt \in [Jobs -> Nat]
    /\ answer \in [Jobs -> {"none", "delivered", "deferred", "rejected", "unknown"}]
    /\ removed \subseteq Jobs
    /\ mark \in {"none", "off", "armed"}
    /\ probes \in [ProbeKinds -> 0..MaxProbes]
    /\ idleEpoch \in Nat
    /\ suppress \in BOOLEAN
    /\ observed \in {"unseen", "idle", "busy"}
    /\ closed \in {"no", "gone", "disposed"}
    /\ map \in {"idle", "busy"}
    /\ publishing \in Seq({"status", "legacy", "duplicate", "map"})
    /\ msg \in [Jobs -> {"none", "inflight", "forked", "refused", "stored", "dead"}]
    /\ msgId \in [Jobs -> 0..MaxCalls]
    /\ stored \in Seq([id : 1..MaxCalls, job : Jobs])
    /\ calls \in 0..MaxCalls
    /\ turns \in 0..MaxTurns
    /\ shown \subseteq Jobs
    /\ open \in BOOLEAN

\* Prompt submission and confirmation are serial: one delivery of the session
\* is past the queue, and it is the head of the lane.
LaneIsSerial ==
    \A j \in Jobs : at[j] \notin {"none", "queued"} => lane # <<>> /\ Head(lane) = j

\* No prompt is dispatched into the turn an earlier one was delivered for: the
\* session was seen idle in between - by an idle transition that began after
\* the earlier dispatch, or by a watchdog read - whatever duplicates, races
\* and re-reads happened.
TurnsSeparated == \A j \in Jobs : at[j] = "sending" => ~open

\* A prompt that is stored behind a later-minted one was reported unknown: no
\* confirmed delivery is ever out of order.
OutOfOrderIsUnknown ==
    \A i, k \in 1..Len(stored) :
        i < k /\ stored[i].id > stored[k].id =>
            /\ msgId[stored[k].job] = stored[k].id
            /\ answer[stored[k].job] = "unknown"
            /\ at[stored[k].job] = "none"

\* Stated by the comment at the end of deliverOne: the next delivery is not
\* released before the prompt is visible, hence ordered in host storage.  It is
\* not so, see the README.
StoredInOrder ==
    \A i, k \in 1..Len(stored) : i < k => stored[i].id < stored[k].id

\* Stated by the description of cron_create: a fire lands only while the
\* session is idle, never mid-turn.  It is not so, see the README.
NeverMidTurn ==
    [][\A j \in Jobs : msg[j] = "forked" /\ msg'[j] = "stored" => map = "idle"]_vars

\* Where a delivery and its prompt stand, as the scheduler may see them.
Phase ==
    [j \in Jobs |-> CASE at[j] = "none" -> "none"
                      [] at[j] \in {"sending", "confirming"} -> "dispatched"
                      [] OTHER -> "deliver"]
MayLand == {j \in Jobs : msg[j] \in {"inflight", "forked"}}
Hit == {j \in Jobs : msg[j] = "stored"}
Landed == [j \in Jobs |-> Cardinality({i \in 1..Len(stored) : stored[i].job = j})]

\* The deliveries implement the contract the scheduler is written against.
Contract == INSTANCE DeliveryContract WITH
    phase <- Phase, open <- MayLand, hit <- Hit, landed <- Landed

ImplementsContract == Contract!Spec

\* A delivery held back by the mark is not stranded, even when the turn the
\* mark waits for never starts: the mark is eventually lifted.
MarkIsLifted == mark = "armed" \/ (mark = "off" /\ Current > 0) ~> mark = "none"

\* Every delivery returns, and the lane never wedges.
DeliveriesReturn == \A j \in Jobs : at[j] # "none" ~> at[j] = "none"

\* The lane is sound and serial, and prompts come to the host in its order.
LaneKeepsOrder == TypeOK /\ LaneIsSerial /\ TurnsSeparated /\ OutOfOrderIsUnknown

\* Neither a mark nor a host call holds the lane for ever.
LaneMovesOn == MarkIsLifted /\ DeliveriesReturn
=============================================================================
