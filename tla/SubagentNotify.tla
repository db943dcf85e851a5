--------------------------- MODULE SubagentNotify ---------------------------
(***************************************************************************)
(* How a parent session hears that a subagent finished: the registrations, *)
(* the settle engine, the injection of completion notes, and the calls     *)
(* that take over a pending note and give it back (subagent_spawn, _send,  *)
(* _wait and _kill in plugins/subagent-comms/src/index.ts).                *)
(*                                                                         *)
(* One parent and one child.  Message ids are time-ordered, so a message   *)
(* is the number under which its id was minted, a reply is the number of   *)
(* the message it is parented to, and an outcome is the place of a reply   *)
(* in the transcript, 0 for "ended without a reply".  A call is one use of *)
(* a tool; calls of one turn run concurrently and interleave at every      *)
(* await.  The host lands accepted prompts later, in order, or never, and  *)
(* takes up a run in the same step.  A settle body may run at any time     *)
(* while the child is watched (events, the poller, new waiters); a poll    *)
(* tick gives it a status read long before.  Deleted sessions, disposal,   *)
(* and replies within a run are not modelled.                              *)
(***************************************************************************)
EXTENDS Integers, Sequences, FiniteSets, FiniteSetsExt

CONSTANTS
    Calls,         \* the tool calls
    Kinds,         \* what they may be: assignments of Tools, or of "none"
    Early,         \* calls that may start while the spawn is not back yet
    Abortable,     \* calls whose turn the user may abort
    Backoff,       \* the number of delayed retries of a note
    MaxBodies,     \* bound on the queued settle bodies
    SlowReads,     \* may reading a transcript take longer than GRACE_SPACING_MS?
    MaxInterrupts, \* bound on runs that end without a reply
    MaxFaults      \* bound on refused, lost and unread requests

\* "post" is a subagent_send with wait: false.
Tools == {"spawn", "send", "post", "wait", "kill"}

ASSUME NotifyAssumption ==
    /\ Kinds \subseteq [Calls -> Tools \cup {"none"}]
    /\ Abortable \cup Early \subseteq Calls
    /\ SlowReads \in BOOLEAN
    /\ {Backoff, MaxBodies, MaxInterrupts, MaxFaults} \subseteq Nat

\* A launch next to a wait and a kill, or followed by a blocking send.
SpawnThen == {<<"spawn", "wait", "kill">>, <<"spawn", "send", "none">>}

Writing == {"spawn", "send", "post"}
Writers == {c \in Calls : \E kinds \in Kinds : kinds[c] \in Writing}
Msgs == 1..Cardinality(Writers)

VARIABLES
    busy,          \* host: does a run go on in the child?
    forked,        \* host: accepted prompts that have not landed
    vis,           \* host: the landed ones
    replies,       \* host: what each reply of the child is parented to
    interrupted,   \* host: messages whose run was broken off
    minted,        \* ids minted so far
    first,         \* the message of the spawn, 0 before
    launch,        \* the spawn's anchor: "no" (not initial), "open" or "parked"
    obs,           \* messages seen in the transcript
    reg,           \* the registration: its message, 0 for none
    entry,         \* what is known of each message's registration
    tomb,          \* clearedInitialLaunches has the child
    bodies,        \* queued settle bodies: "ask", or the status they were given
    spc,           \* where the first of them stands
    snap,          \* the transcript it read
    rush,          \* auxiliary: it was queued before the last decision
    call,          \* the calls: tool, where it stands, message, claim, idle checks
    told,          \* auxiliary: messages whose reply the parent was told
    over,          \* auxiliary: messages it was told have ended without one
    freed,         \* auxiliary: messages that a kill answers for
    noted,         \* auxiliary: how often each reply was told by a note
    landed,        \* auxiliary: notes of each message's registration the host took
    faults, interrupts

host == <<busy, forked, vis, replies, interrupted>>
anchors == <<minted, first, launch, obs>>
engine == <<bodies, spc, snap, rush>>
aux == <<told, over, freed, noted, landed>>
bounds == <<faults, interrupts>>
snVars == <<host, anchors, engine, aux, bounds, reg, entry, tomb, call>>

NoSnap == [vis |-> {}, upto |-> 0]

NoEntry == [state |-> "none", fails |-> 0, idle |-> 0, at |-> "no", outcome |-> 0]

SNRest ==
    /\ busy = FALSE /\ forked = {} /\ vis = {} /\ replies = <<>> /\ interrupted = {}
    /\ minted = 0 /\ first = 0 /\ launch = "no" /\ obs = {}
    /\ reg = 0
    /\ entry = [m \in Msgs |-> NoEntry]
    /\ tomb = FALSE
    /\ bodies = <<>> /\ spc = "start" /\ snap = NoSnap /\ rush = FALSE
    /\ call \in {[c \in Calls |-> [kind |-> kinds[c], pc |-> "ready", msg |-> 0, claim |-> 0,
                                    idle |-> 0, busy |-> FALSE]] : kinds \in Kinds}
    /\ told = {} /\ over = {} /\ freed = {}
    /\ noted = [r \in 1..Cardinality(Writers) |-> 0]
    /\ landed = [m \in Msgs |-> 0]

SNInit == SNRest /\ faults = 0 /\ interrupts = 0

-----------------------------------------------------------------------------
(* The host. *)

\* The oldest accepted prompt is persisted, and a run takes it up.
Land ==
    /\ forked # {}
    /\ LET m == Min(forked)
       IN  forked' = forked \ {m} /\ vis' = vis \cup {m}
    /\ busy' = TRUE
    /\ UNCHANGED <<replies, interrupted, anchors, engine, aux, bounds, reg, entry, tomb, call>>

\* The fork that was to persist it fails.
Perish ==
    /\ faults < MaxFaults
    /\ \E m \in forked : forked' = forked \ {m}
    /\ faults' = faults + 1
    /\ UNCHANGED <<busy, vis, replies, interrupted, anchors, engine, aux, interrupts, reg, entry,
                   tomb, call>>

\* A run ends with a reply, or with an error that counts as one.
Finish ==
    /\ busy
    /\ busy' = FALSE
    /\ replies' = Append(replies, Max(vis))
    /\ UNCHANGED <<forked, vis, interrupted, anchors, engine, aux, bounds, reg, entry, tomb, call>>

\* The messages no reply answers.
Open == {m \in vis : \A r \in DOMAIN replies : replies[r] < m}

Interrupt ==
    /\ busy
    /\ interrupts < MaxInterrupts
    /\ busy' = FALSE
    /\ interrupted' = interrupted \cup Open
    /\ interrupts' = interrupts + 1
    /\ UNCHANGED <<forked, vis, replies, anchors, engine, aux, faults, reg, entry, tomb, call>>

Host == Land \/ Perish \/ Finish \/ Interrupt

-----------------------------------------------------------------------------
(* Registrations. *)

Answers(m, upto) == {r \in 1..upto : replies[r] >= m}

\* extractChildOutcome: the newest reply parented at or past the message.
Outcome(m, upto) == IF Answers(m, upto) = {} THEN 0 ELSE Max(Answers(m, upto))

\* What the parent knows once it was told these outcomes, each a message and
\* the place of a reply: a reply answers every message before it; "ended" says
\* the same, where it is true that no run of the message goes on.
Hears(outcomes) ==
    /\ told' = told \cup UNION {1..replies[o[2]] : o \in {p \in outcomes : p[2] > 0}}
    /\ over' = over \cup UNION {((1..o[1]) \cap vis) \ (Open \ interrupted) :
                                   o \in {p \in outcomes : p[2] = 0}}

Initial(m) == m # 0 /\ m = first /\ launch # "no"

Delivering == IF reg = 0 THEN FALSE ELSE entry[reg].at # "no"

Pollable ==
    IF reg = 0 THEN FALSE
    ELSE entry[reg].state \notin {"ambiguous", "terminal"} /\ ~(Initial(reg) /\ launch = "parked")

\* claimNotifies: what a call that takes over the delivery parks.
Claimable == IF Delivering THEN 0 ELSE reg

\* registerNotify: the greatest watermark wins, and a killed launch stays so.
Registered(m, initial) == IF (initial /\ tomb) \/ reg > m THEN reg ELSE m

Register(m, initial) ==
    /\ reg' = Registered(m, initial)
    /\ entry' = IF reg' = m
                THEN [entry EXCEPT ![m] = [NoEntry EXCEPT !.state = "pending"]] ELSE entry

\* Mutant of Restorable: the note of a launch counts as cleared, killed or not.
MutRestorable(m) == m # 0 /\ reg = 0 /\ ~Initial(m)

\* restoreNotifies, unless something newer is registered or a kill cleared it.
Restorable(m) == m # 0 /\ reg = 0 /\ ~(Initial(m) /\ tomb)

\* A settle is queued; beyond the bound, one already waiting serves.
Asked == IF Len(bodies) < MaxBodies THEN Append(bodies, "ask") ELSE bodies

Restore(m) ==
    IF Restorable(m) THEN reg' = m /\ bodies' = Asked /\ UNCHANGED entry
    ELSE UNCHANGED <<reg, entry, bodies>>

\* Mutant of CanPark: a launch that was seen is parked, one that was not stays.
MutCanPark == Initial(reg) /\ launch = "open" /\ reg \in obs

CanPark == Initial(reg) /\ launch = "open" /\ reg \notin obs

\* syncPoller, run by every poll tick and registration: a launch still unseen
\* at its deadline is parked; one that was seen is tracked again.
Park ==
    /\ \/ CanPark /\ launch' = "parked"
       \/ Initial(reg) /\ launch = "parked" /\ reg \in obs /\ launch' = "open"
    /\ UNCHANGED <<host, minted, first, obs, engine, aux, bounds, reg, entry, tomb, call>>

-----------------------------------------------------------------------------
(* The settle engine. *)

\* What is left of a call that returned.
CallEnds(c) == [kind |-> call[c].kind, pc |-> "done",
                msg |-> 0, claim |-> 0, idle |-> 0, busy |-> FALSE]

Waiting == {c \in Calls : call[c].pc = "waiting"}

Watched == Waiting # {} \/ Pollable

\* The poller, an event or a new waiter asks for a settle.
Trigger ==
    /\ Watched
    /\ bodies' = Asked /\ bodies' # bodies
    /\ UNCHANGED <<host, anchors, spc, snap, rush, aux, bounds, reg, entry, tomb, call>>

\* A poll tick queues a settle with the status it has read.
PollTick ==
    /\ Watched
    /\ Len(bodies) < MaxBodies
    /\ bodies' = Append(bodies, IF busy THEN "busy" ELSE "idle")
    /\ UNCHANGED <<host, anchors, spc, snap, rush, aux, bounds, reg, entry, tomb, call>>

ResetGrace ==
    /\ entry' = IF reg = 0 THEN entry ELSE [entry EXCEPT ![reg].idle = 0]
    /\ call' = [c \in Calls |-> IF c \in Waiting THEN [call[c] EXCEPT !.idle = 0] ELSE call[c]]

\* The busy event of the host.
BusyEvent ==
    /\ busy
    /\ ResetGrace
    /\ UNCHANGED <<host, anchors, engine, aux, bounds, reg, tomb>>

\* The status a settle goes by.
Reading == IF Head(bodies) # "ask" THEN Head(bodies) ELSE IF busy THEN "busy" ELSE "idle"

SettleStart ==
    /\ bodies # <<>> /\ spc = "start"
    /\ IF Watched /\ Reading = "idle"
       THEN spc' = "fetch" /\ UNCHANGED <<bodies, entry, call>>
       ELSE /\ bodies' = Tail(bodies)
            /\ IF Watched THEN ResetGrace ELSE UNCHANGED <<entry, call>>
            /\ UNCHANGED spc
    /\ UNCHANGED <<host, anchors, snap, aux, bounds, reg, tomb>>
    /\ rush' = (rush /\ bodies' # <<>>)

SettleFetch ==
    /\ spc = "fetch"
    /\ IF Watched
       THEN /\ snap' = [vis |-> vis, upto |-> Len(replies)]
            /\ spc' = "decide" /\ UNCHANGED bodies
       ELSE spc' = "start" /\ bodies' = Tail(bodies) /\ UNCHANGED snap
    /\ rush' = (rush /\ bodies' # <<>>)
    /\ UNCHANGED <<host, anchors, aux, bounds, reg, entry, tomb, call>>

\* The status or the transcript could not be read: the next tick tries again.
SettleFails ==
    /\ bodies # <<>> /\ spc \in {"start", "fetch"}
    /\ faults < MaxFaults
    /\ bodies' = Tail(bodies) /\ spc' = "start"
    /\ rush' = (rush /\ bodies' # <<>>)
    /\ faults' = faults + 1
    /\ UNCHANGED <<host, anchors, snap, aux, interrupts, reg, entry, tomb, call>>

\* Is anything to be concluded from silence?
Decidable(m, seen) == m = 0 \/ m \in seen

IdleAfter(i, spaced) == IF spaced /\ i < 2 THEN i + 1 ELSE i

\* What a watcher of message m makes of the transcript: reply, ended or nothing.
Verdict(m, idle, seen) ==
    CASE Initial(m) /\ m \notin seen -> "none"
      [] Outcome(m, snap.upto) > 0 -> "reply"
      [] Decidable(m, seen) /\ idle >= 2 -> "ended"
      [] OTHER -> "none"

\* Does a settle look at the registration at all?
Considered == Pollable /\ ~Delivering

\* The decision: waiters first, then the registration, in one synchronous
\* piece.  "spaced" says whether GRACE_SPACING_MS went by since the last look,
\* "due" whether the backoff of a retry did.
Decide(spaced, due) ==
    /\ spc = "decide"
    /\ rush /\ ~SlowReads => ~spaced
    /\ LET looked == {call[c].msg : c \in Waiting} \cup (IF Considered THEN {reg} ELSE {})
           seen == obs \cup (looked \cap snap.vis)
           idleOf(c) == IF Decidable(call[c].msg, seen) THEN IdleAfter(call[c].idle, spaced)
                        ELSE call[c].idle
           settled == {c \in Waiting : Verdict(call[c].msg, idleOf(c), seen) # "none"}
           idle == IF ~Considered THEN 0
                   ELSE IF Decidable(reg, seen) THEN IdleAfter(entry[reg].idle, spaced)
                        ELSE entry[reg].idle
           verdict == IF Considered THEN Verdict(reg, idle, seen) ELSE "none"
           sends == verdict # "none" /\ (entry[reg].state = "retry" => due)
       IN  /\ obs' = seen \cup (IF verdict = "none" THEN {} ELSE {reg})
           /\ call' = [c \in Calls |->
                          IF c \in settled THEN CallEnds(c)
                          ELSE IF c \in Waiting THEN [call[c] EXCEPT !.idle = idleOf(c)]
                          ELSE call[c]]
           /\ Hears({<<call[c].msg, Outcome(call[c].msg, snap.upto)>> :
                       c \in {d \in settled : call[d].msg # 0}})
           /\ entry' = IF ~Considered THEN entry
                       ELSE [entry EXCEPT ![reg].idle = idle,
                                          ![reg].at = IF sends THEN "get" ELSE "no",
                                          ![reg].outcome = IF sends THEN Outcome(reg, snap.upto)
                                                           ELSE 0]
    /\ bodies' = Tail(bodies) /\ spc' = "start" /\ rush' = (bodies' # <<>>)
    /\ snap' = NoSnap
    /\ UNCHANGED <<host, minted, first, launch, freed, noted, landed, bounds, reg, tomb>>

SettleDecide == \E spaced, due \in BOOLEAN : Decide(spaced, due)

Settle == SettleStart \/ SettleFetch \/ SettleDecide

-----------------------------------------------------------------------------
(* The delivery of a note, deliverNotify. *)

GoesTo(m, at) == entry' = [entry EXCEPT ![m].at = at]

Ends(m, state) == entry' = [entry EXCEPT ![m].at = "no", ![m].state = state, ![m].outcome = 0]

Forgotten(m) == entry' = [entry EXCEPT ![m] = NoEntry]

\* The parent is looked up.  A note that is no longer registered is dropped, a
\* parent without a pinned agent and model cannot be prompted at all.
DeliverGet(m) ==
    /\ entry[m].at = "get"
    /\ \/ (IF reg = m THEN GoesTo(m, "inject") ELSE Forgotten(m)) /\ UNCHANGED faults
       \/ /\ faults < MaxFaults /\ faults' = faults + 1
          /\ GoesTo(m, "probe") \/ Ends(m, "terminal")
    /\ UNCHANGED <<host, anchors, engine, aux, interrupts, reg, tomb, call>>

NoteLands(m) ==
    LET r == entry[m].outcome
    IN  /\ Hears({<<m, r>>})
        /\ noted' = IF r = 0 THEN noted ELSE [noted EXCEPT ![r] = @ + 1]
        /\ landed' = [landed EXCEPT ![m] = @ + 1]

\* The host takes the note, and the plugin sees it there or not; it accepts it
\* and loses it; or it refuses it.
DeliverInject(m) ==
    /\ entry[m].at = "inject"
    /\ \/ NoteLands(m) /\ GoesTo(m, "sent") /\ UNCHANGED faults
       \/ /\ faults < MaxFaults /\ faults' = faults + 1
          /\ \/ NoteLands(m) /\ GoesTo(m, "unsure")
             \/ (GoesTo(m, "unsure") \/ GoesTo(m, "probe")) /\ UNCHANGED <<told, over, noted, landed>>
    /\ UNCHANGED <<host, anchors, engine, freed, interrupts, reg, tomb, call>>

\* Mutant of Unsure: a note of unknown fate is injected again.
MutUnsure == "retry"

\* A note of unknown fate is parked.
Unsure == "ambiguous"

\* scheduleNotifyRetry.
AfterRefusal(m) == IF entry[m].fails < Backoff THEN "retry" ELSE "terminal"

\* The answer arrives.
DeliverEnd(m) ==
    /\ entry[m].at \in {"sent", "unsure", "probe"}
    /\ IF reg # m THEN Forgotten(m) /\ UNCHANGED reg
       ELSE CASE entry[m].at = "sent" -> reg' = 0 /\ Forgotten(m)
              [] entry[m].at = "unsure" -> Ends(m, Unsure) /\ UNCHANGED reg
              [] entry[m].at = "probe" ->
                    /\ entry' = [entry EXCEPT ![m].at = "no", ![m].state = AfterRefusal(m),
                                              ![m].outcome = 0,
                                              ![m].fails = IF @ < Backoff THEN @ + 1 ELSE @]
                    /\ UNCHANGED reg
    /\ UNCHANGED <<host, anchors, engine, aux, bounds, tomb, call>>

Deliver(m) == DeliverGet(m) \/ DeliverInject(m) \/ DeliverEnd(m)

-----------------------------------------------------------------------------
(* The calls. *)

Stands(c, kinds, pc) == call[c].kind \in kinds /\ call[c].pc = pc

Turns(c, pc) == call' = [call EXCEPT ![c].pc = pc]

\* The parent knows the child once its spawn is back, or from subagent_list.
Knows(c) == c \in Early \/ \A d \in Calls \ {c} : call[d].kind = "spawn" => call[d].pc = "done"

\* A call returns; what it holds is dropped with it.
Returns(c) == call' = [call EXCEPT ![c] = CallEnds(c)]

\* It takes over what is registered.
Claims(c, pc) ==
    /\ call' = [call EXCEPT ![c].pc = pc, ![c].claim = Claimable, ![c].busy = FALSE]
    /\ reg' = IF Claimable = 0 THEN reg ELSE 0

\* A blocking send parks the note first; a spawn and a post need not.
BeginSend(c) ==
    /\ Stands(c, Writing, "ready") /\ Knows(c)
    /\ IF call[c].kind = "send" THEN Claims(c, "inject") ELSE Turns(c, "inject") /\ UNCHANGED reg
    /\ UNCHANGED <<host, anchors, engine, aux, bounds, entry, tomb>>

\* The prompt is sent.  The host accepts it, it is lost on the way, or the
\* host refuses it: then what was parked is restored.  (The child of a spawn
\* that is refused is deleted, and nothing is left to follow.)
Inject(c) ==
    /\ Stands(c, Writing, "inject")
    /\ minted' = minted + 1
    /\ first' = IF call[c].kind = "spawn" THEN minted' ELSE first
    /\ \/ /\ forked' = forked \cup {minted'}
          /\ call' = [call EXCEPT ![c].pc = "confirm", ![c].msg = minted']
          /\ UNCHANGED <<faults, reg, entry, bodies>>
       \/ /\ faults < MaxFaults /\ faults' = faults + 1
          /\ \/ /\ call' = [call EXCEPT ![c].pc = "confirm", ![c].msg = minted']
                /\ UNCHANGED <<reg, entry, bodies>>
             \/ call[c].kind # "spawn" /\ Restore(call[c].claim) /\ Returns(c)
          /\ UNCHANGED forked
    /\ UNCHANGED <<busy, vis, replies, interrupted, launch, obs, spc, snap, rush, aux, interrupts, tomb>>

\* The user aborts the turn before the prompt was sent.
AbortEarly(c) ==
    /\ c \in Abortable
    /\ Stands(c, Writing, "inject")
    /\ Restore(call[c].claim)
    /\ Returns(c)
    /\ UNCHANGED <<host, anchors, spc, snap, rush, aux, bounds, tomb>>

\* An accepted send whose wait was rejected gives the note back, unless it
\* supersedes an unresolved launch; with nothing to give back it registers.
Revive(c) ==
    LET held == call[c].claim
        supersedes == Initial(held) /\ (held \notin obs' \/ launch = "parked")
    IN  IF held = 0 \/ supersedes
        THEN Register(call[c].msg, FALSE) /\ UNCHANGED bodies
        ELSE Restore(held)

\* A spawn or a post has seen its message, or gives up looking, and registers.
ConfirmSend(c) ==
    /\ Stands(c, {"spawn", "post"}, "confirm")
    /\ \E sure \in BOOLEAN :
          /\ sure => call[c].msg \in vis
          /\ obs' = IF sure THEN obs \cup {call[c].msg} ELSE obs
          /\ launch' = IF call[c].kind = "spawn" /\ ~sure THEN "open" ELSE launch
          /\ Register(call[c].msg, call[c].kind = "spawn" /\ ~sure)
    /\ Returns(c)
    /\ UNCHANGED <<host, minted, first, engine, aux, bounds, tomb>>

\* A blocking send goes on to wait, unless its turn was aborted meanwhile.
StartWait(c) ==
    /\ Stands(c, {"send"}, "confirm")
    /\ \E sure \in BOOLEAN, aborted \in {FALSE} \cup {a \in {TRUE} : c \in Abortable} :
          /\ sure => call[c].msg \in vis
          /\ obs' = IF sure THEN obs \cup {call[c].msg} ELSE obs
          /\ IF aborted THEN Revive(c) /\ Returns(c)
             ELSE Turns(c, "waiting") /\ bodies' = Asked /\ UNCHANGED <<reg, entry>>
    /\ UNCHANGED <<host, minted, first, launch, spc, snap, rush, aux, bounds, tomb>>

AbortWait(c) ==
    /\ c \in Abortable
    /\ Stands(c, {"send", "wait"}, "waiting")
    /\ UNCHANGED obs
    /\ IF call[c].kind = "send" THEN Revive(c) ELSE Restore(call[c].claim)
    /\ Returns(c)
    /\ UNCHANGED <<host, minted, first, launch, spc, snap, rush, aux, bounds, tomb>>

\* A send that timed out registers its own message, a wait gives back.
AfterTimeout(c) ==
    CASE call[c].kind = "send" -> Register(call[c].msg, FALSE) /\ UNCHANGED bodies
      [] call[c].kind = "wait" -> Restore(call[c].claim)
      [] call[c].kind = "kill" -> UNCHANGED <<reg, entry, bodies>>

TimeOut(c) ==
    /\ call[c].pc = "waiting"
    /\ AfterTimeout(c)
    /\ Returns(c)
    /\ UNCHANGED <<host, anchors, spc, snap, rush, aux, bounds, tomb>>

-----------------------------------------------------------------------------
(* subagent_wait, of this child by name. *)

\* The status is read, and comes back.
Look(c) ==
    /\ Stands(c, {"wait", "kill"}, "ready") /\ Knows(c)
    /\ \E failed \in IF call[c].kind = "kill" /\ faults < MaxFaults THEN BOOLEAN ELSE {FALSE} :
          /\ call' = [call EXCEPT ![c].pc = "looked", ![c].busy = busy \/ failed]
          /\ faults' = IF failed THEN faults + 1 ELSE faults
    /\ UNCHANGED <<host, anchors, engine, aux, interrupts, reg, entry, tomb>>

WaitClaims(c) ==
    /\ Stands(c, {"wait"}, "looked")
    /\ Claims(c, IF call[c].busy THEN "mark" ELSE "collect")
    /\ UNCHANGED <<host, anchors, engine, aux, bounds, entry, tomb>>

\* The transcript could not be read, or the user aborts: nothing is consumed.
WaitGivesUp(c) ==
    /\ \/ Stands(c, {"wait"}, "mark") /\ (c \in Abortable \/ faults < MaxFaults)
       \/ Stands(c, {"wait"}, "collect") /\ faults < MaxFaults
    /\ faults' = IF faults < MaxFaults THEN faults + 1 ELSE faults
    /\ Restore(call[c].claim)
    /\ Returns(c)
    /\ UNCHANGED <<host, anchors, spc, snap, rush, aux, interrupts, tomb>>

\* The messages some watcher follows.
Tracked(c) == ({call[c].claim, reg} \cup {call[d].msg : d \in Waiting}) \ {0}

\* A wait on a busy child follows the newest message, tracked or in the
\* transcript; without any it gives up.
Mark(c) ==
    /\ Stands(c, {"wait"}, "mark")
    /\ LET known == Tracked(c) \cup vis
           anchor == Max(known)
       IN  IF known = {}
           THEN Returns(c) /\ Restore(call[c].claim) /\ UNCHANGED obs
           ELSE /\ call' = [call EXCEPT ![c].pc = "waiting", ![c].msg = anchor]
                /\ obs' = obs \cup (Tracked(c) \cap vis)
                              \cup (IF anchor \in Tracked(c) THEN {} ELSE {anchor})
                /\ bodies' = Asked /\ UNCHANGED <<reg, entry>>
    /\ UNCHANGED <<host, minted, first, launch, spc, snap, rush, aux, bounds, tomb>>

\* A wait on an idle child takes its latest result; only a launch that was
\* never seen is given back as uncertain.
Collect(c) ==
    /\ Stands(c, {"wait"}, "collect")
    /\ LET held == call[c].claim
           r == Outcome(held, Len(replies))
           unseen == Initial(held) /\ held \notin obs
       IN  /\ obs' = IF unseen THEN obs \cup ({held} \cap vis) ELSE obs
           /\ IF unseen /\ held \notin vis
              THEN Restore(held) /\ UNCHANGED <<told, over>>
              ELSE /\ Hears({<<held, r>>})
                   /\ UNCHANGED <<reg, entry, bodies>>
    /\ Returns(c)
    /\ UNCHANGED <<host, minted, first, launch, spc, snap, rush, freed, noted, landed, bounds, tomb>>

-----------------------------------------------------------------------------
(* subagent_kill. *)

\* A launch that was seen is left to be reported.
Retained == Initial(reg) /\ reg \in obs /\ launch # "parked"

\* The child was idle: its unresolved launch is cleared for good.
KillIdle(c) ==
    /\ Stands(c, {"kill"}, "looked") /\ ~call[c].busy
    /\ tomb' = (tomb \/ ~Retained)
    /\ reg' = IF Initial(reg) /\ ~Retained THEN 0 ELSE reg
    /\ Returns(c)
    /\ UNCHANGED <<host, anchors, engine, aux, bounds, entry>>

KillClaims(c) ==
    /\ Stands(c, {"kill"}, "looked") /\ call[c].busy
    /\ Claims(c, "abort")
    /\ UNCHANGED <<host, anchors, engine, aux, bounds, entry, tomb>>

\* The abort request: the host breaks the run off and the kill answers for
\* everything sent so far, or the request fails and the note comes back.
KillAborts(c) ==
    /\ Stands(c, {"kill"}, "abort")
    /\ \/ /\ busy' = FALSE
          /\ interrupted' = IF busy THEN interrupted \cup Open ELSE interrupted
          /\ tomb' = TRUE
          /\ reg' = IF Initial(reg) THEN 0 ELSE reg
          /\ freed' = 1..minted
          /\ Turns(c, "waiting")
          /\ bodies' = Asked
          /\ UNCHANGED <<faults, entry>>
       \/ /\ faults < MaxFaults /\ faults' = faults + 1
          /\ Restore(call[c].claim)
          /\ Returns(c)
          /\ UNCHANGED <<busy, interrupted, tomb, freed>>
    /\ UNCHANGED <<forked, vis, replies, anchors, spc, snap, rush, told, over, noted, landed, interrupts>>

-----------------------------------------------------------------------------
Starts(c) == BeginSend(c) \/ Look(c)

Continues(c) ==
    \/ Inject(c) \/ ConfirmSend(c) \/ StartWait(c) \/ TimeOut(c)
    \/ WaitClaims(c) \/ Mark(c) \/ Collect(c)
    \/ KillIdle(c) \/ KillClaims(c) \/ KillAborts(c)

SNNext ==
    \/ Host \/ Park \/ Trigger \/ PollTick \/ BusyEvent \/ Settle \/ SettleFails
    \/ \E m \in Msgs : Deliver(m)
    \/ \E c \in Calls : Starts(c) \/ Continues(c) \/ AbortEarly(c) \/ AbortWait(c) \/ WaitGivesUp(c)

\* Prompts land and runs end, the poller ticks while something is watched,
\* reads and deliveries end, and so do calls once they were made; time goes by
\* between settles.
SNFairness ==
    /\ WF_snVars(Land) /\ WF_snVars(Finish) /\ WF_snVars(Park)
    /\ WF_snVars(Trigger) /\ WF_snVars(Settle)
    /\ <>[](spc # "decide") \/ []<><<Decide(TRUE, TRUE)>>_snVars
    /\ \A m \in Msgs : WF_snVars(Deliver(m))
    /\ \A c \in Calls : WF_snVars(Continues(c))

SNSpec == SNInit /\ [][SNNext]_snVars
SNFairSpec == SNSpec /\ SNFairness

-----------------------------------------------------------------------------
Entries == [state : {"none", "pending", "retry", "ambiguous", "terminal"}, fails : 0..Backoff,
            idle : 0..2, at : {"no", "get", "inject", "sent", "unsure", "probe"},
            outcome : 0..Cardinality(Msgs)]

NotifyTypeOK ==
    /\ forked \cup vis \cup obs \cup told \cup over \cup freed \cup interrupted \subseteq 1..minted
    /\ minted \in 0..Cardinality(Msgs) /\ reg \in 0..minted /\ first \in 0..minted
    /\ replies \in Seq(vis)
    /\ entry \in [Msgs -> Entries]
    /\ launch \in {"no", "open", "parked"}
    /\ Len(bodies) <= MaxBodies /\ spc \in {"start", "fetch", "decide"}
    /\ snap.vis \subseteq vis /\ snap.upto \in 0..Len(replies)
    /\ \A c \in Calls : /\ call[c].msg \in 0..minted /\ call[c].claim \in 0..minted
                        \* What is being delivered cannot be taken over.
                        /\ call[c].claim # 0 => entry[call[c].claim].at = "no"
                        /\ call[c].pc \in {"ready", "inject", "confirm", "waiting", "looked", "mark",
                                           "collect", "abort", "done"}
    /\ {busy, tomb} \subseteq BOOLEAN /\ {faults, interrupts} \subseteq Nat

\* Who still has to see to it that the parent hears of the child.
InHand(c) == \/ call[c].claim # 0
             \/ call[c].kind \in Writing /\ call[c].pc \in {"confirm", "waiting"}

Covered(m) == \/ m \in freed
              \/ m = first /\ tomb
              \/ reg # 0
              \/ \E c \in Calls : InHand(c)

\* The completion of a message the child has taken up is never lost: the
\* parent was told of a reply that answers it, or truly that it ended, or a
\* kill answers for it, or a registration or a call in progress has it.
NeverLost == \A m \in vis : m \in told \cup over \/ Covered(m)

\* A parked note is dropped only if the call returns the completion: what a
\* reply answers is not written off by an "ended".  It is not so, see the README.
RepliesReachTheParent == \A m \in vis \ Open : m \in told \/ Covered(m)

\* One registration puts at most one note into the parent's transcript,
\* whatever is refused, lost, parked, claimed or superseded on the way.
NoteOnce == \A m \in Msgs : landed[m] <= 1

\* The parent hears about a completion once, not once per message sent.  It is
\* not so, see the README.
OneNotePerCompletion == \A r \in DOMAIN noted : noted[r] <= 1

\* "Ended without a reply" is said of runs that did.
EndedIsTrue ==
    \A m \in Msgs : entry[m].at = "get" /\ entry[m].outcome = 0 => m \in interrupted

\* A launch that a kill has cleared never comes back, whoever still held it.
ClearedStaysCleared == tomb => ~Initial(reg)

\* The registration of a launch, or of a message the child has taken up, is not
\* followed forever: it is reported, superseded, taken over or parked where the
\* parent can see it.  (A later prompt that was accepted and lost is, see the
\* README.)
Settles ==
    \A m \in Msgs :
        (reg = m /\ Pollable /\ (Initial(m) \/ m \in vis)) ~> ~(reg = m /\ Pollable)

\* What the parent is told is true, and told once per registration, and what a
\* kill has cleared is not told at all.
NotesAreTrue == NotifyTypeOK /\ NoteOnce /\ EndedIsTrue /\ ClearedStaysCleared
=============================================================================
