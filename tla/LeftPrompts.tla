----------------------------- MODULE LeftPrompts -----------------------------
(***************************************************************************)
(* What approve-for-me does with prompts nobody answers                    *)
(* (plugins/approve-for-me/src/index.ts): the stale-prompt sweeper, which  *)
(* rejects the prompts an aborted run has left behind, and the unattended  *)
(* deny, which rejects a prompt the classifier left to a user who is away. *)
(*                                                                         *)
(* The host cascades a reject over every pending prompt of the session, so *)
(* both look at the pending prompts twice before they reject: between the  *)
(* answers of the host and the reject the session goes on.  The events the *)
(* host publishes reach the plugin later, in order.                        *)
(*                                                                         *)
(* One session; its turns follow each other, each with prompts of its own, *)
(* a batch.  Left out: the deletion of the session, disposal, eviction     *)
(* from the bounded maps, prompts whose ancestry is still being looked up, *)
(* and the ledger of the sibling plugin's own replies, which is treated    *)
(* like this plugin's.                                                     *)
(***************************************************************************)
EXTENDS Naturals, Sequences, SequencesExt

CONSTANTS
    Prompts,     \* the prompts of the session, numbered as they are asked for
    Plans,       \* the ways to spread them over turns 1, 2...: a turn for each
    DenyLimit,   \* UNATTENDED_DENY_LIMIT
    Retries,     \* the length of SWEEP_RETRY_MS
    Mishaps      \* bound on failed calls of the host and changes of the toggle

VARIABLES
    turn,        \* the host: the plan, the session's turn, whether it runs, the
                 \* prompts asked for, those pending and those whose call has ended
    inbox,       \* events on their way to the plugin, and (auxiliary) whose
                 \* doing they tell of
    told,        \* askedSessions, askCounters, answered prompts and the
                 \* prompts the scheduler is still moving
    enabled,     \* the settings, with the instance toggle
    timers,      \* unattendedDenyTimers, the countdowns shown for them, and
                 \* those whose wait has seen the toggle change
    due,         \* deadlines that fired: the denials chain
    deny,        \* the deny that runs
    ours,        \* pluginReplied
    denies,      \* unattendedDenyCounts of the tree
    ladder,      \* the attempt a sweep timer waits for, or NoAttempt
    sweeps,      \* attempts that fired: the sweeps chain
    sweep,       \* the sweep that runs
    mishaps,     \* so far; behaviours may begin without any left
    away,        \* auxiliary: timed denies since a reply last counted as the user's
    harmed,      \* auxiliary: prompts a reject of the plugin took wrongly
    mistaken,    \* auxiliary: prompts whose reply the plugin may not know as its own
    orphaned     \* auxiliary: a sweep gave up, or a look-up of a deny threw

hostSide == <<turn, inbox>>
denySide == <<timers, due, deny, denies, away>>
sweepSide == <<ladder, sweeps, sweep>>
ledger == <<ours, mistaken>>
lpVars == <<hostSide, told, enabled, denySide, ledger, sweepSide, mishaps, harmed, orphaned>>

NoAttempt == 100

ASSUME LPAssumption == DenyLimit \in Nat \ {0} /\ Retries \in 0..(NoAttempt - 1)

Rest == [at |-> "rest"]
TurnOf(p) == turn.of[p]
Turns == {TurnOf(p) : p \in Prompts}

LPInit ==
    /\ \E plan \in Plans :
          turn = [of |-> plan, no |-> 0, busy |-> FALSE, asked |-> {}, pending |-> {}, ended |-> {}]
    /\ inbox = <<>>
    /\ told = [open |-> {}, count |-> 0, answered |-> {}, managed |-> {}]
    /\ enabled = TRUE
    /\ timers = [armed |-> {}, shown |-> {}, interrupted |-> {}]
    /\ due = <<>> /\ deny = Rest
    /\ ours = {} /\ denies = 0 /\ away = 0
    /\ ladder = NoAttempt /\ sweeps = <<>> /\ sweep = Rest
    /\ mishaps \in {0, Mishaps}
    /\ harmed = {} /\ mistaken = {}
    /\ orphaned = [swept |-> FALSE, countdowns |-> {}]

-----------------------------------------------------------------------------
(* The host.                                                               *)

\* A reject takes every pending prompt of the session along.
Cascade(q) == IF q \in turn.pending THEN turn.pending ELSE {}

Rejected(taken, by) ==
    /\ turn' = [turn EXCEPT !.pending = @ \ taken, !.ended = @ \cup taken]
    /\ inbox' = IF taken = {} THEN inbox ELSE Append(inbox, [what |-> "replied", of |-> taken, by |-> by])

NewTurn ==
    /\ ~turn.busy /\ turn.no + 1 \in Turns
    /\ turn' = [turn EXCEPT !.no = @ + 1, !.busy = TRUE]
    /\ UNCHANGED <<inbox, told, enabled, denySide, ledger, sweepSide, mishaps, harmed, orphaned>>

Ask(p) ==
    /\ turn.busy /\ TurnOf(p) = turn.no /\ p \notin turn.asked
    /\ \A q \in Prompts : TurnOf(q) = turn.no /\ q < p => q \in turn.asked
    /\ turn' = [turn EXCEPT !.asked = @ \cup {p}, !.pending = @ \cup {p}]
    /\ inbox' = Append(inbox, [what |-> "asked", of |-> {p}, by |-> "run"])
    /\ UNCHANGED <<told, enabled, denySide, ledger, sweepSide, mishaps, harmed, orphaned>>

\* The run is aborted, or ends: its prompts stay listed.
RunEnds ==
    /\ turn.busy
    /\ turn' = [turn EXCEPT !.busy = FALSE]
    /\ inbox' = Append(inbox, [what |-> "idle", of |-> {}, by |-> "run"])
    /\ UNCHANGED <<told, enabled, denySide, ledger, sweepSide, mishaps, harmed, orphaned>>

\* The calls of a run that is over are recorded as ended.
CallsSettle ==
    /\ ~turn.busy /\ turn.ended # turn.asked
    /\ turn' = [turn EXCEPT !.ended = @ \cup turn.asked]
    /\ UNCHANGED <<inbox, told, enabled, denySide, ledger, sweepSide, mishaps, harmed, orphaned>>

\* The user allows a prompt, or rejects it with all its neighbours.
AnsweredByUser(p) ==
    /\ p \in turn.pending
    /\ \E taken \in {{p}, turn.pending} : Rejected(taken, "user")
    /\ UNCHANGED <<told, enabled, denySide, ledger, sweepSide, mishaps, harmed, orphaned>>

UserFlips ==
    /\ mishaps < Mishaps
    /\ mishaps' = mishaps + 1
    /\ enabled' = ~enabled
    /\ timers' = [timers EXCEPT !.interrupted = timers.armed \cup ToSet(due)]
    /\ UNCHANGED <<hostSide, told, due, deny, denies, away, ledger, sweepSide, harmed, orphaned>>

-----------------------------------------------------------------------------
(* Events and verdicts.                                                    *)

\* scheduleSweep: nothing without an unanswered ask; the ladder ends; a new
\* timer takes the place of the old one.
Scheduled(open, attempt) ==
    IF open = {} THEN UNCHANGED <<ladder, orphaned>>
    ELSE IF attempt > Retries
    THEN /\ orphaned' = [orphaned EXCEPT !.swept = (ladder = NoAttempt)]
         /\ UNCHANGED ladder
    ELSE /\ ladder' = attempt
         /\ orphaned' = [orphaned EXCEPT !.swept = FALSE]

HearAsk ==
    /\ inbox # <<>> /\ Head(inbox).what = "asked"
    /\ \E p \in Head(inbox).of :
          told' = IF p \in told.answered THEN told
                  ELSE [told EXCEPT !.open = @ \cup {p}, !.count = @ + 1, !.managed = @ \cup {p}]
    /\ inbox' = Tail(inbox)
    /\ UNCHANGED <<turn, enabled, denySide, ledger, sweepSide, mishaps, harmed, orphaned>>

\* A reply nobody of the suite has registered is the user's: the budget starts
\* over.
CountsAsUser(p) == p \notin ours

\* A cascade publishes a reply for each of its prompts, in any order.
HearReply ==
    /\ inbox # <<>> /\ Head(inbox).what = "replied"
    /\ \E p \in Head(inbox).of :
          /\ inbox' = IF Head(inbox).of = {p} THEN Tail(inbox) ELSE [inbox EXCEPT ![1].of = @ \ {p}]
          /\ told' = [told EXCEPT !.open = @ \ {p}, !.answered = @ \cup {p}, !.managed = @ \ {p}]
          /\ timers' = IF p \in timers.armed
                       THEN [armed       |-> timers.armed \ {p},
                             shown       |-> timers.shown \ {p},
                             interrupted |-> timers.interrupted \ {p}]
                       ELSE timers
          /\ ours' = ours \ {p} /\ mistaken' = mistaken \ {p}
          /\ IF CountsAsUser(p) THEN denies' = 0 /\ away' = 0 ELSE UNCHANGED <<denies, away>>
    /\ UNCHANGED <<turn, enabled, due, deny, sweepSide, mishaps, harmed, orphaned>>

HearIdle ==
    /\ inbox # <<>> /\ Head(inbox).what = "idle"
    /\ Scheduled(told.open, 0)
    /\ inbox' = Tail(inbox)
    /\ UNCHANGED <<turn, told, enabled, denySide, ledger, sweeps, sweep, mishaps, harmed>>

\* The verdict approves: the plugin answers the prompt.
Approved(p) ==
    /\ p \in told.managed /\ p \in turn.pending /\ enabled
    /\ Rejected({p}, "plugin")
    /\ told' = [told EXCEPT !.managed = @ \ {p}]
    /\ ours' = ours \cup {p}
    /\ UNCHANGED <<enabled, denySide, mistaken, sweepSide, mishaps, harmed, orphaned>>

\* The verdict leaves the prompt to the user: a deadline is armed while the
\* tree has budget.
LeftToUser(p) ==
    /\ p \in told.managed /\ enabled
    /\ told' = [told EXCEPT !.managed = @ \ {p}]
    /\ timers' = IF denies < DenyLimit
                 THEN [timers EXCEPT !.armed = @ \cup {p}, !.shown = @ \cup {p}]
                 ELSE timers
    /\ UNCHANGED <<hostSide, enabled, due, deny, denies, away, ledger, sweepSide, mishaps, harmed, orphaned>>

\* A rule of the user's, an opt-out or a pause: held without a deadline.
Reserved(p) ==
    /\ p \in told.managed
    /\ told' = [told EXCEPT !.managed = @ \ {p}]
    /\ UNCHANGED <<hostSide, enabled, denySide, ledger, sweepSide, mishaps, harmed, orphaned>>

-----------------------------------------------------------------------------
(* The unattended deny.                                                    *)

DeadlinePasses(p) ==
    /\ p \in timers.armed
    /\ timers' = [timers EXCEPT !.armed = @ \ {p}]
    /\ due' = Append(due, p)
    /\ UNCHANGED <<hostSide, told, enabled, deny, denies, away, ledger, sweepSide, mishaps, harmed, orphaned>>

\* The deadline does not come to a reject, and is no longer shown.
Dropped(p) == timers' = [timers EXCEPT !.shown = @ \ {p}, !.interrupted = @ \ {p}]

MayDeny(p) == enabled /\ p \notin timers.interrupted /\ denies < DenyLimit

\* The settings, the count of the asks and the list of the pending prompts are
\* read in one step: what moves between them might as well move after them.
BeginDeny ==
    /\ deny = Rest /\ due # <<>>
    /\ due' = Tail(due)
    /\ LET p == Head(due)
       IN  IF p \in told.answered THEN UNCHANGED <<deny, timers>>
           ELSE IF MayDeny(p)
           THEN /\ deny' = [at |-> "casualties", target |-> p, count |-> told.count, list |-> turn.pending]
                /\ UNCHANGED timers
           ELSE Dropped(p) /\ UNCHANGED deny
    /\ UNCHANGED <<hostSide, told, enabled, denies, away, ledger, sweepSide, mishaps, harmed, orphaned>>

\* The host lists the pending prompts again; the plugin goes on with the list
\* later.
DenyListed ==
    /\ deny.at = "second"
    /\ deny' = [at |-> "compare", target |-> deny.target, count |-> deny.count,
                 casualties |-> deny.casualties, list |-> turn.pending,
                 known |-> turn.asked, kept |-> deny.kept]
    /\ UNCHANGED <<hostSide, told, enabled, timers, due, denies, away, ledger, sweepSide, mishaps, harmed, orphaned>>

\* A look-up throws: the deadline stays shown.
DenyThrows ==
    /\ deny.at = "second" /\ mishaps < Mishaps
    /\ mishaps' = mishaps + 1
    /\ deny' = Rest
    /\ orphaned' = [orphaned EXCEPT !.countdowns = @ \cup {deny.target}]
    /\ UNCHANGED <<hostSide, told, enabled, timers, due, denies, away, ledger, sweepSide, harmed>>

\* A prompt the deny may take along: of the same turn, with a deadline of its
\* own or still on its way through the scheduler.
OursToClear(p, q) == TurnOf(q) = TurnOf(p) /\ q \in timers.armed \cup told.managed

DenyVerifies ==
    /\ deny.at = "casualties"
    /\ LET p == deny.target
           foreign == {q \in deny.list \ {p} : ~OursToClear(p, q)}
       IN  IF p \notin deny.list THEN deny' = Rest /\ UNCHANGED timers
           ELSE IF foreign # {} THEN deny' = Rest /\ Dropped(p)
           ELSE /\ deny' = [at |-> "second", target |-> p, count |-> deny.count, casualties |-> deny.list,
                            kept |-> Prompts \ (timers.armed \cup told.managed \cup {p})]
                /\ UNCHANGED timers
    /\ UNCHANGED <<hostSide, told, enabled, due, denies, away, ledger, sweepSide, mishaps, harmed, orphaned>>

\* Mutant of StillVerified: only the asks heard of are compared.
MutStillVerified(verified, list, count) == told.count = count

\* Nobody has come since the prompts were verified.
StillVerified(verified, list, count) == list \subseteq verified /\ told.count = count

DenyPosts ==
    /\ deny.at = "compare"
    /\ LET p == deny.target
       IN  IF ~StillVerified(deny.casualties, deny.list, deny.count) THEN deny' = Rest /\ Dropped(p) /\ UNCHANGED ours
           ELSE IF p \notin deny.list \/ p \in told.answered
           THEN deny' = Rest /\ UNCHANGED <<ledger, timers>>
           ELSE /\ ours' = ours \cup deny.casualties
                /\ deny' = [at |-> "posted", target |-> p, casualties |-> deny.casualties,
                            known |-> deny.known, kept |-> deny.kept]
                /\ UNCHANGED timers
    /\ UNCHANGED <<hostSide, told, enabled, due, denies, away, mistaken, sweepSide, mishaps, harmed, orphaned>>

\* The host takes the reject, or knows the prompt no more.
DenyApplied ==
    /\ deny.at = "posted"
    /\ LET taken == Cascade(deny.target)
       IN  /\ Rejected(taken, "plugin")
           /\ mistaken' = mistaken \cup (taken \ deny.known)
           /\ harmed' = harmed \cup {q \in taken \cap deny.known :
                                        TurnOf(q) # TurnOf(deny.target) \/ q \in deny.kept}
           /\ away' = IF taken = {} THEN away ELSE away + 1
           /\ deny' = [at |-> "answer", target |-> deny.target, casualties |-> deny.casualties,
                       accepted |-> taken # {}]
    /\ UNCHANGED <<told, enabled, timers, due, denies, ours, sweepSide, mishaps, orphaned>>

DenyAnswered ==
    /\ deny.at = "answer"
    /\ IF deny.accepted
       THEN /\ denies' = denies + 1
            /\ timers' = [timers EXCEPT !.shown = @ \ deny.casualties]
            /\ UNCHANGED ledger
       ELSE /\ ours' = ours \ deny.casualties
            /\ mistaken' = mistaken \cup (deny.casualties \ told.answered)
            /\ Dropped(deny.target)
            /\ UNCHANGED denies
    /\ deny' = Rest
    /\ UNCHANGED <<hostSide, told, enabled, due, away, sweepSide, mishaps, harmed, orphaned>>

-----------------------------------------------------------------------------
(* The sweeper.                                                            *)

SweepTimer ==
    /\ ladder # NoAttempt
    /\ sweeps' = Append(sweeps, ladder)
    /\ ladder' = NoAttempt
    /\ UNCHANGED <<hostSide, told, enabled, denySide, ledger, sweep, mishaps, harmed, orphaned>>

\* Mutant of SweepRetries: a sweep that could not complete is given up.
MutSweepRetries == UNCHANGED <<ladder, orphaned>>

SweepRetries == Scheduled(told.open, sweep.attempt + 1)
SweepDone == UNCHANGED <<ladder, orphaned>>

\* Settings that are off now may be on again at the next attempt.
BeginSweep ==
    /\ sweep = Rest /\ sweeps # <<>>
    /\ sweeps' = Tail(sweeps)
    /\ IF enabled
       THEN /\ sweep' = [at |-> "calls", attempt |-> Head(sweeps), count |-> told.count, mine |-> turn.pending]
            /\ SweepDone
       ELSE Scheduled(told.open, Head(sweeps) + 1) /\ UNCHANGED sweep
    /\ UNCHANGED <<hostSide, told, enabled, denySide, ledger, mishaps, harmed>>

SweepListed ==
    /\ sweep.at = "second"
    /\ sweep' = [at |-> "compare", attempt |-> sweep.attempt, count |-> sweep.count, mine |-> sweep.mine,
                  list |-> turn.pending, known |-> turn.asked]
    /\ UNCHANGED <<hostSide, told, enabled, denySide, ledger, ladder, sweeps, mishaps, harmed, orphaned>>

SweepFails ==
    /\ sweep.at \in {"calls", "second", "posted"} /\ mishaps < Mishaps
    /\ mishaps' = mishaps + 1
    /\ sweep' = Rest
    /\ SweepRetries
    /\ UNCHANGED <<hostSide, told, enabled, denySide, ledger, sweeps, harmed>>

AllDead(mine) == mine \subseteq turn.ended

\* Every prompt of the session belongs to a call that has ended, and the
\* session has settled.  (A call that has ended stays so: the look-ups of the
\* calls and of the status are one step.)
SweepChecks ==
    /\ sweep.at = "calls"
    /\ IF sweep.mine = {} THEN sweep' = Rest /\ SweepDone
       ELSE IF ~AllDead(sweep.mine) THEN sweep' = Rest /\ SweepRetries
       ELSE sweep' = (IF turn.busy THEN Rest ELSE [sweep EXCEPT !.at = "second"]) /\ SweepDone
    /\ UNCHANGED <<hostSide, told, enabled, denySide, ledger, sweeps, mishaps, harmed>>

SweepPosts ==
    /\ sweep.at = "compare"
    /\ IF sweep.list # {} /\ StillVerified(sweep.mine, sweep.list, sweep.count)
       THEN /\ ours' = ours \cup sweep.list
            /\ timers' = [timers EXCEPT !.shown = @ \ sweep.list]
            /\ \E p \in sweep.list :
                  sweep' = [at |-> "posted", attempt |-> sweep.attempt, known |-> sweep.known, target |-> p]
       ELSE sweep' = Rest /\ UNCHANGED <<ledger, timers>>
    /\ UNCHANGED <<hostSide, told, enabled, due, deny, denies, away, mistaken, ladder, sweeps, mishaps, harmed, orphaned>>

SweepApplied ==
    /\ sweep.at = "posted"
    /\ LET taken == Cascade(sweep.target)
       IN  /\ Rejected(taken, "plugin")
           /\ mistaken' = mistaken \cup (taken \ sweep.known)
           /\ harmed' = harmed \cup ((taken \cap sweep.known) \ turn.ended)
           /\ sweep' = Rest
           /\ IF taken = {} THEN SweepRetries ELSE SweepDone
    /\ UNCHANGED <<told, enabled, denySide, ours, sweeps, mishaps>>

-----------------------------------------------------------------------------

LPNext ==
    \/ NewTurn \/ RunEnds \/ CallsSettle \/ UserFlips
    \/ \E p \in Prompts : Ask(p) \/ AnsweredByUser(p)
    \/ HearAsk \/ HearReply \/ HearIdle
    \/ \E p \in Prompts : Approved(p) \/ LeftToUser(p) \/ Reserved(p) \/ DeadlinePasses(p)
    \/ BeginDeny \/ DenyListed \/ DenyThrows \/ DenyVerifies \/ DenyPosts \/ DenyApplied \/ DenyAnswered
    \/ SweepTimer \/ BeginSweep \/ SweepListed \/ SweepFails \/ SweepChecks
    \/ SweepPosts \/ SweepApplied

LPSpec == LPInit /\ [][LPNext]_lpVars

-----------------------------------------------------------------------------
(* Properties.                                                             *)

\* A cascade takes nothing the plugin has not vouched for: a sweep no prompt
\* of a call that still runs, a deny no prompt of another turn and none the
\* user had reserved when it looked, but for prompts asked for after its last
\* look, in the window the code's comments concede.
CascadesAreOurs == harmed = {}

\* Until a reply counts as the user's, the plugin denies no more prompts than
\* its budget; and of its own replies none counts as the user's, whenever it is
\* heard of, but that of a prompt asked for after the last look of the reject
\* that took it, and of one which a refused deny had vouched for.
OwnRepliesAreKnown ==
    \A n \in DOMAIN inbox : inbox[n].by = "plugin" => inbox[n].of \subseteq ours \cup mistaken
BudgetIsKept == away <= DenyLimit /\ OwnRepliesAreKnown

\* A countdown the sidebar shows for a pending prompt belongs to a deadline
\* that still runs or is being dealt with, unless a look-up threw.
CountdownsAreTrue ==
    \A p \in (timers.shown \cap turn.pending) \ orphaned.countdowns :
        p \in timers.armed \cup ToSet(due) \/ (deny # Rest /\ deny.target = p)

\* Prompts an ended run has left behind are not forgotten: while the session
\* stays settled, a sweep for them waits or runs, until the ladder is used up.
StaleIsNotForgotten ==
    ~turn.busy /\ inbox = <<>> /\ turn.pending \cap told.open # {} /\ ~orphaned.swept
        => ladder # NoAttempt \/ sweeps # <<>> \/ sweep # Rest

LeftIsLookedAfter == BudgetIsKept /\ CountdownsAreTrue /\ StaleIsNotForgotten
=============================================================================
