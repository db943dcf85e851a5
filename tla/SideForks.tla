----------------------------- MODULE SideForks ------------------------------
(***************************************************************************)
(* The forks of btw's side questions: made, marked, owned by the terminal  *)
(* that asked, released for the next question, and swept when the          *)
(* terminal that owned them is gone (beginQuestion, startSideQuestion,     *)
(* sweepOrphans).                                                          *)
(*                                                                         *)
(* One terminal asks the questions 1, 2, ... ; another one sweeps.  A      *)
(* preparation and a deletion take less time than a lease.  What happens   *)
(* on the thread itself is in SideThread.                                  *)
(***************************************************************************)
EXTENDS Integers, FiniteSets

CONSTANTS MaxQuestions, MaxLosses, MaxNaps, MaxEnds, MaxDismissals

VARIABLES
    startGen, startPending,     \* the controller's
    active,                     \* the question whose fork is the active one
    start,                      \* beginQuestion, one per question
    fork, lease,                \* the forks with the host, and their markers
    terminal,                   \* "up", "asleep", "disposing" or "down"
    sweeping,                      \* the fork another terminal has found stale
    slept, failedBoth,          \* auxiliary: forks left alone too long, or that could
                                \* neither be marked nor deleted
    losses, naps, ends, dismissals

fkBounds == <<losses, naps, ends, dismissals>>
fkVars == <<startGen, startPending, active, start, fork, lease, terminal, sweeping, slept, failedBoth,
            fkBounds>>

Questions == 1..MaxQuestions
NotAsked == [pc |-> "none", gen |-> 0, frees |-> 0, lost |-> FALSE]

FKInit ==
    /\ startGen = 0 /\ startPending = FALSE /\ active = 0
    /\ start = [q \in Questions |-> NotAsked]
    /\ fork = [q \in Questions |-> "none"] /\ lease = [q \in Questions |-> "none"]
    /\ terminal = "up" /\ sweeping = 0 /\ slept = {} /\ failedBoth = {}
    /\ losses = 0 /\ naps = 0 /\ ends = 0 /\ dismissals = 0

Awake == terminal \in {"up", "disposing"}
RequestLost == losses < MaxLosses /\ losses' = losses + 1
StartGoes(q, pc) == start' = [start EXCEPT ![q].pc = pc]
IsLatest(q) == start[q].gen = startGen

\* A deletion that fails leaves the fork as it is.
DeleteOrNot(q) ==
    \/ fork' = [fork EXCEPT ![q] = "deleted"] /\ UNCHANGED losses
    \/ RequestLost /\ UNCHANGED fork

-----------------------------------------------------------------------------
(* beginQuestion                                                           *)

BeginQuestion(q) ==
    /\ terminal = "up" /\ start[q].pc = "none" /\ \A p \in 1..q - 1 : start[p].pc # "none"
    /\ startGen' = startGen + 1 /\ startPending' = TRUE
    /\ start' = [start EXCEPT ![q] = [pc |-> "release", gen |-> startGen + 1, frees |-> active,
                                      lost |-> FALSE]]
    /\ active' = 0
    /\ UNCHANGED <<fork, lease, terminal, sweeping, slept, failedBoth, fkBounds>>

Released(q) ==
    /\ Awake /\ start[q].pc = "release"
    /\ start' = [start EXCEPT ![q].pc = "fork", ![q].frees = 0]
    /\ IF start[q].frees = 0 THEN UNCHANGED <<fork, losses>> ELSE DeleteOrNot(start[q].frees)
    /\ UNCHANGED <<startGen, startPending, active, lease, terminal, sweeping, slept, failedBoth,
                   naps, ends, dismissals>>

\* The parent is read and forked; the marker is written after the fork is made.
MakeFork(q) ==
    /\ Awake /\ start[q].pc = "fork"
    /\ \/ /\ fork' = [fork EXCEPT ![q] = "live"] /\ StartGoes(q, "mark")
          /\ UNCHANGED losses
       \/ RequestLost /\ StartGoes(q, "failed") /\ UNCHANGED fork
    /\ UNCHANGED <<startGen, startPending, active, lease, terminal, sweeping, slept, failedBoth,
                   naps, ends, dismissals>>

MarkFork(q) ==
    /\ Awake /\ start[q].pc = "mark"
    /\ \/ /\ lease' = [lease EXCEPT ![q] = "fresh"]
          /\ \/ StartGoes(q, "prepared")
             \/ StartGoes(q, "empty")           \* the parent has no conversation yet
          /\ UNCHANGED losses
       \/ RequestLost /\ StartGoes(q, "undo") /\ UNCHANGED lease
    /\ UNCHANGED <<startGen, startPending, active, fork, terminal, sweeping, slept, failedBoth,
                   naps, ends, dismissals>>

\* Mutant of Superseded: the question is installed whatever came meanwhile.
MutSuperseded(q) == FALSE

Superseded(q) == ~IsLatest(q)

\* onBeforePrompt: a start that was dismissed, or that another followed, is undone.
Install(q) ==
    /\ Awake /\ start[q].pc = "prepared"
    /\ \/ /\ ~Superseded(q)
          /\ startPending' = FALSE /\ active' = q
          /\ StartGoes(q, "prompt")
          /\ UNCHANGED losses
       \/ /\ Superseded(q) \/ losses < MaxLosses
          /\ losses' = IF Superseded(q) THEN losses ELSE losses + 1
          /\ StartGoes(q, "undo")
          /\ UNCHANGED <<startPending, active>>
    /\ UNCHANGED <<startGen, fork, lease, terminal, sweeping, slept, failedBoth, naps, ends,
                   dismissals>>

Prompted(q) ==
    /\ Awake /\ start[q].pc = "prompt"
    /\ \/ StartGoes(q, "end") /\ UNCHANGED losses
       \/ RequestLost /\ StartGoes(q, "undo")
    /\ UNCHANGED <<startGen, startPending, active, fork, lease, terminal, sweeping, slept,
                   failedBoth, naps, ends, dismissals>>

\* Whatever fails after the fork was made takes it with it.
Undo(q) ==
    /\ Awake /\ start[q].pc = "undo"
    /\ StartGoes(q, "failed")
    /\ DeleteOrNot(q)
    /\ failedBoth' = IF fork'[q] = "live" /\ lease[q] = "none" THEN failedBoth \cup {q} ELSE failedBoth
    /\ UNCHANGED <<startGen, startPending, active, lease, terminal, sweeping, slept, naps, ends,
                   dismissals>>

\* The error is shown unless another question was asked.
StartFailed(q) ==
    /\ Awake /\ start[q].pc = "failed"
    /\ StartGoes(q, "end")
    /\ IF IsLatest(q) THEN startPending' = FALSE /\ active' = 0 ELSE UNCHANGED <<startPending, active>>
    /\ UNCHANGED <<startGen, fork, lease, terminal, sweeping, slept, failedBoth, fkBounds>>

\* No conversation to ask about: the fork is discarded.
Discard(q) ==
    /\ Awake /\ start[q].pc = "empty"
    /\ StartGoes(q, "end")
    /\ startPending' = (startPending /\ ~IsLatest(q))
    /\ DeleteOrNot(q)
    /\ UNCHANGED <<startGen, active, lease, terminal, sweeping, slept, failedBoth, naps, ends,
                   dismissals>>

\* Of a fork that streams a dismissal only stops the answer.
Dismiss ==
    /\ terminal = "up" /\ active = 0 /\ startPending
    /\ dismissals < MaxDismissals
    /\ dismissals' = dismissals + 1
    /\ startGen' = startGen + 1 /\ startPending' = FALSE
    /\ UNCHANGED <<active, start, fork, lease, terminal, sweeping, slept, failedBoth, losses, naps,
                   ends>>

-----------------------------------------------------------------------------
(* The life of the terminal                                                *)

LeaseRenewed ==
    /\ terminal = "up" /\ active # 0 /\ lease[active] = "stale"
    /\ lease' = [lease EXCEPT ![active] = "fresh"]
    /\ UNCHANGED <<startGen, startPending, active, start, fork, terminal, sweeping, slept,
                   failedBoth, fkBounds>>

\* A lease that nobody renews ages.
LeaseAges(q) ==
    /\ fork[q] = "live" /\ lease[q] = "fresh"
    /\ \/ terminal \in {"asleep", "down"}
       \/ active # q /\ start[q].pc = "end" /\ ~\E p \in Questions : start[p].frees = q
    /\ lease' = [lease EXCEPT ![q] = "stale"]
    /\ slept' = IF terminal = "asleep" THEN slept \cup {q} ELSE slept
    /\ UNCHANGED <<startGen, startPending, active, start, fork, terminal, sweeping, failedBoth,
                   fkBounds>>

FallAsleep ==
    /\ terminal = "up" /\ naps < MaxNaps
    /\ naps' = naps + 1 /\ terminal' = "asleep"
    /\ UNCHANGED <<startGen, startPending, active, start, fork, lease, sweeping, slept, failedBoth,
                   losses, ends, dismissals>>

WakeUp ==
    /\ terminal = "asleep"
    /\ terminal' = "up"
    /\ UNCHANGED <<startGen, startPending, active, start, fork, lease, sweeping, slept, failedBoth,
                   fkBounds>>

\* dispose cancels what is being started and releases the active fork.
TerminalDisposes ==
    /\ terminal = "up" /\ ends < MaxEnds
    /\ ends' = ends + 1
    /\ startGen' = startGen + 1 /\ startPending' = FALSE
    /\ terminal' = "disposing"
    /\ UNCHANGED <<active, start, fork, lease, sweeping, slept, failedBoth, losses, naps,
                   dismissals>>

TerminalDisposed ==
    /\ terminal = "disposing" /\ active # 0
    /\ DeleteOrNot(active)
    /\ active' = 0
    /\ UNCHANGED <<startGen, startPending, start, lease, terminal, sweeping, slept, failedBoth,
                   naps, ends, dismissals>>

TerminalDies ==
    /\ terminal # "down" /\ ends < MaxEnds
    /\ ends' = ends + 1 /\ terminal' = "down"
    /\ startGen' = startGen + 1 /\ startPending' = FALSE /\ active' = 0
    /\ start' = [q \in Questions |-> IF start[q].pc = "none" THEN NotAsked
                                     ELSE [NotAsked EXCEPT !.pc = "end",
                                                           !.lost = start[q].pc \in {"mark", "undo"}]]
    /\ UNCHANGED <<fork, lease, sweeping, slept, failedBoth, losses, naps, dismissals>>

\* sweepOrphans lists the sessions, and deletes one whose lease was stale then.
FindOrphan(q) ==
    /\ sweeping = 0 /\ fork[q] = "live" /\ lease[q] = "stale"
    /\ sweeping' = q
    /\ UNCHANGED <<startGen, startPending, active, start, fork, lease, terminal, slept, failedBoth,
                   fkBounds>>

SweepOrphan ==
    /\ sweeping # 0
    /\ sweeping' = 0
    /\ IF fork[sweeping] = "live" THEN DeleteOrNot(sweeping) ELSE UNCHANGED <<fork, losses>>
    /\ UNCHANGED <<startGen, startPending, active, start, lease, terminal, slept, failedBoth, naps,
                   ends, dismissals>>

FKNext ==
    \/ \E q \in Questions :
          \/ BeginQuestion(q) \/ Released(q) \/ MakeFork(q) \/ MarkFork(q) \/ Install(q)
          \/ Prompted(q) \/ Undo(q) \/ StartFailed(q) \/ Discard(q)
          \/ LeaseAges(q) \/ FindOrphan(q)
    \/ Dismiss \/ LeaseRenewed \/ FallAsleep \/ WakeUp \/ TerminalDisposes
    \/ TerminalDisposed \/ TerminalDies \/ SweepOrphan

FKSpec == FKInit /\ [][FKNext]_fkVars

-----------------------------------------------------------------------------
LookedAfter(q) ==
    \/ active = q
    \/ start[q].pc \in {"mark", "prepared", "empty", "prompt", "undo"}
    \/ \E p \in Questions : start[p].frees = q

\* No fork is left over while the terminal runs and no deletion fails, however
\* questions are asked over each other and dismissed; what is left otherwise is
\* marked for a sweep, unless the terminal died right after the fork was made.
NothingLeaks ==
    \A q \in Questions :
       fork[q] = "live" /\ ~LookedAfter(q) =>
          /\ losses > 0 \/ terminal = "down"
          /\ lease[q] # "none" \/ start[q].lost \/ q \in failedBoth

\* The active fork is there, unless a start that failed is about to say so, or the
\* terminal slept until its lease was stale.
ActiveForkExists ==
    terminal = "up" /\ active # 0 =>
       fork[active] = "live" \/ start[active].pc = "failed" \/ active \in slept

ForksAreAccounted == NothingLeaks /\ ActiveForkExists
=============================================================================
