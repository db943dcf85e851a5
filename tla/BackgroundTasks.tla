--------------------------- MODULE BackgroundTasks ---------------------------
(***************************************************************************)
(* The life of background commands (plugins/background-tasks/src/index.ts):*)
(* a background_run reserves a slot of its session, asks for permission,   *)
(* spawns and registers; the task ends, is killed, is pruned; concurrent   *)
(* background_kill and background_wait calls may take its exit into their  *)
(* own result, and otherwise a completion note is raised.                  *)
(*                                                                         *)
(* One session.  A run is one use of background_run and the task it makes. *)
(* Every step is what runs between two awaits.  A question (ctx.ask) of an *)
(* aborted turn may never settle.  The process group answers a signal as   *)
(* the keeper of process-group.ts may: see ProcessGroup; "absent" comes    *)
(* only with the group's own close.  Output is whether some is unread at   *)
(* the end; whether a pattern matches is a free choice.                    *)
(***************************************************************************)
EXTENDS Integers, FiniteSets, FiniteSetsExt

CONSTANTS
    Runs,          \* the runs, numbered in the order their ids are minted
    Kills, Waits,  \* the uses of background_kill and of background_wait
    MaxTasks,      \* options.maxTasksPerSession
    MaxFinished,   \* MAX_FINISHED
    MaxEscalations \* MAX_KILL_ESCALATIONS

ASSUME BTAssumption ==
    /\ IsFiniteSet(Runs) /\ IsFiniteSet(Kills) /\ IsFiniteSet(Waits)
    /\ MaxTasks \in Nat /\ MaxEscalations \in Nat \ {0}

VARIABLES
    run,           \* where each background_run stands
    aborted,       \* runs on their way whose turn was aborted
    pendingRuns,   \* reservations counted for the session
    task,          \* the tasks
    tool,          \* the kill and wait calls
    disposed, posix

btVars == <<run, aborted, pendingRuns, task, tool, disposed, posix>>

\* esc is killTimer: armed while a timer runs ("timer") and while the SIGKILL it
\* sent is out ("kill").  reason is "kill" for whoever asks but dispose.
NoTask == [reg |-> FALSE, state |-> "none", reason |-> "none", inline |-> FALSE,
           killWaiters |-> 0, unread |-> FALSE, discard |-> FALSE, cleanup |-> "pending",
           esc |-> "no", tries |-> 0, note |-> "no"]

\* Deleted from the list; kills that wait for its end still do.
Gone(t) == [NoTask EXCEPT !.state = "ended", !.note = t.note, !.discard = t.discard,
                          !.killWaiters = t.killWaiters]

\* exit: the call tells of the task's end.
Idle == [pc |-> "ready", of |-> 0, pattern |-> FALSE, exit |-> FALSE]

BTInit ==
    /\ run = [r \in Runs |-> "ready"]
    /\ aborted = {}
    /\ pendingRuns = 0
    /\ task = [r \in Runs |-> NoTask]
    /\ tool = [c \in Kills \cup Waits |-> Idle]
    /\ disposed = FALSE
    /\ posix \in BOOLEAN

-----------------------------------------------------------------------------
(* Terminating a group. *)

Over(t) == t.state = "ended"

\* A discarded task that ended is deleted once its group is settled.
Kept(t) == IF t.reg /\ Over(t) /\ t.discard /\ t.cleanup # "pending" THEN Gone(t) ELSE t

\* completeGroupCleanup: settles once.
Cleaned(t, result) ==
    IF t.cleanup # "pending" THEN t
    ELSE Kept([t EXCEPT !.cleanup = result, !.esc = "no", !.tries = 0])

\* needsGroupCleanup, and what it leaves: without a keeper the close of the
\* command completes the cleanup.
Needs(t) == t.cleanup = "pending" /\ (posix \/ ~Over(t))
Probed(t) == IF t.cleanup = "pending" /\ ~Needs(t) THEN Cleaned(t, "complete") ELSE t

\* killGroup: SIGTERM now, a timer for more.
KillGroup(t, reason) ==
    IF ~Needs(t) \/ t.esc # "no" THEN Probed(t)
    ELSE [t EXCEPT !.reason = IF ~Over(t) /\ t.reason = "none" THEN reason ELSE t.reason,
                   !.esc = "timer"]

DiscardTask(t, reason) == Kept(KillGroup([t EXCEPT !.discard = TRUE], reason))

Running(ts) == {r \in Runs : ts[r].reg /\ ts[r].state = "running"}
Finished(ts) == {r \in Runs : ts[r].reg /\ ts[r].state # "running" /\ ~ts[r].discard}

\* pruneFinished: those in old are read to the end and past FINISHED_TTL_MS;
\* then the oldest beyond the cap go.
Pruned(ts, old) ==
    LET aged == [r \in Runs |-> IF r \in old THEN DiscardTask(ts[r], "none") ELSE ts[r]]
        kept == Finished(aged)
        over == {r \in kept : Cardinality({s \in kept : s > r}) >= MaxFinished}
    IN  [r \in Runs |-> IF r \in over THEN DiscardTask(aged[r], "none") ELSE aged[r]]

Prune(ts) == \E old \in SUBSET {r \in Finished(ts) : ~ts[r].unread} : task' = Pruned(ts, old)

With(r, t) == [task EXCEPT ![r] = t]

\* A timer fires: SIGKILL.
Escalate(r) ==
    /\ task[r].esc = "timer"
    /\ task' = With(r, [task[r] EXCEPT !.esc = "kill"])
    /\ UNCHANGED <<run, aborted, pendingRuns, tool, disposed, posix>>

\* The SIGKILL is confirmed, or tried again until the attempts are over.
AfterKill(t, confirmed) ==
    IF confirmed THEN Cleaned(t, "complete")
    ELSE IF t.tries + 1 < MaxEscalations
    THEN [t EXCEPT !.esc = "timer", !.tries = t.tries + 1]
    ELSE Cleaned(t, "unverified")

\* escalate, after the answer; then the list is pruned.
KillAnswered(r) ==
    /\ task[r].esc = "kill"
    /\ \E confirmed \in {FALSE, posix} : Prune(With(r, AfterKill(task[r], confirmed)))
    /\ UNCHANGED <<run, aborted, pendingRuns, tool, disposed, posix>>

\* groupClosed: the keeper died with its group, or was lost.
GroupClosed(r) ==
    /\ posix /\ task[r].reg /\ task[r].cleanup = "pending"
    /\ \E result \in {"complete", "unverified"} : Prune(With(r, Cleaned(task[r], result)))
    /\ UNCHANGED <<run, aborted, pendingRuns, tool, disposed, posix>>

-----------------------------------------------------------------------------
(* background_run. *)

\* release: once per run, and an abort was the first time.
Release(r) ==
    pendingRuns' = IF r \in aborted THEN pendingRuns ELSE Max({0, pendingRuns - 1})

Fails(r) == run' = [run EXCEPT ![r] = "failed"]

\* The slot is claimed, unless the session has none or the turn is over already.
StartRun(r) ==
    /\ run[r] = "ready" /\ ~disposed
    /\ \/ Fails(r) /\ UNCHANGED pendingRuns
       \/ /\ Cardinality(Running(task)) + pendingRuns < MaxTasks
          /\ run' = [run EXCEPT ![r] = "scan"]
          /\ pendingRuns' = pendingRuns + 1
    /\ UNCHANGED <<aborted, task, tool, disposed, posix>>

AbortRun(r) ==
    /\ run[r] \in {"scan", "ask", "askDir", "spawn"} /\ r \notin aborted
    /\ aborted' = aborted \cup {r}
    /\ Release(r)
    /\ UNCHANGED <<run, task, tool, disposed, posix>>

\* The checks on resuming from an await, and where the run may go on to; a
\* refusal, or an unreadable script, fails it.
Resume(r) ==
    /\ run[r] \in {"scan", "ask", "askDir"}
    /\ LET stopped == r \in aborted \/ (disposed /\ run[r] # "scan")
           next == CASE run[r] = "scan" -> {"ask"}
                     [] run[r] = "ask" -> {"askDir", "spawn"}
                     [] run[r] = "askDir" -> {"spawn"}
       IN  \/ ~stopped /\ \E to \in next : run' = [run EXCEPT ![r] = to]
              /\ UNCHANGED <<pendingRuns, aborted>>
           \/ Fails(r) /\ Release(r) /\ aborted' = aborted \ {r}
    /\ UNCHANGED <<task, tool, disposed, posix>>

\* The process runs, but its turn or the plugin is gone: it is killed at once.
Unwanted(r) == disposed \/ r \in aborted

\* The spawn failed, or is undone by killing the whole tree; or the task lives.
Spawned(r) ==
    /\ run[r] = "spawn"
    /\ Release(r)
    /\ aborted' = aborted \ {r}
    /\ \/ Fails(r) /\ UNCHANGED task
       \/ /\ ~Unwanted(r)
          /\ run' = [run EXCEPT ![r] = "live"]
          /\ Prune(With(r, [NoTask EXCEPT !.reg = TRUE, !.state = "running"]))
    /\ UNCHANGED <<tool, disposed, posix>>

-----------------------------------------------------------------------------
(* Output, and the calls that wait for it. *)

Waiting(r) == {w \in Waits : tool[w].pc = "waiting" /\ tool[w].of = r}

Done(c) == [tool[c] EXCEPT !.pc = "done", !.pattern = FALSE, !.of = 0]
Told(c) == [tool[c] EXCEPT !.pc = "done", !.pattern = FALSE, !.exit = TRUE]

\* A chunk arrives; waiters whose pattern it matches are settled.
Output(r) ==
    /\ task[r].state = "running"
    /\ \E hit \in {w \in Waiting(r) : tool[w].pattern} : tool' = [tool EXCEPT ![hit] = Done(hit)]
    /\ UNCHANGED <<run, aborted, pendingRuns, task, disposed, posix>>

\* pumpWaitersFinal: the last line may match; every other waiter gets the exit.
Exits(r, hits) ==
    [c \in DOMAIN tool |-> IF c \in hits THEN Done(c)
                           ELSE IF c \in Waiting(r) THEN Told(c) ELSE tool[c]]

\* deliverNotification, as far as it decides whether a note is raised.
Note(t, inline) ==
    IF t.discard \/ t.reason = "dispose" THEN "dropped"
    ELSE IF inline THEN "suppressed" ELSE "raised"

\* finalize, when the command and its output are closed.
Finalize(r) ==
    /\ task[r].state = "running"
    /\ \E hits \in SUBSET {w \in Waiting(r) : tool[w].pattern}, unread \in BOOLEAN :
          LET t == [task[r] EXCEPT
                       !.state = "ended", !.unread = unread, !.inline = FALSE,
                       !.note = Note(task[r], task[r].inline \/ Waiting(r) \ hits # {})]
          IN  Prune(With(r, Kept(Probed(t)))) /\ tool' = Exits(r, hits)
    /\ UNCHANGED <<run, aborted, pendingRuns, disposed, posix>>

ReadUnread(r) == task' = With(r, [task[r] EXCEPT !.unread = FALSE])

\* background_output
Read(r) ==
    /\ task[r].reg /\ task[r].unread
    /\ ReadUnread(r)
    /\ UNCHANGED <<run, aborted, pendingRuns, tool, disposed, posix>>

\* background_wait: what is there already, or a waiter.
StartWait(w, r) ==
    /\ tool[w].pc = "ready" /\ task[r].reg
    /\ \/ tool' = [tool EXCEPT ![w] = Done(w)] /\ UNCHANGED task  \* an unread line matches
       \/ Over(task[r]) /\ tool' = [tool EXCEPT ![w] = Done(w)] /\ ReadUnread(r)
       \/ /\ task[r].state = "running"
          /\ \E pattern \in BOOLEAN :
                tool' = [tool EXCEPT ![w] = [Idle EXCEPT !.pc = "waiting", !.of = r,
                                                         !.pattern = pattern]]
          /\ UNCHANGED task
    /\ UNCHANGED <<run, aborted, pendingRuns, disposed, posix>>

\* The timeout of a wait, or the abort of its turn.
EndWait(w) ==
    /\ tool[w].pc = "waiting"
    /\ tool' = [tool EXCEPT ![w] = Done(w)]
    /\ UNCHANGED <<run, aborted, pendingRuns, task, disposed, posix>>

-----------------------------------------------------------------------------
(* background_kill. *)

StartKill(k, r) ==
    /\ tool[k].pc = "ready" /\ task[r].reg
    /\ IF Over(task[r])
       THEN /\ tool' = [tool EXCEPT ![k] = Done(k)]
            /\ task' = With(r, [KillGroup(task[r], "kill") EXCEPT !.unread = FALSE])
       ELSE /\ task[r].cleanup # "unverified"
            /\ tool' = [tool EXCEPT ![k] = [Idle EXCEPT !.pc = "confirming", !.of = r]]
            /\ task' = With(r, [KillGroup(task[r], "kill") EXCEPT
                                   !.inline = TRUE, !.killWaiters = task[r].killWaiters + 1])
    /\ UNCHANGED <<run, aborted, pendingRuns, disposed, posix>>

\* Mutant of Unsuppressed: a kill that gives up does not look at the others.
MutUnsuppressed(t) == ~Over(t)

\* The last kill to give up lifts the suppression.
Unsuppressed(t) == ~Over(t) /\ t.killWaiters = 1

\* The exit is confirmed, or killConfirmMs have passed without it.
EndKill(k) ==
    /\ tool[k].pc = "confirming"
    /\ LET r == tool[k].of
           t == task[r]
       IN  /\ tool' = [tool EXCEPT ![k] = IF Over(t) THEN Told(k) ELSE Done(k)]
           /\ task' = With(r, [t EXCEPT !.killWaiters = t.killWaiters - 1,
                                        !.inline = t.inline /\ ~Unsuppressed(t),
                                        !.unread = t.unread /\ ~Over(t)])
    /\ UNCHANGED <<run, aborted, pendingRuns, disposed, posix>>

\* The terminal's kill request, or the task's own time limit.
Stop(r) ==
    /\ task[r].reg
    /\ task' = With(r, KillGroup(task[r], "kill"))
    /\ UNCHANGED <<run, aborted, pendingRuns, tool, disposed, posix>>

\* The session is deleted.
SessionGone ==
    /\ ~disposed
    /\ task' = [r \in Runs |-> IF task[r].reg THEN DiscardTask(task[r], "kill") ELSE task[r]]
    /\ UNCHANGED <<run, aborted, pendingRuns, tool, disposed, posix>>

\* dispose: everything kept is killed, and later runs find the flag.
Dispose ==
    /\ ~disposed
    /\ disposed' = TRUE
    /\ pendingRuns' = 0
    /\ task' = [r \in Runs |-> IF task[r].reg THEN KillGroup(task[r], "dispose") ELSE task[r]]
    /\ UNCHANGED <<run, aborted, tool, posix>>

BTNext ==
    \/ \E r \in Runs :
          \/ StartRun(r) \/ AbortRun(r) \/ Resume(r) \/ Spawned(r)
          \/ Output(r) \/ Finalize(r) \/ Read(r)
          \/ Escalate(r) \/ KillAnswered(r) \/ GroupClosed(r) \/ Stop(r)
          \/ \E k \in Kills : StartKill(k, r)
          \/ \E w \in Waits : StartWait(w, r)
    \/ \E k \in Kills : EndKill(k)
    \/ \E w \in Waits : EndWait(w)
    \/ SessionGone
    \/ Dispose

BTSpec == BTInit /\ [][BTNext]_btVars

-----------------------------------------------------------------------------
\* Calls that have told, or are about to tell, the model of the exit of r.
Tellers(r) == {c \in DOMAIN tool : tool[c].of = r /\ (tool[c].pc = "confirming" \/ tool[c].exit)}

\* The end of a command is reported once: a note is raised exactly when no call
\* that was waiting for it tells of it, whichever kills gave up before.
ReportedOnce ==
    \A r \in Runs : /\ task[r].note = "raised" => Tellers(r) = {}
                    /\ task[r].note = "suppressed" => Tellers(r) # {}

\* Running tasks and open reservations never exceed the session's cap, though
\* an abort gives a reservation back while its run is still on its way.
SlotsHold == Cardinality(Running(task)) + pendingRuns <= MaxTasks

\* Nothing is forgotten half killed: a task that is discarded, or runs on after
\* the plugin is disposed, has a timer or a signal out that settles its group,
\* whatever else was asked meanwhile, and only so many times.
KillsInHand ==
    \A r \in Runs :
        LET t == task[r]
        IN  /\ t.reg /\ (t.discard \/ (disposed /\ t.state = "running"))
                  => t.esc # "no" \/ t.cleanup # "pending"
            /\ t.tries < MaxEscalations

\* No exit, no slot and no half-killed task gets out of hand.
TasksInHand == ReportedOnce /\ SlotsHold /\ KillsInHand
=============================================================================
