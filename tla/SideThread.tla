----------------------------- MODULE SideThread -----------------------------
(***************************************************************************)
(* A side question of btw once its fork is prepared: the prompt and its    *)
(* follow-ups, events of runs that were aborted, aborts that land late,    *)
(* the heartbeat of the marker, and the opening of the fork as a session   *)
(* of its own (createBtwController and dispatchSidePrompt).                *)
(*                                                                         *)
(* Exchanges are numbered, and so are their prompts.  The host runs one    *)
(* loop per session, which answers every prompt it was given; it takes     *)
(* concurrent requests in any order, and publishes events in order.  Which *)
(* parts make up an answer is left out, and so is compaction.  A user does *)
(* not type a follow-up before the events of a run that ended by itself    *)
(* have arrived.                                                           *)
(***************************************************************************)
EXTENDS Integers, Sequences, FiniteSets

CONSTANTS
    MaxExchanges, MaxAbortCalls, MaxMishaps,
    Plans           \* how many exchanges, beats and openings there may be, and whether
                    \* the option keepSessions is set

ASSUME STAssumption ==
    /\ MaxExchanges \in Nat \ {0} /\ MaxAbortCalls \in Nat /\ MaxMishaps \in Nat
    /\ Plans \subseteq [exchanges : 0..MaxExchanges, beats : Nat, opens : Nat, keeps : BOOLEAN]

VARIABLES
    plan,         \* one of Plans
    forkOwner,        \* who has the fork: the controller, the user, or nobody
    thread,       \* the controller's record of the active fork
    initial,      \* the dispatch of the first prompt
    attempt,      \* followUp: those that were made
    panel,        \* the exchanges in the panel
    prompt,       \* the prompts, with the host
    runs,          \* what the host made of each
    inbox,        \* events on their way
    abortCall,    \* abort requests
    marked, forkExists,                      \* the fork, with the host
    beat, opening, releasing,            \* heartbeat, runOpen, release
    amiss,                               \* auxiliary: what was lost without anyone being told
    beatCalls, opens, mishaps

stHost == <<prompt, runs, inbox>>
stSession == <<marked, forkExists>>
stCalls == <<beat, opening, releasing>>
stBounds == <<amiss, beatCalls, opens, mishaps>>
stVars == <<plan, forkOwner, thread, initial, attempt, panel, stHost, abortCall, stSession, stCalls,
            stBounds>>

Exchanges == 1..MaxExchanges
CurrentExchange ==
    CHOOSE e \in Exchanges :
       /\ panel[e] # "none"
       /\ \A f \in Exchanges : f > e => panel[f] = "none"

NoAttempt0 == [pc |-> "none", cancelled |-> FALSE, pending |-> FALSE, accepted |-> FALSE]
NoAbortCall == [pc |-> "free", of |-> 0, waiter |-> 0]
NoWaiter == 0
TheFirst == 1
TheReleaser == MaxExchanges + 1

STRest ==
    /\ forkOwner = "controller"
    /\ thread = [streaming |-> TRUE, accepting |-> TRUE, prompted |-> TRUE, assistant |-> FALSE,
                 needsAssistant |-> FALSE, stale |-> FALSE, pending |-> TRUE, cancelled |-> FALSE,
                 aborts |-> 0, beating |-> TRUE]
    /\ initial = "prompt"
    /\ attempt = [e \in Exchanges |-> NoAttempt0]
    /\ panel = [e \in Exchanges |-> IF e = 1 THEN "streaming" ELSE "none"]
    /\ prompt = [e \in Exchanges |-> IF e = 1 THEN "sent" ELSE "none"]
    /\ runs = [e \in Exchanges |-> "none"]
    /\ inbox = <<>>
    /\ abortCall = [a \in 1..MaxAbortCalls |-> NoAbortCall]
    /\ marked = TRUE /\ forkExists = TRUE
    /\ beat = "idle" /\ opening = "idle" /\ releasing = "none"
    /\ amiss = {} /\ beatCalls = 0 /\ opens = 0 /\ mishaps = 0

STInit == STRest /\ plan \in Plans

SideMishap == mishaps < MaxMishaps /\ mishaps' = mishaps + 1

-----------------------------------------------------------------------------
(* The host                                                                *)

Loop == {e \in Exchanges : runs[e] \in {"running", "answered"}}

Burst(types, own) == [i \in DOMAIN types |-> [type |-> types[i], of |-> 0, own |-> own]]

\* A prompt whose transport failed may still arrive.
PromptArrives(e) ==
    /\ prompt[e] = "sent" /\ forkExists
    /\ \/ /\ prompt' = [prompt EXCEPT ![e] = "admitted"]
          /\ runs' = [runs EXCEPT ![e] = "running"]
          /\ UNCHANGED mishaps
       \/ /\ SideMishap
          /\ prompt' = [prompt EXCEPT ![e] = "refused"]
          /\ UNCHANGED runs
    /\ UNCHANGED <<plan, forkOwner, thread, initial, attempt, panel, inbox, abortCall, stSession,
                   stCalls, amiss, beatCalls, opens>>

RunAnswers(e) ==
    /\ runs[e] = "running"
    /\ runs' = [runs EXCEPT ![e] = "answered"]
    /\ inbox' = Append(inbox, [type |-> "answer", of |-> e, own |-> TRUE])
    /\ UNCHANGED <<plan, forkOwner, thread, initial, attempt, panel, prompt, abortCall, stSession,
                   stCalls, stBounds>>

RunEnds ==
    /\ Loop # {}
    /\ \/ /\ \A e \in Loop : runs[e] = "answered"
          /\ runs' = [e \in Exchanges |-> IF e \in Loop THEN "finished" ELSE runs[e]]
          /\ inbox' = inbox \o Burst(<<"idle">>, TRUE)
          /\ UNCHANGED mishaps
       \/ /\ SideMishap
          /\ runs' = [e \in Exchanges |-> IF e \in Loop THEN "failed" ELSE runs[e]]
          /\ inbox' = inbox \o Burst(<<"error", "idle">>, TRUE)
    /\ UNCHANGED <<plan, forkOwner, thread, initial, attempt, panel, prompt, abortCall, stSession,
                   stCalls, amiss, beatCalls, opens>>

\* Something else granted a tool to the run.
ToolGranted ==
    /\ Loop # {} /\ SideMishap
    /\ inbox' = inbox \o Burst(<<"granted">>, TRUE)
    /\ UNCHANGED <<plan, forkOwner, thread, initial, attempt, panel, prompt, runs, abortCall,
                   stSession, stCalls, amiss, beatCalls, opens>>

\* An abort stops whatever runs when it lands; of a session at rest it publishes
\* an idle, or nothing.
AbortLands(a) ==
    /\ abortCall[a].pc \in {"sent", "late"}
    /\ abortCall' = [abortCall EXCEPT ![a] = IF @.pc = "late" THEN NoAbortCall
                                                    ELSE [@ EXCEPT !.pc = "landed"]]
    /\ runs' = [e \in Exchanges |-> IF e \in Loop THEN "aborted" ELSE runs[e]]
    /\ \/ inbox' = inbox \o Burst(IF Loop # {} THEN <<"error", "idle">> ELSE <<"idle">>, FALSE)
       \/ Loop = {} /\ UNCHANGED inbox
    /\ UNCHANGED <<plan, forkOwner, thread, initial, attempt, panel, prompt, stSession, stCalls,
                   stBounds>>

-----------------------------------------------------------------------------
(* Steps the handlers are made of                                          *)

\* A follow-up that is still looked up has nothing to abort.
NeedsAbort == ~(CurrentExchange > 1 /\ ~thread.prompted)

\* abortRun: as the thread has it, and as a request that waiter awaits.
Aborting(t) == IF NeedsAbort THEN [t EXCEPT !.stale = TRUE, !.aborts = @ + 1] ELSE t
SendAbort(waiter) ==
    IF NeedsAbort
    THEN \E a \in DOMAIN abortCall :
            /\ abortCall[a].pc = "free" /\ \A b \in 1..a - 1 : abortCall[b].pc # "free"
            /\ abortCall' = [abortCall EXCEPT ![a] = [pc |-> "sent", of |-> CurrentExchange,
                                                         waiter |-> waiter]]
    ELSE UNCHANGED abortCall

\* finishStreaming, for the thread, the attempt and the panel.
StreamOver(t, status) ==
    [t EXCEPT !.streaming = FALSE, !.accepting = FALSE,
              !.cancelled = @ \/ (t.pending /\ status # "done")]
FinishAttempt(status) ==
    attempt' = IF CurrentExchange = 1 THEN attempt
               ELSE [attempt EXCEPT
                        ![CurrentExchange].pending = @ /\ ~(status = "done" /\ thread.assistant
                                                    /\ ~attempt[CurrentExchange].cancelled),
                        ![CurrentExchange].cancelled = @ \/ status # "done"]
Show(status) ==
    panel' = IF panel[CurrentExchange] = "streaming"
             THEN [panel EXCEPT ![CurrentExchange] = status] ELSE panel

StopRun(status) ==
    /\ SendAbort(NoWaiter)
    /\ thread' = StreamOver(Aborting(thread), status)
    /\ FinishAttempt(status)
    /\ Show(status)

-----------------------------------------------------------------------------
(* Prompts                                                                 *)

\* startSideQuestion: a prompt that is refused takes its fork with it; a dispatch
\* that was cancelled meanwhile is made up for with another abort.
InitialDispatched ==
    /\ initial = "prompt"
    /\ \/ /\ prompt[1] = "refused"
          /\ initial' = "end" /\ forkExists' = FALSE
          /\ forkOwner' = "nobody"
          /\ panel' = IF forkOwner = "controller" /\ panel[1] = "streaming"
                      THEN [panel EXCEPT ![1] = "stopped"] ELSE panel
          /\ thread' = [thread EXCEPT !.streaming = FALSE, !.pending = FALSE]
          /\ UNCHANGED <<abortCall, amiss, mishaps>>
       \/ /\ prompt[1] # "refused"
          /\ IF prompt[1] = "admitted" THEN UNCHANGED <<amiss, mishaps>>
             ELSE SideMishap /\ amiss' = amiss \cup {"prompt"}
          /\ IF forkOwner # "controller" \/ thread.cancelled
             THEN /\ SendAbort(TheFirst)
                  /\ thread' = Aborting(thread)
                  /\ initial' = "abort"
             ELSE /\ initial' = "end"
                  /\ thread' = [thread EXCEPT !.pending = FALSE]
                  /\ UNCHANGED abortCall
          /\ UNCHANGED <<forkExists, forkOwner, panel>>
    /\ UNCHANGED <<plan, attempt, stHost, marked, stCalls, beatCalls, opens>>

\* Mutant of CanReuse: an abort that nobody answered is not waited for.
MutCanReuse == /\ ~thread.pending
               /\ CurrentExchange = 1 \/ ~attempt[CurrentExchange].pending

CanReuse == /\ ~thread.pending /\ thread.aborts = 0
            /\ CurrentExchange = 1 \/ ~attempt[CurrentExchange].pending

AskFollowUp ==
    LET e == CurrentExchange + 1 IN
    /\ forkOwner = "controller" /\ ~thread.streaming /\ CanReuse
    /\ e <= plan.exchanges
    /\ ~\E i \in DOMAIN inbox : inbox[i].own
    /\ thread' = [thread EXCEPT !.streaming = TRUE, !.accepting = FALSE, !.prompted = FALSE,
                                !.assistant = FALSE, !.needsAssistant = thread.stale]
    /\ attempt' = [attempt EXCEPT ![e].pc = "get"]
    /\ panel' = [panel EXCEPT ![e] = "streaming"]
    /\ UNCHANGED <<plan, forkOwner, initial, stHost, abortCall, stSession, stCalls, stBounds>>

\* What is compared after every await: the attempt is the thread's, and streams.
Stale(e) == forkOwner # "controller" \/ CurrentExchange # e \/ ~thread.streaming

FollowUpLookedUp(e) ==
    /\ attempt[e].pc = "get"
    /\ \/ /\ Stale(e)
          /\ attempt' = [attempt EXCEPT ![e].pc = "end"]
          /\ UNCHANGED <<thread, panel, prompt, mishaps>>
       \/ /\ ~Stale(e)
          /\ thread' = [thread EXCEPT !.prompted = TRUE, !.accepting = TRUE]
          /\ attempt' = [attempt EXCEPT ![e].pc = "prompt", ![e].pending = TRUE]
          /\ prompt' = [prompt EXCEPT ![e] = "sent"]
          /\ UNCHANGED <<panel, mishaps>>
       \/ /\ ~Stale(e) /\ SideMishap
          /\ thread' = StreamOver(thread, "stopped")
          /\ attempt' = [attempt EXCEPT ![e].pc = "end", ![e].cancelled = TRUE]
          /\ Show("stopped")
          /\ UNCHANGED prompt
    /\ UNCHANGED <<plan, forkOwner, initial, runs, inbox, abortCall, stSession, stCalls,
                   amiss, beatCalls, opens>>

\* dispatchSidePrompt: an answer or a look-up that finds the prompt is accepted; a
\* transport that failed, or was cancelled with the exchange, is ambiguous.
DispatchSidePrompt(e, outcome) ==
    CASE outcome = "accepted"  -> prompt[e] = "admitted" /\ UNCHANGED mishaps
      [] outcome = "refused"   -> prompt[e] = "refused" /\ ~Stale(e) /\ UNCHANGED mishaps
      [] outcome = "ambiguous" -> IF Stale(e) THEN UNCHANGED mishaps ELSE SideMishap

\* What was cancelled meanwhile is aborted once more, and not reused before that.
FollowUpDispatched(e) ==
    \E outcome \in {"accepted", "ambiguous", "refused"} :
    /\ attempt[e].pc = "prompt"
    /\ DispatchSidePrompt(e, outcome)
    /\ IF outcome = "refused"
       THEN /\ thread' = StreamOver(thread, "stopped")
            /\ attempt' = [attempt EXCEPT ![e].pc = "end", ![e].pending = FALSE, ![e].cancelled = TRUE]
            /\ Show("stopped")
            /\ UNCHANGED abortCall
       ELSE IF /\ attempt[e].cancelled /\ forkOwner # "user"
               /\ forkOwner # "controller" \/ CurrentExchange = e
       THEN /\ SendAbort(e)
            /\ thread' = Aborting(thread)
            /\ attempt' = [attempt EXCEPT ![e].pc = "abort", ![e].accepted = outcome = "accepted"]
            /\ UNCHANGED panel
       ELSE /\ attempt' = [attempt EXCEPT ![e].pc = "end", ![e].pending = @ /\ outcome # "accepted"]
            /\ UNCHANGED <<thread, panel, abortCall>>
    /\ UNCHANGED <<plan, forkOwner, initial, stHost, stSession, stCalls, amiss, beatCalls,
                   opens>>

\* An abort that failed or timed out is counted for ever: it may still land.
AbortReturns(a) ==
    \E aborted \in BOOLEAN :
    LET w == abortCall[a].waiter IN
    /\ abortCall[a].pc \in {"sent", "landed"}
    /\ IF aborted THEN abortCall[a].pc = "landed" /\ UNCHANGED mishaps ELSE SideMishap
    /\ abortCall' = [abortCall EXCEPT ![a] = IF @.pc = "sent" THEN [@ EXCEPT !.pc = "late", !.waiter = 0]
                                             ELSE NoAbortCall]
    /\ thread' = [thread EXCEPT !.aborts = IF aborted THEN @ - 1 ELSE @,
                                !.pending = @ /\ w # TheFirst]
    /\ initial' = IF w = TheFirst THEN "end" ELSE initial
    /\ attempt' = IF w \in 2..MaxExchanges
                  THEN [attempt EXCEPT ![w].pc = "end",
                                       ![w].pending = @ /\ ~(aborted /\ attempt[w].accepted)]
                  ELSE attempt
    /\ releasing' = IF w = TheReleaser THEN "clear" ELSE releasing
    /\ UNCHANGED <<plan, forkOwner, panel, stHost, stSession, beat, opening, amiss,
                   beatCalls, opens>>

-----------------------------------------------------------------------------
(* Events, the user and the watchdog                                       *)

TakesTerminal == thread.streaming /\ thread.accepting /\ (~thread.needsAssistant \/ thread.assistant)

\* An event of a run that was aborted is only told from the current run's by an
\* assistant of the current prompt; events may be lost.
EventArrives ==
    LET event == inbox[1] IN
    /\ inbox # <<>>
    /\ inbox' = Tail(inbox)
    /\ \/ /\ SideMishap
          /\ amiss' = IF event.own THEN amiss \cup {"event"} ELSE amiss
          /\ UNCHANGED <<thread, attempt, panel, abortCall>>
       \/ /\ UNCHANGED <<amiss, mishaps>>
          /\ CASE forkOwner # "controller" -> UNCHANGED <<thread, attempt, panel, abortCall>>
               [] forkOwner = "controller" /\ event.type = "granted" -> StopRun("stopped")
               [] forkOwner = "controller" /\ event.type = "answer" ->
                     /\ thread' = IF thread.accepting /\ thread.prompted /\ event.of = CurrentExchange
                                  THEN [thread EXCEPT !.assistant = TRUE, !.stale = FALSE,
                                                      !.needsAssistant = FALSE]
                                  ELSE thread
                     /\ UNCHANGED <<attempt, panel, abortCall>>
               [] forkOwner = "controller" /\ event.type \in {"idle", "error"} ->
                     LET status == IF event.type = "idle" THEN "done" ELSE "failed"
                     IN  /\ IF TakesTerminal
                            THEN /\ thread' = [StreamOver(thread, status) EXCEPT !.stale = FALSE]
                                 /\ FinishAttempt(status)
                                 /\ Show(status)
                            ELSE UNCHANGED <<thread, attempt, panel>>
                         /\ UNCHANGED abortCall
    /\ UNCHANGED <<plan, forkOwner, initial, prompt, runs, stSession, stCalls, beatCalls,
                   opens>>

\* onPanelDismiss, and the watchdog when nothing has come for too long: whatever
\* ends an exchange but the model counts as stopped.
StopStreaming ==
    /\ forkOwner = "controller" /\ thread.streaming
    /\ StopRun("stopped")
    /\ UNCHANGED <<plan, forkOwner, initial, stHost, stSession, stCalls, stBounds>>

-----------------------------------------------------------------------------
(* Who has the fork                                                        *)

\* release: for another question, or at the end.
LetGo ==
    /\ forkOwner = "controller"
    /\ forkOwner' = "nobody"
    /\ attempt' = IF CurrentExchange = 1 THEN attempt
                  ELSE [attempt EXCEPT ![CurrentExchange].cancelled = @ \/ thread.streaming]
    /\ IF thread.streaming
       THEN SendAbort(TheReleaser) /\ thread' = Aborting(thread)
       ELSE UNCHANGED <<abortCall, thread>>
    /\ releasing' = IF thread.streaming /\ NeedsAbort THEN "abort" ELSE "clear"
    /\ UNCHANGED <<plan, initial, panel, stHost, stSession, beat, opening, stBounds>>

\* A fork that is kept is unmarked, another deleted.
ClearFork ==
    /\ releasing = "clear"
    /\ releasing' = "end"
    /\ \/ /\ marked' = (marked /\ ~plan.keeps) /\ forkExists' = (forkExists /\ plan.keeps)
          /\ UNCHANGED <<amiss, mishaps>>
       \/ /\ SideMishap /\ amiss' = amiss \cup {"unmark"}
          /\ UNCHANGED stSession
    /\ UNCHANGED <<plan, forkOwner, thread, initial, attempt, panel, stHost, abortCall, beat,
                   opening, beatCalls, opens>>

StartBeat ==
    /\ forkOwner = "controller" /\ thread.beating /\ beat = "idle"
    /\ beatCalls < plan.beats
    /\ beatCalls' = beatCalls + 1
    /\ beat' = "mark"
    /\ UNCHANGED <<plan, forkOwner, thread, initial, attempt, panel, stHost, abortCall, stSession,
                   opening, releasing, amiss, opens, mishaps>>

BeatMarks ==
    /\ beat = "mark"
    /\ beat' = "marked"
    /\ \/ marked' = TRUE /\ UNCHANGED mishaps
       \/ SideMishap /\ UNCHANGED marked
    /\ UNCHANGED <<plan, forkOwner, thread, initial, attempt, panel, stHost, abortCall, forkExists,
                   opening, releasing, amiss, beatCalls, opens>>

\* A beat that raced a release or a promotion takes its mark back.
BeatIsDue == forkOwner # "controller" \/ ~thread.beating

BeatReturns ==
    /\ beat = "marked"
    /\ beat' = IF BeatIsDue THEN "unmark" ELSE "idle"
    /\ UNCHANGED <<plan, forkOwner, thread, initial, attempt, panel, stHost, abortCall, stSession,
                   opening, releasing, stBounds>>

BeatUnmarks ==
    /\ beat = "unmark"
    /\ beat' = "idle"
    /\ \/ marked' = FALSE /\ UNCHANGED <<amiss, mishaps>>
       \/ SideMishap /\ amiss' = amiss \cup {"unmark"} /\ UNCHANGED marked
    /\ UNCHANGED <<plan, forkOwner, thread, initial, attempt, panel, stHost, abortCall, forkExists,
                   opening, releasing, beatCalls, opens>>

OpenFork ==
    /\ forkOwner = "controller" /\ CanReuse /\ opening = "idle"
    /\ opens < plan.opens
    /\ opens' = opens + 1
    /\ opening' = "unmark"
    /\ thread' = [thread EXCEPT !.beating = FALSE]
    /\ UNCHANGED <<plan, forkOwner, initial, attempt, panel, stHost, abortCall, stSession, beat,
                   releasing, amiss, beatCalls, mishaps>>

OpenUnmarks ==
    /\ opening = "unmark"
    /\ \/ /\ opening' = "unmarked" /\ marked' = FALSE
          /\ UNCHANGED <<thread, mishaps>>
       \/ /\ SideMishap /\ opening' = "idle"
          /\ thread' = [thread EXCEPT !.beating = TRUE]
          /\ UNCHANGED marked
    /\ UNCHANGED <<plan, forkOwner, initial, attempt, panel, stHost, abortCall, forkExists, beat,
                   releasing, amiss, beatCalls, opens>>

\* A dismissal in between leaves the fork guarded and the controller's.
OpenReturns ==
    /\ opening = "unmarked"
    /\ IF forkOwner # "controller"
       THEN opening' = "idle" /\ UNCHANGED <<forkOwner, thread>>
       ELSE IF ~CanReuse
       THEN opening' = "remark" /\ UNCHANGED <<forkOwner, thread>>
       ELSE opening' = "idle" /\ forkOwner' = "user" /\ UNCHANGED thread
    /\ UNCHANGED <<plan, initial, attempt, panel, stHost, abortCall, stSession, beat, releasing,
                   stBounds>>

OpenRemarks ==
    /\ opening = "remark"
    /\ opening' = "remarked"
    /\ marked' = TRUE
    /\ UNCHANGED <<plan, forkOwner, thread, initial, attempt, panel, stHost, abortCall, forkExists,
                   beat, releasing, stBounds>>

OpenGivesUp ==
    /\ opening = "remarked"
    /\ opening' = "idle"
    /\ marked' = (marked /\ forkOwner = "controller")
    /\ thread' = [thread EXCEPT !.beating = TRUE]
    /\ UNCHANGED <<plan, forkOwner, initial, attempt, panel, stHost, abortCall, forkExists, beat,
                   releasing, stBounds>>

STNext ==
    \/ \E e \in Exchanges : \/ PromptArrives(e) \/ RunAnswers(e)
                            \/ FollowUpLookedUp(e) \/ FollowUpDispatched(e)
    \/ \E a \in DOMAIN abortCall : AbortLands(a) \/ AbortReturns(a)
    \/ RunEnds \/ ToolGranted \/ EventArrives
    \/ InitialDispatched \/ AskFollowUp \/ StopStreaming
    \/ LetGo \/ ClearFork \/ StartBeat \/ BeatMarks \/ BeatReturns \/ BeatUnmarks
    \/ OpenFork \/ OpenUnmarks \/ OpenReturns \/ OpenRemarks \/ OpenGivesUp

STSpec == STInit /\ [][STNext]_stVars

-----------------------------------------------------------------------------
STTypeOK ==
    /\ forkOwner \in {"controller", "user", "nobody"}
    /\ thread.aborts \in 0..Cardinality(DOMAIN abortCall) + MaxMishaps
    /\ \A e \in Exchanges : panel[e] \in {"none", "streaming", "done", "stopped", "failed"}
    /\ \A e \in Exchanges : attempt[e].pc \in {"none", "get", "prompt", "abort", "end"}

\* Of a first prompt nobody knows if it will arrive; the exchange after it is safe,
\* since it waits for an answer of its own.
Unsafe(e) == "prompt" \in amiss /\ (e > 2 \/ (e = 2 /\ "event" \in amiss))

\* An exchange is called answered, or failed by the model, only when its own run
\* ended so: no event of another run is taken for it. Only a failure of which the
\* event was lost passes for an answer.
EndsAreItsOwn ==
    \A e \in Exchanges :
        /\ panel[e] = "done" => \/ runs[e] = "finished"
                                \/ runs[e] = "failed" /\ "event" \in amiss
                                \/ Unsafe(e)
        /\ panel[e] = "failed" => runs[e] = "failed" \/ Unsafe(e)

\* A fork that is the user's exists, and when no request is under way it is not
\* marked, so that no sweep takes it, nor one that is kept.
HandedOverClean ==
    /\ forkOwner = "user" => forkExists
    /\ /\ beat = "idle" /\ opening = "idle" /\ releasing \in {"none", "end"}
       /\ forkOwner = "user" \/ (forkOwner = "nobody" /\ plan.keeps)
       /\ forkExists /\ "unmark" \notin amiss
       => ~marked

\* An abort stops no run of a later exchange, and nothing the user does.
AbortsAreAimed ==
    [][\A a \in DOMAIN abortCall :
          abortCall[a].pc \in {"sent", "late"} /\ runs' # runs /\ abortCall'[a] # abortCall[a]
          => forkOwner # "user" /\ \A e \in Loop : e <= abortCall[a].of]_stVars

ThreadIsSound == STTypeOK /\ EndsAreItsOwn /\ HandedOverClean

\* What a side question shows is its own, what it stops is its own, and the user
\* gets a session that is no longer marked.
ThreadsAreKept == []ThreadIsSound /\ AbortsAreAimed
=============================================================================
