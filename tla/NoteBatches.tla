----------------------------- MODULE NoteBatches -----------------------------
(***************************************************************************)
(* How completion notes of background tasks reach their session            *)
(* (plugins/background-tasks/src/index.ts): notes wait for the session to  *)
(* be idle, go out together in a batch, are retried only while the host    *)
(* surely did not take them, and are given up with their session.          *)
(*                                                                         *)
(* One queue per session; its first job stands between two awaits.  The    *)
(* host may accept, refuse or not answer a prompt; an accepted or          *)
(* unanswered one may have noteLanded.  Whether a session reads as busy is a   *)
(* free choice here, the plugin's own mark included: CronDelivery follows  *)
(* that reading.  The bound on sessions with waiting notes (trim) is not   *)
(* modelled.                                                               *)
(***************************************************************************)
EXTENDS Integers, Sequences, FiniteSets, SequencesExt

CONSTANTS
    Notes, Sessions,
    Owner,         \* the session of each note
    MaxPending,    \* MAX_PENDING_NOTES
    MaxSessions,   \* MAX_NOTIFICATION_SESSIONS
    Delays,        \* the number of NOTIFY_RETRY_DELAYS_MS
    MaxGone        \* bound on deletions of sessions

VARIABLES
    waiting,       \* notes whose task still runs
    parkedNotes,   \* pendingNotes: a sequence per session
    jobs,          \* the queue of each session: notes to post, or a batch
    step,          \* where its first job stands
    batches,       \* all batches made: "job", "timer" or "parked" while active, then
                   \* "over", be it delivered, ambiguous or failed
    tokens,        \* the sessions with a delivery token, oldest first
    noteLanded,    \* host: how often a message with this note was stored
    stored,        \* host: was the message of the last attempt stored?
    lost,          \* auxiliary: notes given up outside a batch
    shut,          \* disposed
    gone

nbVars == <<waiting, parkedNotes, jobs, step, batches, tokens, noteLanded, stored, lost, shut, gone>>

NBInit ==
    /\ waiting = Notes
    /\ parkedNotes = [s \in Sessions |-> <<>>]
    /\ jobs = [s \in Sessions |-> <<>>]
    /\ step = [s \in Sessions |-> "start"]
    /\ batches = <<>>
    /\ tokens = <<>>
    /\ noteLanded = [n \in Notes |-> 0]
    /\ stored = [s \in Sessions |-> FALSE]
    /\ lost = {}
    /\ shut = FALSE /\ gone = 0

Active(b) == batches[b].place # "over"

Over(b) == [b EXCEPT !.place = "over", !.attempts = 0]

\* The session that gives its token up when another one needs it.
Evicted(s) == IF s \notin ToSet(tokens) /\ Len(tokens) >= MaxSessions THEN {Head(tokens)} ELSE {}

\* The active batches of sessions that lose their token.
Doomed(bs, gones) == {b \in DOMAIN bs : bs[b].place # "over" /\ bs[b].of \in gones}

Ended(bs, gones) == [b \in DOMAIN bs |-> IF b \in Doomed(bs, gones) THEN Over(bs[b]) ELSE bs[b]]

\* The queued jobs of sessions whose token is cancelled.
Cancelled(js, gones) ==
    [t \in Sessions |-> IF t \notin gones THEN js[t]
                        ELSE [i \in DOMAIN js[t] |-> [js[t][i] EXCEPT !.live = FALSE]]]

\* sessionToken, with the queues and batches as they are by then.
SessionToken(s, js, bs) ==
    LET gones == Evicted(s) IN
    /\ tokens' = IF s \in ToSet(tokens) THEN tokens
                 ELSE Append(SelectSeq(tokens, LAMBDA t : t \notin gones), s)
    /\ jobs' = Cancelled(js, gones)
    /\ batches' = Ended(bs, gones)

PostJob(notes) == [kind |-> "post", notes |-> notes, live |-> TRUE, batch |-> 0]
RetryJob(b) == [kind |-> "retry", notes |-> {}, live |-> TRUE, batch |-> b]

Parked(s) == {b \in DOMAIN batches : batches[b].of = s /\ batches[b].place = "parked"}

\* flushRetryBatches: every parked batch of the session is queued again.
Flushed(s) == jobs[s] \o SetToSortSeq({RetryJob(b) : b \in Parked(s)}, LAMBDA x, y : x.batch < y.batch)

Unparked(s, bs) == [b \in DOMAIN bs |-> IF bs[b].of = s /\ bs[b].place = "parked"
                                       THEN [bs[b] EXCEPT !.place = "job"] ELSE bs[b]]

Gathered(s, n) == ToSet(parkedNotes[s]) \cup {n}

\* deliverNotification: whatever is parked for the session goes out with it.
Complete(n) ==
    LET s == Owner[n] IN
    /\ n \in waiting /\ ~shut
    /\ waiting' = waiting \ {n}
    /\ SessionToken(s, [jobs EXCEPT ![s] = Append(Flushed(s), PostJob(Gathered(s, n)))],
                    Unparked(s, batches))
    /\ parkedNotes' = [parkedNotes EXCEPT ![s] = <<>>]
    /\ UNCHANGED <<step, noteLanded, stored, lost, shut, gone>>

\* observedIdle: the parked batches, then the parked notes.
IdleSeen(s) ==
    /\ ~shut
    /\ IF parkedNotes[s] = <<>>
       THEN /\ Parked(s) # {}
            /\ jobs' = [jobs EXCEPT ![s] = Flushed(s)]
            /\ batches' = Unparked(s, batches)
            /\ UNCHANGED tokens
       ELSE SessionToken(s, [jobs EXCEPT ![s] = Append(Flushed(s), PostJob(ToSet(parkedNotes[s])))],
                         Unparked(s, batches))
    /\ parkedNotes' = [parkedNotes EXCEPT ![s] = <<>>]
    /\ UNCHANGED <<waiting, step, noteLanded, stored, lost, shut, gone>>

-----------------------------------------------------------------------------
(* The first job of a queue. *)

Job(s) == Head(jobs[s])
Next1(s) == /\ jobs' = [jobs EXCEPT ![s] = Tail(@)]
            /\ step' = [step EXCEPT ![s] = "start"]
Goes(s, to) == step' = [step EXCEPT ![s] = to] /\ UNCHANGED jobs

\* Is the job still wanted? Asked after every await.
Live(s) == /\ ~shut /\ Job(s).live
           /\ Job(s).kind = "retry" => Active(Job(s).batch)

\* A job that is not: the notes of a post are not told any more.
Drop(s) ==
    /\ jobs[s] # <<>> /\ ~Live(s)
    /\ Next1(s)
    /\ lost' = lost \cup Job(s).notes
    /\ stored' = [stored EXCEPT ![s] = FALSE]
    /\ UNCHANGED <<waiting, parkedNotes, batches, tokens, noteLanded, shut, gone>>

\* scheduleBatchRetry: a timer, or the end of the attempts.
Rescheduled(b, attempts) ==
    IF attempts > Delays THEN Over(b)
    ELSE [b EXCEPT !.place = "timer", !.attempts = attempts]

NewBatch(s) == [of |-> s, notes |-> Job(s).notes, attempts |-> 0, place |-> "job"]

\* readIdentity fails: nothing was sent, and the batch is tried again later.
IdentityFails(s) ==
    /\ jobs[s] # <<>> /\ step[s] = "start" /\ Live(s)
    /\ Next1(s)
    /\ batches' = IF Job(s).kind = "post" THEN Append(batches, Rescheduled(NewBatch(s), 1))
                  ELSE LET b == Job(s).batch
                       IN  [batches EXCEPT ![b] = Rescheduled(@, @.attempts + 1)]
    /\ UNCHANGED <<waiting, parkedNotes, tokens, noteLanded, stored, lost, shut, gone>>

IdentityRead(s) ==
    /\ jobs[s] # <<>> /\ step[s] = "start" /\ Live(s)
    /\ Goes(s, "sample")
    /\ UNCHANGED <<waiting, parkedNotes, batches, tokens, noteLanded, stored, lost, shut, gone>>

\* The session is busy: parkNotes drops the oldest beyond the cap; a batch is
\* parked as it is.
ReadsBusy(s) ==
    /\ jobs[s] # <<>> /\ step[s] = "sample" /\ Live(s)
    /\ Next1(s)
    /\ LET queued == parkedNotes[s] \o SetToSortSeq(Job(s).notes, <)
           over == IF Len(queued) > MaxPending THEN Len(queued) - MaxPending ELSE 0
       IN  IF Job(s).kind = "post"
           THEN /\ parkedNotes' = [parkedNotes EXCEPT ![s] = SubSeq(queued, over + 1, Len(queued))]
                /\ lost' = lost \cup ToSet(SubSeq(queued, 1, over))
                /\ UNCHANGED batches
           ELSE /\ batches' = [batches EXCEPT ![Job(s).batch].place = "parked"]
                /\ UNCHANGED <<parkedNotes, lost>>
    /\ UNCHANGED <<waiting, tokens, noteLanded, stored, shut, gone>>

\* The session is idle: activateBatch, and attemptBatch up to its post.  The
\* host may store the message and answer, store it and not answer, or refuse.
Attempt(s) ==
    /\ jobs[s] # <<>> /\ step[s] = "sample" /\ Live(s)
    /\ LET b == IF Job(s).kind = "post" THEN Len(batches) + 1 ELSE Job(s).batch
           made == IF Job(s).kind = "post" THEN Append(batches, NewBatch(s)) ELSE batches
       IN  /\ batches' = [made EXCEPT ![b].attempts = @ + 1]
           /\ jobs' = [jobs EXCEPT ![s] = <<RetryJob(b)>> \o Tail(@)]
           /\ \E takes \in BOOLEAN :
                 /\ stored' = [stored EXCEPT ![s] = takes]
                 /\ noteLanded' = [n \in Notes |-> IF takes /\ n \in made[b].notes
                                                   THEN noteLanded[n] + 1 ELSE noteLanded[n]]
    /\ step' = [step EXCEPT ![s] = "posted"]
    /\ UNCHANGED <<waiting, parkedNotes, tokens, lost, shut, gone>>

\* Only an explicit refusal says that the message was not taken.
MayRepeat(s) == ~stored[s]

\* The post was refused: again later, under a fresh message id.
Refused(s) ==
    /\ jobs[s] # <<>> /\ step[s] = "posted" /\ Live(s)
    /\ MayRepeat(s)
    /\ Next1(s)
    /\ batches' = [batches EXCEPT ![Job(s).batch] = Rescheduled(@, @.attempts)]
    /\ stored' = [stored EXCEPT ![s] = FALSE]
    /\ UNCHANGED <<waiting, parkedNotes, tokens, noteLanded, lost, shut, gone>>

\* confirmMessage finds the message, or cannot tell: never a reason to repeat.
Delivered(s) ==
    /\ jobs[s] # <<>> /\ step[s] = "posted" /\ Live(s)
    /\ Next1(s)
    /\ batches' = [batches EXCEPT ![Job(s).batch] = Over(@)]
    /\ stored' = [stored EXCEPT ![s] = FALSE]
    /\ UNCHANGED <<waiting, parkedNotes, tokens, noteLanded, lost, shut, gone>>

RetryTimer(b) ==
    /\ b \in DOMAIN batches /\ batches[b].place = "timer" /\ ~shut
    /\ batches' = [batches EXCEPT ![b].place = "job"]
    /\ jobs' = [jobs EXCEPT ![batches[b].of] = Append(@, RetryJob(b))]
    /\ UNCHANGED <<waiting, parkedNotes, step, tokens, noteLanded, stored, lost, shut, gone>>

\* The session is deleted: its token, notes and batches go.
SessionGone(s) ==
    /\ gone < MaxGone /\ gone' = gone + 1 /\ ~shut
    /\ tokens' = SelectSeq(tokens, LAMBDA t : t # s)
    /\ jobs' = Cancelled(jobs, {s})
    /\ lost' = lost \cup ToSet(parkedNotes[s])
    /\ parkedNotes' = [parkedNotes EXCEPT ![s] = <<>>]
    /\ batches' = Ended(batches, {s})
    /\ UNCHANGED <<waiting, step, noteLanded, stored, shut>>

\* dispose, as far as it concerns notes.
Shutdown ==
    /\ ~shut /\ shut' = TRUE
    /\ lost' = lost \cup UNION {ToSet(parkedNotes[s]) : s \in Sessions}
    /\ parkedNotes' = [s \in Sessions |-> <<>>]
    /\ tokens' = <<>>
    /\ batches' = [b \in DOMAIN batches |-> Over(batches[b])]
    /\ UNCHANGED <<waiting, jobs, step, noteLanded, stored, gone>>

NBNext ==
    \/ \E n \in Notes : Complete(n)
    \/ \E s \in Sessions :
          \/ IdleSeen(s) \/ Drop(s) \/ IdentityFails(s) \/ IdentityRead(s) \/ ReadsBusy(s)
          \/ Attempt(s) \/ Refused(s) \/ Delivered(s) \/ SessionGone(s)
    \/ \E b \in DOMAIN batches : RetryTimer(b)
    \/ Shutdown

\* Every host call is bounded, retry timers fire, and a session is idle again.
NBFairness ==
    /\ \A s \in Sessions :
          /\ WF_nbVars(Drop(s) \/ IdentityFails(s) \/ IdentityRead(s))
          /\ WF_nbVars(ReadsBusy(s) \/ Attempt(s)) /\ SF_nbVars(Attempt(s))
          /\ WF_nbVars(Refused(s) \/ Delivered(s))
          /\ WF_nbVars(IdleSeen(s))
    /\ WF_nbVars(\E b \in DOMAIN batches : RetryTimer(b))

NBSpec == NBInit /\ [][NBNext]_nbVars

-----------------------------------------------------------------------------
\* The places a note that is not given up can be in.
Parts(n) ==
    {<<"parked", s>> : s \in {s \in Sessions : n \in ToSet(parkedNotes[s])}}
    \cup {<<"batch", b>> : b \in {b \in DOMAIN batches : n \in batches[b].notes}}
    \cup UNION {{<<s, i>> : i \in {i \in DOMAIN jobs[s] : n \in jobs[s][i].notes}} : s \in Sessions}

\* The note of a task that ended is in one place, or was given up with its
\* session, by the cap or by the shutdown; it is never in two messages the host
\* took, however answers are lost; and a session with a parked batch holds a
\* token, so that the bound on parked sessions is never what drops a batch.
NotesAccounted ==
    /\ \A n \in Notes \ waiting : Cardinality(Parts(n)) = IF n \in lost THEN 0 ELSE 1
    /\ \A n \in Notes : noteLanded[n] <= 1
    /\ \A s \in Sessions : Parked(s) # {} => s \in ToSet(tokens)

\* Every note is settled in the end: in a batch that is over, or given up.
NotesSettle ==
    \A n \in Notes :
        n \notin waiting ~> (n \in lost \/ \E b \in DOMAIN batches : n \in batches[b].notes /\ ~Active(b))

\* Every note is accounted for, and none is on its way for ever.
NotesArrive == []NotesAccounted /\ NotesSettle
=============================================================================
