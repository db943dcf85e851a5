---------------------------- MODULE PromptJudging ----------------------------
(***************************************************************************)
(* How approve-for-me judges one prompt (handle in                         *)
(* plugins/approve-for-me/src/index.ts) while what the judgement rests on  *)
(* changes: the settings, the user's rules and stores on disk, and the     *)
(* config, agent and session the host serves.                              *)
(*                                                                         *)
(* Everything is read once before the classifier is asked, one await after *)
(* the other, and a fingerprint of it is kept.  The model takes minutes,   *)
(* and an approval may be parked for longer; so before each attempt to     *)
(* release it everything is read twice over and compared.  Reads of the    *)
(* host before the verdict may be shared with other prompts                *)
(* (createHostReadCoalescer in src/server/host.ts), those after it not.    *)
(*                                                                         *)
(* What an input says is a version of it, and whether that bars the prompt *)
(* from being judged: it is unreadable, the plugin is off, a rule vetoes   *)
(* or allows the prompt, the path is reserved, no judge can be resolved.   *)
(***************************************************************************)
EXTENDS Naturals, Sequences

CONSTANT MaxEdits   \* bound on the changes of the inputs

VARIABLES
    world,      \* the versions of the inputs as they are
    barring,    \* those that bar the prompt
    edits,
    shared,     \* a read of the host by another prompt that is still in flight
    job,        \* the handler: where it is and what it has read
    cancelled,    \* its controller, or the plugin, has been stopped
    asking,     \* the prompt is still pending at the host
    mine,       \* pluginReplied holds the prompt
    then        \* auxiliary: the world when the prompt was asked for, when the
                \* last reading began, and when the host last answered in it

pjVars == <<world, barring, edits, shared, job, cancelled, asking, mine, then>>

OfHost == {"config", "context", "rules", "catalog"}
OfFiles == {"settings", "tree", "reserved", "stores"}
Inputs == OfHost \cup OfFiles

\* The order of the awaits before the verdict, and of each reading after it:
\* what the host serves comes first there, the files last.
ReadsFirst == <<"settings", "reserved", "config", "stores", "context", "rules", "tree", "catalog">>
ReadsAgain == <<"context", "config", "rules", "settings", "tree", "reserved", "stores">>

Unread == 0
NoReads == [i \in Inputs |-> Unread]
NotShared == [of |-> "none"]

PJInit ==
    /\ world = [i \in Inputs |-> 1]
    /\ barring = {}
    /\ edits = 0
    /\ shared = NotShared
    /\ job = [at |-> "idle"]
    /\ cancelled = FALSE /\ asking = FALSE /\ mine = FALSE
    /\ then = [asked |-> NoReads, began |-> NoReads, answered |-> NoReads]

-----------------------------------------------------------------------------
(* The surroundings.                                                       *)

Edit(i) ==
    /\ edits < MaxEdits
    /\ edits' = edits + 1
    /\ world' = [world EXCEPT ![i] = @ + 1]
    /\ barring' \in {barring \ {i}, barring \cup {i}}
    /\ UNCHANGED <<shared, job, cancelled, asking, mine, then>>

\* What a read of the input gives.
Read(i) == [version |-> world[i], bars |-> i \in barring]

\* The host has answered a read another prompt shares under the key; it began
\* in this epoch, or before the last permission event.
OtherReads(i) ==
    /\ shared = NotShared /\ job.at \in {"idle", "reading"}
    /\ \E current \in BOOLEAN :
          shared' = [of |-> i, current |-> current, version |-> world[i], bars |-> i \in barring]
    /\ UNCHANGED <<world, barring, edits, job, cancelled, asking, mine, then>>

OtherSettles ==
    /\ shared # NotShared
    /\ shared' = NotShared
    /\ UNCHANGED <<world, barring, edits, job, cancelled, asking, mine, then>>

\* Any permission event advances the epoch.
Epoch == IF shared = NotShared THEN shared ELSE [shared EXCEPT !.current = FALSE]

OtherPrompt ==
    /\ shared # Epoch
    /\ shared' = Epoch
    /\ UNCHANGED <<world, barring, edits, job, cancelled, asking, mine, then>>

UserAnswersIt ==
    /\ asking
    /\ asking' = FALSE
    /\ UNCHANGED <<world, barring, edits, shared, job, cancelled, mine, then>>

\* The replied event, a changed emission of the prompt, a deletion or disposal.
Aborted ==
    /\ job.at # "idle" /\ ~cancelled
    /\ cancelled' = TRUE
    /\ shared' = Epoch
    /\ UNCHANGED <<world, barring, edits, job, asking, mine, then>>

-----------------------------------------------------------------------------
(* Up to the verdict.                                                      *)

AskedFor ==
    /\ job.at = "idle" /\ ~cancelled
    /\ job' = [at |-> "reading", k |-> 1, judged |-> NoReads]
    /\ asking' = TRUE
    /\ shared' = Epoch
    /\ then' = [then EXCEPT !.asked = world]
    /\ UNCHANGED <<world, barring, edits, cancelled, mine>>

Left == [at |-> "left"]

\* Mutant of Joins: a read in flight is shared whatever its epoch.
MutJoins(i) == shared.of = i

\* Whether a read of the key joins the one in flight.
Joins(i) == shared.of = i /\ shared.current

\* A read before the verdict: settings files and stores as they are, what the
\* host serves shared where it may be.  One that fails or times out reads as
\* one that bars.
ReadsInput ==
    /\ job.at = "reading" /\ job.k <= Len(ReadsFirst)
    /\ LET i == ReadsFirst[job.k]
           read == IF i \in OfHost /\ Joins(i) THEN shared ELSE Read(i)
       IN  job' \in {Left,
                     IF read.bars THEN Left ELSE [job EXCEPT !.k = @ + 1, !.judged[i] = read.version]}
    /\ UNCHANGED <<world, barring, edits, shared, cancelled, asking, mine, then>>

\* The pool has a slot for the job, at once or in its turn, or is full.
TakesSlot ==
    /\ job.at = "reading" /\ job.k > Len(ReadsFirst)
    /\ job' \in {Left, IF cancelled THEN Left ELSE [at |-> "judging", judged |-> job.judged]}
    /\ UNCHANGED <<world, barring, edits, shared, cancelled, asking, mine, then>>

\* A reading begins.
Reading(judged, pass, first) == [at |-> "again", k |-> 1, pass |-> pass, judged |-> judged,
                                 seen |-> NoReads, first |-> first]
ReadingBegins == then' = [then EXCEPT !.began = world]

\* No verdict, one the policy does not let pass, or an approval.
Verdict ==
    /\ job.at = "judging"
    /\ \/ job' = Left /\ UNCHANGED then
       \/ ~cancelled /\ job' = Reading(job.judged, 1, NoReads) /\ ReadingBegins
    /\ UNCHANGED <<world, barring, edits, shared, cancelled, asking, mine>>

-----------------------------------------------------------------------------
(* The release.                                                            *)

\* readCurrentApprovalInputs: every read is one of its own.
ReadsInputAgain ==
    /\ job.at = "again" /\ job.k <= Len(ReadsAgain)
    /\ LET i == ReadsAgain[job.k]
       IN  /\ job' \in {Left,
                         IF i \in barring THEN Left ELSE [job EXCEPT !.k = @ + 1, !.seen[i] = world[i]]}
           /\ then' = IF i \in OfHost THEN [then EXCEPT !.answered = world] ELSE then
    /\ UNCHANGED <<world, barring, edits, shared, cancelled, asking, mine>>

\* The judge is resolved between the two readings; its catalog may be shared.
Resolves ==
    /\ job.at = "again" /\ job.pass = 1 /\ job.k > Len(ReadsAgain)
    /\ LET read == IF Joins("catalog") THEN shared ELSE Read("catalog")
           same == ~read.bars /\ read.version = job.judged["catalog"]
       IN  /\ job' \in {Left, IF same THEN Reading(job.judged, 2, job.seen) ELSE Left}
           /\ IF job' = Left THEN UNCHANGED then ELSE ReadingBegins
    /\ UNCHANGED <<world, barring, edits, shared, cancelled, asking, mine>>

\* The two readings agree, and with the one before the verdict.
Unchanged(judged, first, second) ==
    /\ second = first
    /\ \A i \in Inputs \ {"catalog"} : first[i] = judged[i]

\* At the top of its stack the approval is posted with no await in between;
\* beneath another prompt it is parked and everything is read again.
TakesTurn ==
    /\ job.at = "again" /\ job.pass = 2 /\ job.k > Len(ReadsAgain)
    /\ IF cancelled \/ ~Unchanged(job.judged, job.first, job.seen)
       THEN job' = Left /\ UNCHANGED mine
       ELSE \/ job' = [at |-> "posted", judged |-> job.judged] /\ mine' = TRUE
            \/ job' = [at |-> "parked", judged |-> job.judged] /\ UNCHANGED mine
    /\ UNCHANGED <<world, barring, edits, shared, cancelled, asking, then>>

\* The prompts above are settled, or this one was answered.
Woken ==
    /\ job.at = "parked"
    /\ IF cancelled THEN job' = Left /\ UNCHANGED then
       ELSE job' = Reading(job.judged, 1, NoReads) /\ ReadingBegins
    /\ UNCHANGED <<world, barring, edits, shared, cancelled, asking, mine>>

\* The host takes the reply, or refuses it: someone else was first.
HostReplies ==
    /\ job.at = "posted"
    /\ \/ asking /\ asking' = FALSE /\ job' = [at |-> "approved"] /\ UNCHANGED mine
       \/ job' = Left /\ mine' = FALSE /\ UNCHANGED asking
    /\ UNCHANGED <<world, barring, edits, shared, cancelled, then>>

-----------------------------------------------------------------------------

PJNext ==
    \/ \E i \in Inputs : Edit(i)
    \/ \E i \in OfHost : OtherReads(i)
    \/ OtherSettles \/ OtherPrompt \/ UserAnswersIt \/ Aborted
    \/ AskedFor \/ ReadsInput \/ TakesSlot \/ Verdict
    \/ ReadsInputAgain \/ Resolves \/ TakesTurn \/ Woken \/ HostReplies

PJSpec == PJInit /\ [][PJNext]_pjVars

-----------------------------------------------------------------------------
(* Properties.                                                             *)

\* No approval is posted on a policy that is no longer the one judged, as far
\* as it had changed when the last reading of it began; a file, when the host
\* last answered in that reading.  (The model's catalog is outside: it may be
\* shared, and is read between the readings.)
PostedOnCurrentPolicy ==
    job.at = "posted" =>
        /\ \A i \in Inputs \ {"catalog"} : then.began[i] = job.judged[i]
        /\ \A i \in OfFiles : then.answered[i] = job.judged[i]

\* What the prompt is judged on is never older than the prompt, although reads
\* are shared: the classifier would not see what had led to it.
JudgedOnItsOwnPast ==
    job.at \in {"reading", "judging", "again", "parked", "posted"} =>
        \A i \in Inputs : job.judged[i] # Unread => job.judged[i] >= then.asked[i]

ApprovalIsCurrent == PostedOnCurrentPolicy /\ JudgedOnItsOwnPast
=============================================================================
