--------------------------- MODULE BatchScheduler ---------------------------
(***************************************************************************)
(* The approval scheduler of approve-for-me                                *)
(* (plugins/approve-for-me/src/server/batch-scheduler.ts) with the event   *)
(* handler, the classifier job and the reply around it (src/index.ts).     *)
(*                                                                         *)
(* Permission prompts stack per prompt tree, a root session with its       *)
(* sub-agents.  One assistant turn's prompts, a batch, are judged at a     *)
(* time; an approval is released only at the top of its stack, and until   *)
(* then it is parked.  A prompt left to the user holds everything below    *)
(* it, and a prompt whose tree is not known yet holds approvals back       *)
(* everywhere.                                                             *)
(*                                                                         *)
(* Requests are numbered in stack order (compareStackOrder).  A tree       *)
(* object is named after the request it was created for: the code keeps    *)
(* objects in a map but also in the closures of running jobs, so an object *)
(* can outlive its entry.  Eviction from the bounded sets (trim) is left   *)
(* out.                                                                    *)
(***************************************************************************)
EXTENDS Naturals, FiniteSets, SequencesExt

CONSTANTS
    Requests,       \* the prompts, a set of positive numbers in stack order
    Keys,           \* the prompt trees
    SessionOf,      \* the session of a prompt
    TreeOf,         \* the tree of a prompt
    BatchOf,        \* the batch of a prompt
    MaxQueued,      \* maxQueued of the scheduler
    Toggles,        \* bound on the changes of the processing mode on disk
    Changeable,     \* the prompts that may be emitted again
    Answerable,     \* the prompts the user may answer
    Orphans,        \* the prompts whose ancestry may be unreadable
    Deletable,      \* the sessions that may be deleted
    Disposable      \* whether the plugin may be disposed of

ASSUME SchedulerAssumption ==
    /\ Requests \subseteq Nat \ {0}
    /\ IsFiniteSet(Requests) /\ IsFiniteSet(Keys)
    /\ TreeOf \in [Requests -> Keys]
    /\ \A r, s \in Requests :
          /\ SessionOf[r] = SessionOf[s] => TreeOf[r] = TreeOf[s]
          /\ BatchOf[r] = BatchOf[s] => SessionOf[r] = SessionOf[s]
    /\ MaxQueued \in Nat /\ Toggles \in Nat
    /\ Changeable \subseteq Requests /\ Answerable \subseteq Requests /\ Orphans \subseteq Requests
    /\ Deletable \subseteq {SessionOf[r] : r \in Requests}
    /\ Disposable \in BOOLEAN

VARIABLES
    sched,       \* the scheduler's state and its jobs
    disposed,    \* the plugin is being disposed of
    deleted,     \* deletedSessions
    host,        \* what the host knows of a prompt
    news,        \* replied events on their way to the plugin
    disk,        \* the processing mode in the settings
    toggles,     \* changes of it so far
    replies,     \* auxiliary: replies the plugin has posted for a prompt
    fanOutOk     \* auxiliary: prompts since whose ask the disk said parallel

outside == <<disposed, deleted, host, news, disk, toggles, replies, fanOutOk>>
vars == <<sched, outside>>

None == 0
Sessions == {SessionOf[r] : r \in Requests}
Orders(S) == SetToSeqs(S)

Init ==
    /\ sched = [trees       |-> [k \in Keys |-> None],
                home        |-> [r \in Requests |-> None],
                place       |-> [r \in Requests |-> "none"],
                batch       |-> [r \in Requests |-> "none"],
                keyOf       |-> [r \in Requests |-> "none"],
                run         |-> [r \in Requests |-> "none"],
                answered    |-> {},
                decided     |-> {},
                unresolved  |-> {},
                provisional |-> {},
                live        |-> {},
                aborted     |-> {},
                mode        |-> "serial",
                read        |-> "none",
                again       |-> FALSE,
                stopped     |-> FALSE]
    /\ disposed = FALSE
    /\ deleted = {}
    /\ host = [r \in Requests |-> "none"]
    /\ news = {}
    /\ disk \in {"serial", "parallel"}
    /\ toggles = 0
    /\ replies = [r \in Requests |-> 0]
    /\ fanOutOk = {}

-----------------------------------------------------------------------------
(* Trees.                                                                  *)

\* The requests an object has in one of the places; a parked one is also in
\* the object's holding map.
In(s, o, places) == {r \in Requests : s.home[r] = o /\ s.place[r] \in places}

Undecided == {"active", "held", "parked", "queue"}
Holding == {"held", "parked"}

\* treeFor(TreeOf[r]) for the request r
ObjectFor(s, k, r) == IF s.trees[k] = None THEN r ELSE s.trees[k]

Enter(s, k, r, where) ==
    LET o == ObjectFor(s, k, r)
    IN  [s EXCEPT !.trees[k] = o, !.home[r] = o, !.place[r] = where, !.keyOf[r] = k]

\* The entry of the key goes when the object given is empty, whichever object
\* the entry holds.
DropTreeIfEmpty(s, k, o) ==
    IF In(s, o, Undecided) = {}
    THEN [s EXCEPT !.trees[k] = None, !.batch[o] = "none"]
    ELSE s

\* Mutant of BlockedAbove: queued prompts do not block.
MutBlockedAbove(s, r) ==
    \E a \in In(s, s.home[r], {"active", "held", "parked"}) : a < r

BlockedAbove(s, r) == \E a \in In(s, s.home[r], Undecided) : a < r

\* The request no longer has a controller.
Forget(s, r) == [s EXCEPT !.live = @ \ {r}, !.aborted = @ \ {r}]

Holds(s, r, outcome) == outcome = "left" /\ r \notin s.answered

\* A prompt left to the user holds its position; others are gone.
FinishJob(s, r, outcome) ==
    LET t == [Forget(s, r) EXCEPT !.decided = @ \cup {r}, !.run[r] = "none"]
    IN  IF Holds(s, r, outcome)
        THEN [t EXCEPT !.place[r] = "held"]
        ELSE [t EXCEPT !.place[r] = "none", !.home[r] = None, !.keyOf[r] = "none"]

-----------------------------------------------------------------------------
(* The pump of one tree.                                                   *)

\* Jobs settled or superseded while waiting leave without a model call.
Purged(s, o) ==
    LET dead == {r \in In(s, o, {"queue"}) : r \in s.aborted \cup s.decided}
    IN  FoldLeft(LAMBDA t, r : FinishJob(t, r, IF r \in t.answered THEN "resolved" ELSE "left"),
                 s, SetToSeq(dead))

\* releaseParked
Released(s, o) ==
    LET free == {r \in In(s, o, {"parked"}) : s.unresolved = {} /\ ~BlockedAbove(s, r)}
    IN  [s EXCEPT !.place = [r \in Requests |-> IF r \in free THEN "held" ELSE @[r]],
                  !.run = [r \in Requests |-> IF r \in free THEN "approving" ELSE @[r]]]

HeldAbove(s, o, r) == \E h \in In(s, o, Holding) : h < r

Top(S) == CHOOSE r \in S : \A q \in S : r <= q

FanOut(s) == s.mode = "parallel" /\ s.read = "none"

\* The prompts of the active batch that nothing held is above.
Startable(s, o) ==
    {r \in In(s, o, {"queue"}) : BatchOf[r] = s.batch[o] /\ ~HeldAbove(s, o, r)}

\* All of them, or the top one when no other job runs.
AtOnce(s, o, fits) ==
    IF FanOut(s) THEN fits
    ELSE IF In(s, o, {"active"}) = {} /\ fits # {} THEN {Top(fits)} ELSE {}

Start(s, starts) ==
    [s EXCEPT !.place = [r \in Requests |-> IF r \in starts THEN "active" ELSE @[r]],
              !.run = [r \in Requests |-> IF r \in starts THEN "judging" ELSE @[r]]]

Started(s, o) == Start(s, AtOnce(s, o, Startable(s, o)))

\* refreshProcessingMode: one read at a time, and one more after it.
Refresh(s) ==
    IF s.stopped THEN s
    ELSE IF s.read = "none" THEN [s EXCEPT !.read = "reading", !.again = FALSE]
    ELSE [s EXCEPT !.again = TRUE]

\* The batch at the top of an idle tree becomes the active one; unless the mode
\* is being read already, it is read before the batch starts.
BatchFrom(s, o, top) ==
    IF HeldAbove(s, o, top) THEN s
    ELSE IF s.batch[o] # BatchOf[top] /\ s.read = "none"
         THEN Refresh([s EXCEPT !.batch[o] = BatchOf[top]])
    ELSE Started([s EXCEPT !.batch[o] = BatchOf[top]], o)

NextBatch(s, o) == BatchFrom(s, o, Top(In(s, o, {"queue"})))

Advanced(s, k, o) ==
    IF s.unresolved # {} \/ In(s, o, {"active", "queue"}) = {} THEN DropTreeIfEmpty(s, k, o)
    ELSE IF In(s, o, {"active"}) = {} THEN NextBatch(s, o)
    ELSE Started(s, o)

Pump(s, k) ==
    LET o == s.trees[k]
    IN  IF o = None \/ s.stopped THEN s ELSE Advanced(Released(Purged(s, o), o), k, o)

\* The trees in the order of their entries.
PumpAll(s, order) == FoldLeft(Pump, s, order)

-----------------------------------------------------------------------------
(* The scheduler's operations, as functions of its state.                  *)

\* The abort of a parked job's controller lets it leave.
Abort(s, r) ==
    IF r \notin s.live THEN s
    ELSE LET parked == s.place[r] = "parked"
         IN  [s EXCEPT !.aborted = @ \cup {r},
                       !.place[r] = IF parked THEN "held" ELSE @,
                       !.run[r] = IF parked THEN "leaving" ELSE @]

\* Mutant of LiftBarrier: the barrier is lifted without a pump.
MutLiftBarrier(s, r, order) == [s EXCEPT !.unresolved = @ \ {r}]

\* removeAncestryBarrier, and the pumps that follow when it was there.
LiftBarrier(s, r, order) ==
    IF r \in s.unresolved
    THEN PumpAll([s EXCEPT !.unresolved = @ \ {r}], order)
    ELSE s

FinishProvisional(s, r, order) ==
    IF r \in s.provisional
    THEN LiftBarrier([Forget(s, r) EXCEPT !.provisional = @ \ {r}], r, order)
    ELSE s

\* The prompt holds; the barrier stays up when its tree is not known.
HoldAfterAncestry(s, r, k, order, unresolved) ==
    LET t == [Forget(Enter(s, k, r, "held"), r) EXCEPT !.provisional = @ \ {r},
                                                       !.decided = @ \cup {r}]
    IN  IF unresolved THEN t ELSE LiftBarrier(t, r, order)

\* The request leaves its tree, if the tree of its key is the one it is in.
Freed(s, r) ==
    CASE s.place[r] = "queue"  -> Forget(s, r)
      [] s.place[r] = "parked" -> [s EXCEPT !.run[r] = "leaving"]
      [] OTHER -> s

Out(s, r) ==
    [s EXCEPT !.place[r] = "none", !.home[r] = IF s.run[r] = "none" THEN None ELSE @]

LeaveTree(s, r, k) ==
    LET o == s.trees[k]
    IN  IF o = None THEN s
        ELSE Pump(DropTreeIfEmpty(IF s.home[r] # o \/ s.place[r] = "active" THEN s
                                  ELSE Out(Freed(s, r), r), k, o), k)

\* A job that runs in the tree of its key keeps the key until it ends.
Unkeyed(s, r) ==
    IF s.keyOf[r] # "none" /\ s.place[r] = "active" /\ s.trees[s.keyOf[r]] = s.home[r] THEN s
    ELSE [s EXCEPT !.keyOf[r] = "none"]

LeaveKnown(s, r) == Unkeyed(IF s.keyOf[r] = "none" THEN s ELSE LeaveTree(s, r, s.keyOf[r]), r)

Resolving(s, r) == [s EXCEPT !.decided = @ \cup {r}, !.answered = @ \cup {r}]

ResolveRequest(s, r, order) ==
    LiftBarrier(LeaveKnown(FinishProvisional(Resolving(s, r), r, order), r), r, order)

\* Mutant of EndOfJob: what waited for the job is not looked at.
MutEndOfJob(s, r, outcome) ==
    DropTreeIfEmpty(FinishJob(s, r, outcome), TreeOf[r], s.home[r])

\* The end of runJob; the object is the one the job was started in.
EndOfJob(s, r, outcome) ==
    LET k == TreeOf[r]
    IN  Pump(DropTreeIfEmpty(FinishJob(s, r, outcome), k, s.home[r]), k)

-----------------------------------------------------------------------------
(* Events.                                                                 *)

Begins(s, r) == [s EXCEPT !.provisional = @ \cup {r},
                          !.live = @ \cup {r},
                          !.unresolved = @ \cup {r}]

\* permission.asked: the barrier goes up before the first await.
Asked(r) ==
    /\ host[r] = "none"
    /\ SessionOf[r] \notin deleted
    /\ host' = [host EXCEPT ![r] = "pending"]
    /\ fanOutOk' = IF disk = "parallel" THEN fanOutOk \cup {r} ELSE fanOutOk
    /\ sched' = IF disposed THEN sched ELSE Refresh(Begins(sched, r))
    /\ UNCHANGED <<disposed, deleted, news, disk, toggles, replies>>

KnownRequest(r) == r \in sched.live \cup sched.decided

\* permission.updated: a change aborts the classification; a prompt already
\* decided is not taken up again.
Updated(r) ==
    /\ r \in Changeable
    /\ host[r] = "pending"
    /\ ~disposed
    /\ sched' = IF KnownRequest(r) THEN Abort(sched, r) ELSE Refresh(Begins(sched, r))
    /\ UNCHANGED outside

\* resolveTreeKey returned an authoritative tree.
AncestryResolves(r) ==
    /\ r \in sched.provisional
    /\ \E order \in Orders(Keys) :
          LET k == TreeOf[r]
              o == sched.trees[k]
              full == o # None /\ Cardinality(In(sched, o, {"queue", "active"})) > MaxQueued
              queued == [Enter(sched, k, r, "queue") EXCEPT !.provisional = @ \ {r},
                                                            !.unresolved = @ \ {r}]
          IN  sched' = IF r \in sched.aborted \/ full
                       THEN HoldAfterAncestry(sched, r, k, order, FALSE)
                       ELSE PumpAll(queued, order)
    /\ UNCHANGED outside

\* The ancestry cannot be read: the prompt holds, and so does the barrier.
AncestryUnknown(r) ==
    /\ r \in Orphans \cap sched.provisional
    /\ \E k \in Keys : sched' = HoldAfterAncestry(sched, r, k, <<>>, TRUE)
    /\ UNCHANGED outside

\* permission.replied: a classification in flight is aborted, then the
\* scheduler told.
Replied(r) ==
    /\ r \in news
    /\ news' = news \ {r}
    /\ IF disposed THEN UNCHANGED sched
       ELSE \E order \in Orders(Keys) : sched' = ResolveRequest(Abort(sched, r), r, order)
    /\ UNCHANGED <<disposed, deleted, host, disk, toggles, replies, fanOutOk>>

\* cancelSession: what the scheduler can find of a session is resolved.
CancelSession(s, order, doomed) ==
    FoldLeft(LAMBDA t, r : ResolveRequest(Abort(t, r), r, order), s, doomed)

Findable(s, r) ==
    \/ r \in s.provisional
    \/ s.place[r] # "none" /\ \E k \in Keys : s.trees[k] = s.home[r]

\* session.deleted: and everything of the session that still runs is aborted.
SessionDeleted(x) ==
    LET mine == {r \in Requests : SessionOf[r] = x /\ host[r] # "none"}
        doomed == {r \in mine : Findable(sched, r)}
    IN  /\ x \in Deletable \ deleted
        /\ mine # {}
        /\ ~disposed
        /\ deleted' = deleted \cup {x}
        /\ host' = [r \in Requests |-> IF r \in mine /\ host[r] = "pending"
                                         THEN "gone" ELSE host[r]]
        /\ \E order \in Orders(Keys), ids \in Orders(doomed) :
              sched' = FoldLeft(Abort, CancelSession(sched, order, ids), SetToSeq(mine))
        /\ UNCHANGED <<disposed, news, disk, toggles, replies, fanOutOk>>

\* The plugin is disposed of, and then the scheduler: every request with a
\* controller is resolved.
Dispose ==
    /\ Disposable
    /\ ~disposed
    /\ disposed' = TRUE
    /\ UNCHANGED <<sched, deleted, host, news, disk, toggles, replies, fanOutOk>>

Stop ==
    /\ disposed /\ ~sched.stopped
    /\ sched' = FoldLeft(LAMBDA s, r : ResolveRequest(Abort(s, r), r, <<>>),
                         [sched EXCEPT !.stopped = TRUE], SetToSeq(sched.live))
    /\ UNCHANGED outside

-----------------------------------------------------------------------------
(* One classifier job.                                                     *)

\* The prompt is left to the user: a veto, a fault, an abort, the classifier's
\* verdict, or a revalidation that failed.
Leaves(r) ==
    /\ sched.run[r] \in {"judging", "approving", "leaving"}
    /\ sched' = EndOfJob(sched, r, "left")
    /\ UNCHANGED outside

\* The classifier approves.
Approves(r) ==
    /\ sched.run[r] = "judging"
    /\ r \notin sched.aborted
    /\ sched' = [sched EXCEPT !.run[r] = "approving"]
    /\ UNCHANGED outside

TopOfStack(r) == sched.unresolved = {} /\ ~BlockedAbove(sched, r)

MayRelease(r) == sched.run[r] = "approving" /\ r \notin sched.aborted /\ ~disposed

\* The inputs were revalidated and the prompt is on top: the reply is posted.
Posts(r) ==
    /\ MayRelease(r)
    /\ TopOfStack(r)
    /\ sched' = [sched EXCEPT !.run[r] = "posting"]
    /\ replies' = [replies EXCEPT ![r] = @ + 1]
    /\ UNCHANGED <<disposed, deleted, host, news, disk, toggles, fanOutOk>>

\* awaitTopOfStack: the approval is parked, and what is below may be judged.
Parks(r) ==
    /\ MayRelease(r)
    /\ ~TopOfStack(r)
    /\ sched' = Pump([sched EXCEPT !.place[r] = "parked", !.run[r] = "waiting"], TreeOf[r])
    /\ UNCHANGED outside

\* The host's answer to the reply, or a failure of the request.
PostReturns(r) ==
    /\ sched.run[r] = "posting"
    /\ \/ host[r] = "approved" /\ sched' = EndOfJob(sched, r, "approved")
       \/ sched' = EndOfJob(sched, r, "left")
    /\ UNCHANGED outside

-----------------------------------------------------------------------------
(* The mode read, the host and the user.                                   *)

\* What the settings say, or serial when they cannot be read.
ModesRead == {disk, "serial"}

ReadSettings ==
    /\ sched.read = "reading"
    /\ \E mode \in ModesRead : sched' = [sched EXCEPT !.read = mode]
    /\ UNCHANGED outside

ReadAgain(s) == s.again

ReadEnds ==
    /\ sched.read \in {"serial", "parallel"}
    /\ IF ReadAgain(sched)
       THEN sched' = [sched EXCEPT !.read = "reading", !.again = FALSE]
       ELSE \E order \in Orders(Keys) :
               sched' = PumpAll([sched EXCEPT !.mode = sched.read, !.read = "none"], order)
    /\ UNCHANGED outside

Toggle ==
    /\ toggles < Toggles
    /\ toggles' = toggles + 1
    /\ disk' \in {"serial", "parallel"} \ {disk}
    /\ fanOutOk' = IF disk' = "parallel" THEN {r \in Requests : host[r] # "none"} ELSE fanOutOk
    /\ UNCHANGED <<sched, disposed, deleted, host, news, replies>>

\* The host takes the reply of a prompt it still shows.
HostAccepts(r) ==
    /\ sched.run[r] = "posting"
    /\ host[r] = "pending"
    /\ host' = [host EXCEPT ![r] = "approved"]
    /\ news' = news \cup {r}
    /\ UNCHANGED <<sched, disposed, deleted, disk, toggles, replies, fanOutOk>>

UserAnswers(r) ==
    /\ r \in Answerable
    /\ host[r] = "pending"
    /\ host' = [host EXCEPT ![r] = "answered"]
    /\ news' = news \cup {r}
    /\ UNCHANGED <<sched, disposed, deleted, disk, toggles, replies, fanOutOk>>

-----------------------------------------------------------------------------
JobStep(r) == Leaves(r) \/ Approves(r) \/ Posts(r) \/ Parks(r) \/ PostReturns(r)

Next ==
    \/ \E r \in Requests :
          \/ Asked(r) \/ Updated(r) \/ AncestryResolves(r) \/ AncestryUnknown(r)
          \/ Replied(r) \/ JobStep(r) \/ HostAccepts(r) \/ UserAnswers(r)
    \/ \E x \in Sessions : SessionDeleted(x)
    \/ ReadSettings \/ ReadEnds \/ Toggle
    \/ Dispose \/ Stop

JobReady(r) == sched.run[r] \in {"judging", "approving", "leaving", "posting"}

\* Every read and request ends, and events are delivered; the user need not
\* answer.  Weak fairness, with the enabling conditions spelled out.
Fairness ==
    /\ \A r \in Requests :
          /\ []<>(~JobReady(r)) \/ []<><<JobStep(r)>>_vars
          /\ []<>(r \notin sched.provisional)
                \/ []<><<AncestryResolves(r) \/ AncestryUnknown(r)>>_vars
          /\ []<>(r \notin news) \/ []<><<Replied(r)>>_vars
    /\ []<>(sched.read = "none") \/ []<><<ReadSettings \/ ReadEnds>>_vars

Spec == Init /\ [][Next]_vars
FairSpec == Spec /\ Fairness

-----------------------------------------------------------------------------
(* Properties.                                                             *)

TypeOK ==
    /\ sched.trees \in [Keys -> Requests \cup {None}]
    /\ sched.home \in [Requests -> Requests \cup {None}]
    /\ sched.place \in [Requests -> {"none", "queue", "active", "held", "parked"}]
    /\ sched.run \in [Requests -> {"none", "judging", "approving", "waiting",
                                   "leaving", "posting"}]
    /\ sched.keyOf \in [Requests -> Keys \cup {"none"}]
    /\ {sched.answered, sched.decided, sched.unresolved, sched.provisional,
        sched.live, sched.aborted} \subseteq SUBSET Requests
    /\ sched.mode \in {"serial", "parallel"}
    /\ sched.read \in {"none", "reading", "serial", "parallel"}
    /\ {sched.again, sched.stopped, disposed} \subseteq BOOLEAN
    /\ host \in [Requests -> {"none", "pending", "approved", "answered", "gone"}]
    /\ news \cup fanOutOk \subseteq Requests
    /\ deleted \subseteq Sessions
    /\ disk \in {"serial", "parallel"}

\* The entry of a request's tree is the object the request is in.
Attached(r) == sched.place[r] # "none" =>
    \E k \in Keys : sched.trees[k] # None /\ sched.trees[k] = sched.home[r]

\* The prompts of r's tree above it that the host still shows.
PendingAbove(r) == {a \in Requests : TreeOf[a] = TreeOf[r] /\ a < r /\ host[a] = "pending"}

PostsNow(r) == sched.run[r] # "posting" /\ sched'.run[r] = "posting"

\* No approval is posted beneath a prompt of the same stack the user has not
\* decided, or while a pending prompt's stack is unknown - as long as the
\* prompts involved are in the tree object of their key.
StackOrder ==
    [][\A r \in Requests : PostsNow(r) =>
          /\ \A a \in PendingAbove(r) : ~Attached(a) \/ ~Attached(r)
          /\ \A p \in sched.unresolved : host[p] # "pending"]_vars

\* Stated by the header of createBatchScheduler and by the README: approvals
\* are released strictly in stack order, never beneath an undecided prompt.
ReleasedInStackOrder ==
    [][\A r \in Requests : PostsNow(r) => PendingAbove(r) = {}]_vars

\* The prompts judged side by side in one tree are of one batch.
BatchesNeverInterleave ==
    \A r, q \in Requests :
        sched.place[r] = "active" /\ sched.place[q] = "active"
            /\ sched.home[r] = sched.home[q] => BatchOf[r] = BatchOf[q]

StartsBeside(r) ==
    /\ sched.place[r] # "active"
    /\ \E q \in Requests \ {r} :
          /\ {sched'.place[q], sched'.place[r]} = {"active"}
          /\ sched'.home[q] = sched'.home[r]

\* A prompt asked after the settings turned serial is not judged beside
\* another one, whatever read was in flight when it was asked.
SerialEditIsSeen == [][\A r \in Requests : StartsBeside(r) => r \in fanOutOk]_vars

\* A parked approval has something to wait for, in its stack or in the way of
\* every stack: no release is missed.
ParkedIsBlocked ==
    \A r \in Requests :
        sched.place[r] = "parked" /\ Attached(r) =>
            sched.unresolved # {} \/ BlockedAbove(sched, r)

\* A tree with prompts in its queue has a job running, a hold above them, or
\* something under way that will pump it: no start is missed.
NoMissedPump ==
    \A k \in Keys :
        LET o == sched.trees[k]
            queue == In(sched, o, {"queue"})
        IN  o # None /\ queue # {} =>
               \/ In(sched, o, {"active"}) # {}
               \/ HeldAbove(sched, o, Top(queue))
               \/ sched.unresolved # {}
               \/ sched.read # "none"
               \/ sched.stopped

\* The barrier belongs to prompts whose tree is being looked up or could not be
\* told, and which are not answered: a barrier left behind would hold approvals
\* back everywhere, for ever.
BarrierIsOwned ==
    \A r \in sched.unresolved :
        /\ r \notin sched.answered
        /\ r \in sched.provisional \/ (r \in Orphans /\ sched.place[r] = "held")

\* The plugin replies to a prompt once, and not after it saw it answered.
OneReply ==
    [][\A r \in Requests : PostsNow(r) => replies[r] = 0 /\ r \notin sched.answered]_vars

\* Every prompt taken up is dealt with, whether the user answers or not, unless
\* a prompt is left to the user, it sits in an object without an entry, or the
\* plugin is disposed of.
JobsEnd ==
    \A r \in Requests :
        r \in sched.live ~>
            \/ r \notin sched.live
            \/ ~Attached(r)
            \/ disposed
            \/ \E a \in Requests : sched.place[a] = "held" /\ host[a] = "pending"

\* Every tree is in order: its batches, its parked approvals, the barrier and
\* the next start.
TreeIsSound == TypeOK /\ BatchesNeverInterleave /\ ParkedIsBlocked /\ NoMissedPump /\ BarrierIsOwned

\* Each prompt has at most one reply, of a judgement made under the mode in force,
\* and is dealt with in the end.
RepliesAreDue == OneReply /\ SerialEditIsSeen /\ JobsEnd
=============================================================================
