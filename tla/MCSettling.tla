----------------------------- MODULE MCSettling -----------------------------
(***************************************************************************)
(* The process group of a task, the delivery of completion notes and the   *)
(* classification slots, checked side by side: a behaviour is one part's;  *)
(* the others stay at rest, where none of their fair actions is enabled.   *)
(***************************************************************************)
EXTENDS ProcessGroup, NoteBatches, ConcurrencyPool

VARIABLE part

\* Two notes for the first session, one for the second.
NoteOwner == <<1, 1, 2>>

MCInit == part \in {"group", "notes", "slots"} /\ PGInit /\ NBInit /\ CPInit

MCNext ==
    /\ UNCHANGED part
    /\ \/ part = "group" /\ PGNext /\ UNCHANGED <<nbVars, cpVars>>
       \/ part = "notes" /\ NBNext /\ UNCHANGED <<pgVars, cpVars>>
       \/ part = "slots" /\ CPNext /\ UNCHANGED <<pgVars, nbVars>>

MCSpec ==
    /\ MCInit /\ [][MCNext]_<<part, pgVars, nbVars, cpVars>>
    /\ PGFairness /\ NBFairness /\ CPFairness

\* What is owed is settled: a group let go of dies, every note is accounted for
\* and none is on its way for ever, every waiter gets a slot or leaves.
AllSettle == ReleasedDies /\ NotesArrive /\ WaitersAreServed
=============================================================================
