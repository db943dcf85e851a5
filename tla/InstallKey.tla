----------------------------- MODULE InstallKey -----------------------------
(***************************************************************************)
(* The key of the placeholders' fingerprints, made once for an installation *)
(* (plugins/redact-secrets/src/index.ts, loadOrCreateHashKey).  Servers     *)
(* that start at the same time must take the same key, also when the file   *)
(* was left without one and when the lock of the repair was left behind.    *)
(*                                                                         *)
(* A start of a server is a process of its own; its key is its name.  The   *)
(* key file is [by, is]: whose key, and whether it is all there.  A          *)
(* temporary file that is never renamed is seen by nobody.                  *)
(***************************************************************************)
EXTENDS Naturals

CONSTANT Starts   \* numbered from 1

ASSUME IKAssumption == Starts \subseteq Nat \ {0}

VARIABLES
    keyFile, keyLock,  \* the lock's holder, or 0
    lockStale,         \* is the lock 10 s old?
    doing,             \* what each start is about to do
    took,              \* the key it goes on with, or 0
    excused            \* did one of the two known races happen?

ikVars == <<keyFile, keyLock, lockStale, doing, took, excused>>

Missing == [by |-> 0, is |-> "missing"]
Debris == [by |-> 0, is |-> "broken"]

IKInit ==
    /\ keyFile \in {Missing, Debris} /\ keyLock = 0 /\ lockStale = FALSE
    /\ doing = [p \in Starts |-> "off"]
    /\ took = [p \in Starts |-> 0]
    /\ excused = FALSE

-----------------------------------------------------------------------------

To(p, at) == doing' = [doing EXCEPT ![p] = at]
Take(p, key, at) == took' = [took EXCEPT ![p] = key] /\ To(p, at)
Stay == UNCHANGED took

IsWhole == keyFile.is = "whole"

\* readKey, wherever it is called: a whole key is taken.
ReadKey(p, at, found, otherwise) ==
    /\ doing[p] = at
    /\ IF IsWhole THEN Take(p, keyFile.by, found) ELSE To(p, otherwise) /\ Stay

Locks == UNCHANGED <<keyLock, lockStale>>

Start(p) ==
    doing[p] = "off" /\ To(p, "read") /\ UNCHANGED <<keyFile, keyLock, lockStale, took, excused>>

\* Each first read; the read after the create failed; the one after a pause.
Reads(p) ==
    /\ \/ ReadKey(p, "read", "done", "create")
       \/ ReadKey(p, "raced", "done", "lock")
       \/ ReadKey(p, "poll", "done", "lock")
    /\ UNCHANGED <<keyFile, keyLock, lockStale, excused>>

\* writeFile with wx: the file is there before its content is.
Create(p) ==
    /\ doing[p] = "create"
    /\ IF keyFile = Missing
       THEN keyFile' = [by |-> p, is |-> "broken"] /\ To(p, "fill")
       ELSE To(p, "raced") /\ UNCHANGED keyFile
    /\ UNCHANGED <<keyLock, lockStale, took, excused>>

\* The content goes to the file that was opened, which a rename may have replaced.
Fill(p) ==
    /\ doing[p] = "fill"
    /\ keyFile' = IF keyFile.by = p THEN [keyFile EXCEPT !.is = "whole"] ELSE keyFile
    /\ Take(p, p, "done")
    /\ UNCHANGED <<keyLock, lockStale, excused>>

-----------------------------------------------------------------------------
(* The repair. *)

\* The lock is created, or found; until the deadline.
TakeLock(p) ==
    /\ doing[p] = "lock"
    /\ IF keyLock = 0 THEN keyLock' = p /\ lockStale' = FALSE /\ To(p, "check")
       ELSE To(p, "stat") /\ Locks
    /\ UNCHANGED <<keyFile, took, excused>>

Deadline(p) ==
    doing[p] = "lock" /\ Take(p, p, "ephemeral") /\ Locks /\ UNCHANGED <<keyFile, excused>>

Stat(p) ==
    /\ doing[p] = "stat"
    /\ To(p, IF keyLock # 0 /\ lockStale THEN "steal" ELSE "poll")
    /\ UNCHANGED <<keyFile, keyLock, lockStale, took, excused>>

\* The lock that is removed may not be the one that was found stale.
Steal(p) ==
    /\ doing[p] = "steal"
    /\ keyLock' = 0 /\ lockStale' = FALSE /\ To(p, "poll")
    /\ excused' = (excused \/ (keyLock # 0 /\ ~lockStale))
    /\ UNCHANGED <<keyFile, took>>

\* Mutant of Check: what was read before the lock was taken is relied on.
MutCheck(p) ==
    /\ doing[p] = "check"
    /\ To(p, "publish") /\ Stay
    /\ excused' = (excused \/ \E q \in Starts : doing[q] = "fill" /\ keyFile.by = q)
    /\ UNCHANGED <<keyFile, keyLock, lockStale>>

\* Under the lock the file is read again: a key is never replaced.
Check(p) ==
    /\ ReadKey(p, "check", "unlock", "publish")
    /\ excused' = (excused \/ \E q \in Starts : doing[q] = "fill" /\ keyFile.by = q)
    /\ UNCHANGED <<keyFile, keyLock, lockStale>>

\* The temporary file is renamed over the path.
PublishKey(p) ==
    /\ doing[p] = "publish"
    /\ keyFile' = [by |-> p, is |-> "whole"] /\ Take(p, p, "unlock")
    /\ UNCHANGED <<keyLock, lockStale, excused>>

PublishFails(p) ==
    /\ doing[p] = "publish"
    /\ Take(p, p, "giveUp")
    /\ UNCHANGED <<keyFile, keyLock, lockStale, excused>>

Unlock(p) ==
    /\ doing[p] \in {"unlock", "giveUp"}
    /\ keyLock' = 0 /\ lockStale' = FALSE
    /\ To(p, IF doing[p] = "unlock" THEN "done" ELSE "ephemeral") /\ Stay
    /\ UNCHANGED <<keyFile, excused>>

-----------------------------------------------------------------------------

StartDies(p) ==
    /\ doing[p] \notin {"off", "dead"}
    /\ To(p, "dead") /\ Stay
    /\ UNCHANGED <<keyFile, keyLock, lockStale, excused>>

\* A lock that a dead start left behind gets old; a live one is held for less.
LockAges ==
    /\ keyLock # 0 /\ ~lockStale /\ doing[keyLock] = "dead"
    /\ lockStale' = TRUE
    /\ UNCHANGED <<keyFile, keyLock, doing, took, excused>>

IKNext ==
    \/ LockAges
    \/ \E p \in Starts :
        \/ Start(p) \/ Reads(p) \/ Create(p) \/ Fill(p)
        \/ TakeLock(p) \/ Deadline(p) \/ Stat(p) \/ Steal(p)
        \/ Check(p) \/ PublishKey(p) \/ PublishFails(p) \/ Unlock(p) \/ StartDies(p)

IKSpec == IKInit /\ [][IKNext]_ikVars

-----------------------------------------------------------------------------
\* Every start that goes on with a stored key goes on with the one in the file,
\* the key the next start will read.
Converged == \A p \in Starts : doing[p] = "done" => keyFile = [by |-> took[p], is |-> "whole"]

\* So it is, but for two races: a file that is created and not yet filled is
\* taken for a broken one, and a lock is removed that is not the stale one found.
KeysAgree == ~excused => Converged
=============================================================================
