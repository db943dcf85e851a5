----------------------------- MODULE StoreLock -----------------------------
(***************************************************************************)
(* The cross-process lock of a permission store and the sequences that run *)
(* under it: saving an approval, patching a file with a lease check,       *)
(* folding a worktree's store into the shared one, adopting a store under  *)
(* its new name (withStoreLock and migrateWorktreeStore in                 *)
(* libraries/permission-rules/src/filesystem.ts, persist in                *)
(* persist-permissions, adoptLegacyProjectScopedFile in store-keying.ts).  *)
(*                                                                         *)
(* Every process may crash at any step and leave its lock behind; some may *)
(* be suspended (SIGSTOP, a sleeping laptop) for longer than staleMs.  A   *)
(* lock grows old only while nobody can be said to hold it: its holder is  *)
(* dead or suspended.  What is looked at before a rename or an unlink is a *)
(* step of its own, every lease one, and anything may happen in between.   *)
(* Rules are values, a store is a set of them, and a missing file is the   *)
(* empty set.                                                              *)
(***************************************************************************)
EXTENDS Integers, Sequences, FiniteSets

CONSTANTS
    Savers,        \* processes that save an approved rule
    Patchers,      \* writers that check their lease, with a heartbeat
    Folders,       \* processes that fold a store into the shared one
    Adopters,      \* processes that adopt a store under its new name
    Stores, Shared,
    StoreOf,       \* the store a process saves to, or the source it moves
    RuleOf,        \* the rule a saver or patcher adds
    Before,        \* what the stores hold at first
    Stoppable,     \* processes that may be suspended
    Unwritable,    \* sources whose directory may be read-only
    MaxPasses, MaxCrashes, MaxStops, MaxBeats, MaxToggles

Movers == Folders \cup Adopters
Procs == Savers \cup Patchers \cup Movers

ASSUME StoreAssumption ==
    /\ Shared \in Stores
    /\ StoreOf \in [Procs -> Stores]
    /\ (Savers \cup Patchers) \cap Movers = {} /\ Savers \cap Patchers = {}
    /\ Before = [s \in Stores |-> Before[s]]
    /\ \A p \in Movers : StoreOf[p] # Shared
    /\ Stoppable \subseteq Procs
    /\ Unwritable \subseteq Stores \ {Shared}

VARIABLES
    store,      \* the rules in each file
    lock,       \* the lock file of each store
    proc,       \* what each process is doing
    dead, stopped,
    readonly,   \* stores whose directory is read-only now
    kept,       \* auxiliary: rules that were saved
    exposed,    \* auxiliary: rules put at stake by a rename or removal without the lease
    robbed,     \* auxiliary: tokens of fresh locks that were removed by others
    passes, holds, crashes, stops, beats, toggles    \* bounded counters

\* What a step of a process leaves alone.
world == <<dead, stopped, readonly, passes, crashes, stops, toggles>>
ghosts == <<exposed, robbed>>
vars == <<store, lock, proc, kept, ghosts, holds, beats, world>>

Rules == (UNION {Before[s] : s \in Stores}) \cup {RuleOf[p] : p \in Savers \cup Patchers}

\* A lock file: the token of the hold (also its inode), the version of its
\* mtime, and whether it is older than staleMs.
NoLock == [token |-> 0, beat |-> 0, old |-> FALSE]

\* What a process knows.  "checked" counts the leases asserted in a row; "sure" is
\* auxiliary: what was true when it was looked at, a lease that it is held, or the
\* lock in the way (0) that it is stale.
Idle == [pc |-> "idle", got |-> <<>>, saw |-> NoLock, source |-> {}, target |-> {},
         late |-> FALSE, slept |-> FALSE, beating |-> FALSE, lone |-> FALSE,
         checked |-> 0, sure |-> {}]

\* The locks a process takes, the destination's first.
Plan(p) == IF p \in Movers THEN <<Shared, StoreOf[p]>> ELSE <<StoreOf[p]>>

Destination(p) == Plan(p)[1]

\* The lock a process is after.
Wanted(p) == Plan(p)[Len(proc[p].got) + 1]

Owns(p, i) == lock[Plan(p)[i]].token = proc[p].got[i]

Init ==
    /\ store = Before
    /\ lock = [s \in Stores |-> NoLock]
    /\ proc = [p \in Procs |-> Idle]
    /\ dead = {} /\ stopped = {} /\ readonly \in SUBSET Unwritable
    /\ kept = UNION {Before[s] : s \in Stores} /\ exposed = {} /\ robbed = {}
    /\ passes = 0 /\ holds = 0 /\ crashes = 0 /\ stops = 0 /\ beats = 0 /\ toggles = 0

At(p, pc) == p \notin dead \cup stopped /\ proc[p].pc = pc

Go(p, pc) == proc' = [proc EXCEPT ![p].pc = pc]

Unlinked(s) == IF s \in readonly THEN lock ELSE [lock EXCEPT ![s] = NoLock]

-----------------------------------------------------------------------------
(* Acquiring                                                               *)

\* A move whose source is gone has nothing to do.
Begin(p) ==
    /\ At(p, "idle")
    /\ passes < MaxPasses
    /\ p \in Movers => store[StoreOf[p]] # {}
    /\ passes' = passes + 1
    /\ Go(p, "create")
    /\ UNCHANGED <<store, lock, dead, stopped, readonly, kept, ghosts, holds, crashes, stops, beats, toggles>>

\* The exclusive create succeeds: the process holds the lock under a new token.
Create(p) ==
    LET s == Wanted(p) IN
    /\ At(p, "create")
    /\ lock[s] = NoLock /\ s \notin readonly
    /\ holds' = holds + 1
    /\ lock' = [lock EXCEPT ![s] = [NoLock EXCEPT !.token = holds + 1]]
    /\ proc' = [proc EXCEPT ![p].got = Append(@, holds + 1),
                            ![p].late = FALSE,
                            ![p].pc = IF Wanted(p) = StoreOf[p] THEN "read" ELSE "create"]
    /\ UNCHANGED <<store, kept, ghosts, beats, world>>

\* What a process does that cannot create a lock file: a fold goes on with the
\* destination's lease alone, which it marks; everyone else fails.
Fallback(p) == IF p \in Folders /\ proc[p].got # <<>>
               THEN [proc[p] EXCEPT !.pc = "read", !.lone = TRUE]
               ELSE [proc[p] EXCEPT !.pc = "release"]

CannotCreate(p) ==
    /\ At(p, "create")
    /\ lock[Wanted(p)] = NoLock /\ Wanted(p) \in readonly
    /\ proc' = [proc EXCEPT ![p] = Fallback(p)]
    /\ UNCHANGED <<store, lock, kept, ghosts, holds, beats, world>>

\* The lock file exists.
IsTaken(p) ==
    /\ At(p, "create")
    /\ lock[Wanted(p)] # NoLock
    /\ Go(p, "judge")
    /\ UNCHANGED <<store, lock, kept, ghosts, holds, beats, world>>

\* The first lstat: an old lock is to be broken, if it is still the same.
Judge(p) ==
    LET it == lock[Wanted(p)] IN
    /\ At(p, "judge")
    /\ IF it.old
       THEN proc' = [proc EXCEPT ![p].saw = it, ![p].pc = "confirm"]
       ELSE Go(p, "poll")
    /\ UNCHANGED <<store, lock, kept, ghosts, holds, beats, world>>

\* Mutant of SameLock: a heartbeat goes unnoticed.
MutSameInode(p) == lock[Wanted(p)].token = proc[p].saw.token

\* The second lstat shows the inode and the mtime that were judged stale.
SameLock(p) ==
    /\ lock[Wanted(p)].token = proc[p].saw.token
    /\ lock[Wanted(p)].beat = proc[p].saw.beat

Confirm(p) ==
    LET it == lock[Wanted(p)] IN
    /\ At(p, "confirm")
    /\ proc' = [proc EXCEPT ![p].saw = NoLock,
                            ![p].sure = IF it.old THEN {0} ELSE {},
                            ![p].pc = IF SameLock(p) THEN "unlink" ELSE "poll"]
    /\ UNCHANGED <<store, lock, kept, ghosts, holds, beats, world>>

\* A lock is removed by its name, whatever it is by now: a fresh one, of another
\* holder, is robbed if the look before was right.
Removes(p, s, i) ==
    /\ lock' = Unlinked(s)
    /\ robbed' = IF i \in proc[p].sure /\ lock'[s] # lock[s] /\ ~lock[s].old
                    /\ (i = 0 \/ ~Owns(p, i))
                 THEN robbed \cup {lock[s].token} ELSE robbed

Unlink(p) ==
    /\ At(p, "unlink")
    /\ Removes(p, Wanted(p), 0)
    /\ proc' = [proc EXCEPT ![p].sure = {}, ![p].pc = "poll"]
    /\ UNCHANGED <<store, kept, exposed, holds, beats, world>>

GivesUp(p) == proc[p].late

Poll(p) ==
    /\ At(p, "poll")
    /\ Go(p, IF GivesUp(p) THEN "release" ELSE "create")
    /\ UNCHANGED <<store, lock, kept, ghosts, holds, beats, world>>

\* The deadline passes.  It is only looked at while polling, so it need not
\* pass earlier.
Deadline(p) ==
    /\ p \notin dead
    /\ proc[p].pc = "poll" /\ ~proc[p].late
    /\ proc' = [proc EXCEPT ![p].late = TRUE]
    /\ UNCHANGED <<store, lock, kept, ghosts, holds, beats, world>>

-----------------------------------------------------------------------------
(* Under the lock                                                          *)

Working == {"read", "readTarget", "compare", "assert", "publish", "reassert", "erase"}

\* A pattern that is covered already is not saved again.
Redundant(p, rules) == p \notin Movers /\ RuleOf[p] \in rules

\* The first read: of the only store, or of the source of a move, which may be
\* gone by now, or be such that the user has to merge it by hand.
Read(p) ==
    LET rules == store[StoreOf[p]]
        needless == (p \in Movers /\ rules = {}) \/ Redundant(p, rules)
        next == IF needless THEN {"release"}
                ELSE IF p \in Movers THEN {"readTarget", "release"}
                ELSE IF p \in Patchers THEN {"compare"} ELSE {"publish"}
    IN  /\ At(p, "read")
        /\ \E pc \in next : proc' = [proc EXCEPT ![p].source = rules, ![p].pc = pc]
        /\ UNCHANGED <<store, lock, kept, ghosts, holds, beats, world>>

\* An adoption whose destination exists is a conflict, left to the fold.
MayAdopt(rules) == rules = {}

\* The source goes only under both leases.
AfterMerge(p) == IF proc[p].lone THEN "release" ELSE "reassert"

\* The destination of a move: an adoption never replaces it.
ReadTarget(p) ==
    LET rules == store[Shared]
        next == IF p \in Adopters THEN IF MayAdopt(rules) THEN "assert" ELSE "release"
                ELSE IF proc[p].source \subseteq rules THEN AfterMerge(p) ELSE "assert"
    IN  /\ At(p, "readTarget")
        /\ proc' = [proc EXCEPT ![p].target = rules, ![p].pc = next]
        /\ UNCHANGED <<store, lock, kept, ghosts, holds, beats, world>>

\* A patcher asserts that the file is as it read it.
Compare(p) ==
    /\ At(p, "compare")
    /\ Go(p, IF store[StoreOf[p]] = proc[p].source THEN "assert" ELSE "release")
    /\ UNCHANGED <<store, lock, kept, ghosts, holds, beats, world>>

\* Mutant of Holds: an assertion does not look.
MutHolds(p, i) == TRUE

\* assertHeld: the token in the lock file is the process's own.
Holds(p, i) == Owns(p, i)

\* The leases are asserted one by one, between staging the file and its rename,
\* and again before the source is removed.  Only persist does not.
AssertLeases(p) ==
    LET i == proc[p].checked + 1
        last == i = Len(proc[p].got)
    IN  /\ At(p, "assert") \/ At(p, "reassert")
        /\ proc' = [proc EXCEPT
              ![p].checked = IF Holds(p, i) /\ ~last THEN i ELSE 0,
              ![p].sure = (IF i = 1 THEN {} ELSE @) \cup (IF Owns(p, i) THEN {i} ELSE {}),
              ![p].pc = IF ~Holds(p, i) THEN "release"
                        ELSE IF ~last THEN @
                        ELSE IF @ = "assert" THEN "publish" ELSE "erase"]
        /\ UNCHANGED <<store, lock, kept, ghosts, holds, beats, world>>

\* What the rename publishes.
Published(p) == IF p \in Movers THEN proc[p].source \cup proc[p].target
                ELSE proc[p].source \cup {RuleOf[p]}

\* The lease is gone, and was there when it was asserted; or nobody asserts it.
LostSince(p, i) == ~Owns(p, i) /\ (i \in proc[p].sure \/ p \in Savers)

\* The rename.  One without the lease puts at stake what it replaces, and what it
\* adds, of which a new holder may not know.
WriteStore(p) ==
    LET s == Destination(p)
        lands == s \notin readonly
    IN  /\ At(p, "publish")
        /\ store' = IF lands THEN [store EXCEPT ![s] = Published(p)] ELSE store
        /\ kept' = IF lands /\ p \notin Movers THEN kept \cup {RuleOf[p]} ELSE kept
        /\ exposed' = IF lands /\ LostSince(p, 1)
                      THEN exposed \cup (store[s] \ Published(p)) \cup (Published(p) \ store[s])
                      ELSE exposed
        /\ proc' = [proc EXCEPT ![p].sure = {},
                                ![p].pc = IF lands /\ p \in Movers THEN AfterMerge(p) ELSE "release"]
        /\ UNCHANGED <<lock, robbed, holds, beats, world>>

EraseSource(p) ==
    LET s == StoreOf[p]
        goes == s \notin readonly
    IN  /\ At(p, "erase")
        /\ store' = IF goes THEN [store EXCEPT ![s] = {}] ELSE store
        /\ exposed' = IF goes /\ LostSince(p, 2) THEN exposed \cup store[s] ELSE exposed
        /\ proc' = [proc EXCEPT ![p].sure = {}, ![p].pc = "release"]
        /\ UNCHANGED <<lock, kept, robbed, holds, beats, world>>

\* A lock is only released by the token.
MayUnlock(p, i) == Owns(p, i)

\* A process lets go of its inner lock.
LetsGo(p) == [proc[p] EXCEPT !.got = SubSeq(@, 1, Len(@) - 1), !.sure = {}, !.pc = "release"]

\* The locks are released, the inner one first: each is looked at, then removed.
Release(p) ==
    LET n == Len(proc[p].got) IN
    /\ At(p, "release")
    /\ proc' = [proc EXCEPT
          ![p] = IF n = 0 THEN [Idle EXCEPT !.beating = proc[p].beating]
                 ELSE IF MayUnlock(p, n)
                 THEN [@ EXCEPT !.sure = IF Owns(p, n) THEN {n} ELSE {}, !.pc = "unlock"]
                 ELSE LetsGo(p)]
    /\ UNCHANGED <<store, lock, kept, ghosts, holds, beats, world>>

Unlock(p) ==
    LET n == Len(proc[p].got) IN
    /\ At(p, "unlock")
    /\ Removes(p, Plan(p)[n], n)
    /\ proc' = [proc EXCEPT ![p] = LetsGo(p)]
    /\ UNCHANGED <<store, kept, exposed, holds, beats, world>>

\* A heartbeat: the token is read, then the mtime of whatever is there is set.
BeatReads(p) ==
    /\ p \in Patchers /\ p \notin dead \cup stopped
    /\ proc[p].pc \in Working /\ ~proc[p].beating
    /\ beats < MaxBeats
    /\ Owns(p, 1)
    /\ proc' = [proc EXCEPT ![p].beating = TRUE]
    /\ beats' = beats + 1
    /\ UNCHANGED <<store, lock, kept, ghosts, holds, world>>

BeatTouches(p) ==
    LET s == StoreOf[p] IN
    /\ p \notin dead \cup stopped
    /\ proc[p].beating
    /\ proc' = [proc EXCEPT ![p].beating = FALSE]
    /\ lock' = IF lock[s] = NoLock THEN lock
               ELSE [lock EXCEPT ![s].beat = @ + 1, ![s].old = FALSE]
    /\ UNCHANGED <<store, kept, ghosts, holds, beats, world>>

-----------------------------------------------------------------------------
(* The world                                                               *)

Crash(p) ==
    /\ p \notin dead /\ proc[p].pc # "idle"
    /\ crashes < MaxCrashes
    /\ dead' = dead \cup {p}
    /\ crashes' = crashes + 1
    /\ UNCHANGED <<store, lock, proc, kept, ghosts, holds, beats, stopped, readonly, passes, stops, toggles>>

Stop(p) ==
    /\ p \in Stoppable \ (dead \cup stopped) /\ proc[p].pc # "idle"
    /\ stops < MaxStops
    /\ stopped' = stopped \cup {p}
    /\ proc' = [proc EXCEPT ![p].slept = TRUE]
    /\ stops' = stops + 1
    /\ UNCHANGED <<store, lock, kept, ghosts, holds, beats, dead, readonly, passes, crashes, toggles>>

Resume(p) ==
    /\ p \in stopped \ dead
    /\ stopped' = stopped \ {p}
    /\ UNCHANGED <<store, lock, proc, kept, ghosts, holds, beats, dead, readonly, passes, crashes, stops, toggles>>

\* staleMs pass without a heartbeat: no process that runs holds the lock.
GrowsOld(s) ==
    /\ lock[s] # NoLock /\ ~lock[s].old
    /\ \A p \in Procs \ (dead \cup stopped) :
           \A i \in 1..Len(proc[p].got) : Plan(p)[i] = s => ~Owns(p, i)
    /\ lock' = [lock EXCEPT ![s].old = TRUE]
    /\ UNCHANGED <<store, proc, kept, ghosts, holds, beats, world>>

Chmod(s) ==
    /\ s \in Unwritable
    /\ toggles < MaxToggles
    /\ toggles' = toggles + 1
    /\ readonly' = IF s \in readonly THEN readonly \ {s} ELSE readonly \cup {s}
    /\ UNCHANGED <<store, lock, proc, kept, ghosts, holds, beats, dead, stopped, passes, crashes, stops>>

Works(p) ==
    \/ Create(p) \/ CannotCreate(p) \/ IsTaken(p) \/ Judge(p) \/ Confirm(p)
    \/ Unlink(p) \/ Poll(p)
    \/ Read(p) \/ ReadTarget(p) \/ Compare(p) \/ AssertLeases(p) \/ WriteStore(p) \/ EraseSource(p)
    \/ Release(p) \/ Unlock(p)

Next ==
    \/ \E p \in Procs : \/ Begin(p) \/ Works(p) \/ Deadline(p)
                        \/ BeatReads(p) \/ BeatTouches(p)
                        \/ Crash(p) \/ Stop(p) \/ Resume(p)
    \/ \E s \in Stores : GrowsOld(s) \/ Chmod(s)

\* A running process makes its calls, its clock runs, and a suspended one is
\* resumed or killed.
Fairness ==
    \A p \in Procs : /\ WF_vars(Works(p))
                     /\ SF_vars(Deadline(p))
                     /\ WF_vars(Resume(p))

Spec == Init /\ [][Next]_vars
FairSpec == Spec /\ Fairness

-----------------------------------------------------------------------------
Locks == [token : Nat, beat : Nat, old : BOOLEAN]

Process ==
    [pc : {"idle", "create", "judge", "confirm", "unlink", "poll", "release", "unlock"} \cup Working,
     got : Seq(Nat), saw : Locks, source : SUBSET Rules, target : SUBSET Rules,
     late : BOOLEAN, slept : BOOLEAN, beating : BOOLEAN, lone : BOOLEAN,
     checked : 0..1, sure : SUBSET (0..2)]

TypeOK ==
    /\ store \in [Stores -> SUBSET Rules]
    /\ lock \in [Stores -> Locks]
    /\ proc \in [Procs -> Process]
    /\ dead \cup stopped \subseteq Procs /\ readonly \subseteq Stores
    /\ kept \cup exposed \subseteq Rules /\ robbed \subseteq 1..holds
    /\ {passes, holds, crashes, stops, beats, toggles} \subseteq Nat

\* Work is done under all the locks of the plan, or in the marked fallback.
PlaceIsRight(p) ==
    /\ proc[p].pc = "idle" => proc[p].got = <<>> /\ ~proc[p].lone
    /\ proc[p].pc \in {"create", "judge", "confirm", "unlink", "poll"} =>
          Len(proc[p].got) < Len(Plan(p)) /\ ~proc[p].lone
    /\ proc[p].pc \in Working =>
          Len(proc[p].got) = IF proc[p].lone THEN 1 ELSE Len(Plan(p))
    /\ proc[p].pc \in {"readTarget", "reassert", "erase"} => p \in Movers
    /\ proc[p].pc \in {"reassert", "erase"} => ~proc[p].lone
    /\ proc[p].pc = "compare" => p \in Patchers
    /\ proc[p].pc = "assert" => p \notin Savers
    /\ proc[p].pc = "unlock" => Len(proc[p].got) # 0
    /\ Len(proc[p].got) <= Len(Plan(p))
    /\ p \in stopped => proc[p].slept
    /\ proc[p].slept => p \in Stoppable

\* What is destroyed was looked at: a lock in the way, the own lock, every lease.
LooksAreRight(p) ==
    /\ proc[p].pc = "unlink" => 0 \in proc[p].sure
    /\ proc[p].pc = "unlock" => Len(proc[p].got) \in proc[p].sure
    /\ proc[p].pc \in {"assert", "reassert"} => /\ proc[p].checked < Len(proc[p].got)
                                              /\ 1..proc[p].checked \subseteq proc[p].sure
    /\ proc[p].pc \notin {"assert", "reassert"} => proc[p].checked = 0
    /\ proc[p].pc \in {"publish", "erase"} /\ p \notin Savers =>
          1..Len(proc[p].got) \subseteq proc[p].sure

\* No two holds have the same token, and no lock file has one of a later hold.
TokensAreUnique ==
    /\ \A s \in Stores : lock[s].token <= holds /\ (lock[s].token = 0 => lock[s] = NoLock)
    /\ \A p \in Procs : \A i \in 1..Len(proc[p].got) : proc[p].got[i] \in 1..holds
    /\ \A p, q \in Procs : \A i \in 1..Len(proc[p].got), k \in 1..Len(proc[q].got) :
          proc[p].got[i] = proc[q].got[k] => p = q /\ i = k

\* Whoever still owns an old lock is dead, or was suspended under it.
StaleIsAbandoned ==
    \A p \in Procs : \A i \in 1..Len(proc[p].got) :
        Owns(p, i) /\ lock[Plan(p)[i]].old => p \in dead \/ proc[p].slept

\* A lock that still is as a waiter judged it is still stale.
LookIsCurrent(p) ==
    proc[p].pc = "confirm" =>
        /\ proc[p].saw.token \in 1..holds
        /\ LET it == lock[Wanted(p)] IN
           it.token = proc[p].saw.token =>
              it.beat >= proc[p].saw.beat /\ (it.beat = proc[p].saw.beat => it.old)

\* What a process has read under a lock is all there is as long as it owns the
\* lock, and what it is about to remove is in the destination, but for what was put
\* at stake.
ReadIsCurrent(p) ==
    IF p \in Movers
    THEN /\ proc[p].pc \in Working \ {"read"} /\ ~proc[p].lone /\ Owns(p, 2) =>
               store[StoreOf[p]] \subseteq proc[p].source \cup exposed
         /\ proc[p].pc \in {"assert", "publish"} /\ Owns(p, 1) =>
               store[Shared] \subseteq proc[p].target \cup exposed
         /\ proc[p].pc \in {"reassert", "erase"} =>
               proc[p].source \subseteq store[Shared] \cup exposed
    ELSE proc[p].pc \in Working \ {"read"} /\ Owns(p, 1) =>
               store[StoreOf[p]] \subseteq proc[p].source \cup exposed

\* Mutual exclusion while a holder runs: whoever has taken a lock and was not
\* suspended or killed since still owns it, however many waiters broke a stale
\* lock before and whatever earlier holders release; but for the two steps between
\* a right look at a lock and its removal.
LiveHoldersOwn ==
    \A p \in Procs \ dead : ~proc[p].slept =>
        \A i \in 1..Len(proc[p].got) : Owns(p, i) \/ proc[p].got[i] \in robbed

\* No rule that was ever saved, or was there at first, is lost: some file holds it,
\* through crashes between the steps of a fold and holds that were broken; but what
\* a rename or removal put at stake whose lease was lost after it was asserted, or
\* is asserted by nobody.
NoLostRule == kept \subseteq exposed \cup UNION {store[s] : s \in Stores}

\* When a source is removed, every rule in it, read or not, is in the destination,
\* or was put at stake so.
NothingUnreadRemoved ==
    [][\A s \in Stores \ {Shared} :
          store[s] # {} /\ store'[s] = {} => store[s] \subseteq store[Shared] \cup exposed']_vars

\* The state of the locks is sound, no running holder is robbed, what was read
\* under a lock is current, and no rule is lost: an invariant that every step
\* preserves by itself.
StoreIsKept ==
    /\ TypeOK /\ TokensAreUnique /\ LiveHoldersOwn /\ StaleIsAbandoned /\ NoLostRule
    /\ \A p \in Procs : /\ PlaceIsRight(p) /\ LooksAreRight(p)
                          /\ LookIsCurrent(p) /\ ReadIsCurrent(p)

\* Nobody but its holder removes a lock that is not stale now: a heartbeat
\* between the two looks of a waiter saves it.  Left is what is removed by its name
\* after a right look.
FreshLocksStay ==
    [][\A s \in Stores :
          lock[s] # NoLock /\ ~lock[s].old /\ lock'[s].token # lock[s].token
          => \/ lock[s].token \in robbed'
             \/ \E p \in Procs : \E i \in 1..Len(proc[p].got) :
                    Plan(p)[i] = s /\ Owns(p, i) /\ proc[p].pc = "unlock"]_vars

\* Taking a lock ends, with the lock or without, for whoever is not killed, and
\* so does what is done under it: two moves and a save cannot wait for each
\* other.
PassesEnd == \A p \in Procs : proc[p].pc # "idle" ~> proc[p].pc = "idle" \/ p \in dead

\* A fresh lock is its holder's, and yet nobody waits for ever.
PatchesSettle == FreshLocksStay /\ PassesEnd
=============================================================================
