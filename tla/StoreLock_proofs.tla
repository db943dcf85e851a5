-------------------------- MODULE StoreLock_proofs --------------------------
(***************************************************************************)
(* Proofs about StoreLock: StoreIsKept is inductive, for any number of     *)
(* processes and stores, crashes, suspensions of any process at any step,  *)
(* holds that are broken as stale and unlinks that lag behind their look.  *)
(*                                                                         *)
(* The argument: tokens are unique, so a lock has one owner, and a running *)
(* holder loses it only to a removal that a right look came before         *)
(* (robbed); what a process has read under a lock is all there is while it *)
(* owns it, but for what was written without the lease (exposed); so a     *)
(* rename or removal either is its owner's, which has read all of it, or   *)
(* puts at stake what it destroys.  Two components that share no state     *)
(* with it follow, with proofs in the same manner: StoredApprovals         *)
(* (StoredRulesAreMeant) and StoreKeying (KeysAreKept).                    *)
(***************************************************************************)
EXTENDS StoreLock, StoredApprovals, StoreKeying, SequenceTheorems, FiniteSetTheorems, TLAPS

PCs == {"idle", "create", "judge", "confirm", "unlink", "poll", "release", "unlock"} \cup Working

\* The parts of StoreIsKept that are about a process by itself.
ProcessInv(p) ==
    PlaceIsRight(p) /\ LooksAreRight(p) /\ LookIsCurrent(p) /\ ReadIsCurrent(p)

LockInv == TokensAreUnique /\ LiveHoldersOwn /\ StaleIsAbandoned

LEMMA Parts ==
    /\ StoreIsKept <=> TypeOK /\ LockInv /\ NoLostRule /\ \A p \in Procs : ProcessInv(p)
    /\ StoreIsKept' <=> TypeOK' /\ LockInv' /\ NoLostRule' /\ \A p \in Procs : ProcessInv(p)'
  BY DEF StoreIsKept, LockInv, ProcessInv

\* The locks a process takes.
LEMMA PlanFacts ==
    ASSUME NEW p \in Procs
    PROVE  /\ StoreOf[p] \in Stores /\ Shared \in Stores
           /\ Len(Plan(p)) \in {1, 2}
           /\ \A i \in 1..Len(Plan(p)) : Plan(p)[i] \in Stores
           /\ p \in Movers => /\ Len(Plan(p)) = 2
                              /\ Plan(p)[1] = Shared /\ Plan(p)[2] = StoreOf[p]
                              /\ StoreOf[p] # Shared
           /\ p \notin Movers => Len(Plan(p)) = 1 /\ Plan(p)[1] = StoreOf[p]
  <1>1. StoreOf[p] \in Stores /\ Shared \in Stores /\ (p \in Movers => StoreOf[p] # Shared)
    BY StoreAssumption
  <1>2. CASE p \in Movers
    BY <1>1, <1>2 DEF Plan
  <1>3. CASE p \notin Movers
    BY <1>1, <1>3 DEF Plan
  <1>. QED
    BY <1>2, <1>3

\* The fields of a process.
LEMMA ProcessFacts ==
    ASSUME TypeOK, NEW p \in Procs
    PROVE  /\ proc[p] \in Process /\ proc[p].pc \in PCs
           /\ proc[p].got \in Seq(Nat) /\ Len(proc[p].got) \in Nat
           /\ proc[p].saw \in Locks
           /\ proc[p].source \subseteq Rules /\ proc[p].target \subseteq Rules
           /\ proc[p].late \in BOOLEAN /\ proc[p].slept \in BOOLEAN
           /\ proc[p].beating \in BOOLEAN /\ proc[p].lone \in BOOLEAN
           /\ proc[p].checked \in 0..1 /\ proc[p].sure \in SUBSET (0..2)
  BY DEF TypeOK, Process, PCs

\* A lock has one owner.
LEMMA OneOwner ==
    ASSUME TokensAreUnique, NEW p \in Procs, NEW q \in Procs,
           NEW i \in 1..Len(proc[p].got), NEW k \in 1..Len(proc[q].got),
           Plan(p)[i] = Plan(q)[k], Owns(p, i), Owns(q, k)
    PROVE  p = q /\ i = k
  BY DEF TokensAreUnique, Owns

LEMMA IdleFacts ==
    /\ Idle \in Process /\ Idle.got = <<>> /\ Idle.pc = "idle" /\ ~Idle.lone /\ ~Idle.slept
    /\ Idle.checked = 0
  <1>1. NoLock \in Locks /\ <<>> \in Seq(Nat) /\ {} \in SUBSET Rules
    BY EmptySeq DEF NoLock, Locks
  <1>2. "idle" \in {"idle", "create", "judge", "confirm", "unlink", "poll", "release", "unlock"} \cup Working
    OBVIOUS
  <1>4. 0 \in 0..1 /\ {} \in SUBSET (0..2)
    OBVIOUS
  <1>3. Idle \in Process
    <2>. HIDE DEF Working, Rules, NoLock, Locks
    <2>. QED
      BY <1>1, <1>2, <1>4 DEF Idle, Process
  <1>. QED
    BY <1>3 DEF Idle

\* A step in which only p changes, to another state of its own.
Moves(p, to) == proc' = [proc EXCEPT ![p] = to]

LEMMA MovesFacts ==
    ASSUME TypeOK, NEW p \in Procs, NEW to \in Process, Moves(p, to)
    PROVE  /\ proc' \in [Procs -> Process]
           /\ proc'[p] = to
           /\ \A q \in Procs : q # p => proc'[q] = proc[q]
  BY DEF TypeOK, Moves

LEMMA GoFacts ==
    ASSUME TypeOK, NEW p \in Procs, NEW pc \in PCs, Go(p, pc)
    PROVE  /\ proc' \in [Procs -> Process]
           /\ proc'[p] = [proc[p] EXCEPT !.pc = pc]
           /\ proc'[p].pc = pc
           /\ proc'[p].got = proc[p].got /\ proc'[p].saw = proc[p].saw
           /\ proc'[p].source = proc[p].source /\ proc'[p].target = proc[p].target
           /\ proc'[p].late = proc[p].late /\ proc'[p].slept = proc[p].slept
           /\ proc'[p].beating = proc[p].beating /\ proc'[p].lone = proc[p].lone
           /\ proc'[p].checked = proc[p].checked /\ proc'[p].sure = proc[p].sure
           /\ \A q \in Procs : q # p => proc'[q] = proc[q]
  BY ZenonT(60) DEF TypeOK, Go, Process, PCs

-----------------------------------------------------------------------------
(* Frames. *)

\* Holds that are given up, and a lock that is removed and was no running
\* holder's, or is counted as robbed, leave the other holds as they are.
LEMMA HoldsShrink ==
    ASSUME TypeOK, LockInv, NEW w \in Stores,
           \A q \in Procs : Len(proc[q].got) <= Len(Plan(q)),
           lock' = lock \/ lock' = [lock EXCEPT ![w] = NoLock],
           holds' = holds, dead \subseteq dead', robbed \subseteq robbed',
           \A q \in Procs : /\ Len(proc'[q].got) \in Nat /\ Len(proc'[q].got) <= Len(proc[q].got)
                            /\ \A k \in 1..Len(proc'[q].got) : proc'[q].got[k] = proc[q].got[k]
                            /\ proc[q].slept => proc'[q].slept \/ Len(proc'[q].got) = 0,
           \A q \in Procs : \A k \in 1..Len(proc'[q].got) :
              q \notin dead /\ ~proc[q].slept /\ Plan(q)[k] = w /\ Owns(q, k)
              => lock' = lock \/ proc[q].got[k] \in robbed'
    PROVE  /\ LockInv'
           /\ \A q \in Procs : \A k \in 1..Len(proc'[q].got) : Owns(q, k)' => Owns(q, k)
  <1>1. \A q \in Procs : \A k \in 1..Len(proc'[q].got) :
           k \in 1..Len(proc[q].got) /\ proc'[q].got[k] = proc[q].got[k]
           /\ proc[q].got[k] \in 1..holds /\ Plan(q)[k] \in Stores
    <2>1. \A q \in Procs : Len(proc[q].got) \in Nat
      BY ProcessFacts
    <2>. QED
      BY <2>1, PlanFacts DEF LockInv, TokensAreUnique
  <1>2. holds \in Nat /\ \A s \in Stores : lock[s] \in Locks /\ lock[s].token \in Nat
    BY DEF TypeOK, Locks
  <1>3. NoLock.token = 0 /\ NoLock.old = FALSE
    BY DEF NoLock
  <1>4. \A s \in Stores : lock'[s] = lock[s] \/ lock'[s] = NoLock
    BY DEF TypeOK
  <1>5. \A q \in Procs : \A k \in 1..Len(proc'[q].got) : Owns(q, k)' =>
           Owns(q, k) /\ lock'[Plan(q)[k]] = lock[Plan(q)[k]]
    <2>1. SUFFICES ASSUME NEW q \in Procs, NEW k \in 1..Len(proc'[q].got), Owns(q, k)'
                   PROVE  Owns(q, k) /\ lock'[Plan(q)[k]] = lock[Plan(q)[k]]
      OBVIOUS
    <2>2. lock'[Plan(q)[k]].token = proc[q].got[k] /\ proc[q].got[k] >= 1
      BY <2>1, <1>1 DEF Owns, Plan
    <2>3. CASE lock' = lock
      BY <2>2, <2>3 DEF Owns
    <2>4. CASE lock' = [lock EXCEPT ![w] = NoLock]
      <3>1. Plan(q)[k] # w
        BY <2>2, <2>4, <1>3 DEF TypeOK
      <3>2. lock'[Plan(q)[k]] = lock[Plan(q)[k]]
        BY <2>4, <3>1, <1>1 DEF TypeOK
      <3>. QED
        BY <2>2, <3>2 DEF Owns
    <2>. QED
      BY <2>3, <2>4
  <1>6. TokensAreUnique'
    <2>1. \A s \in Stores : lock'[s].token <= holds' /\ (lock'[s].token = 0 => lock'[s] = NoLock)
      BY <1>2, <1>3, <1>4 DEF LockInv, TokensAreUnique
    <2>2. \A q \in Procs : \A k \in 1..Len(proc'[q].got) : proc'[q].got[k] \in 1..holds'
      BY <1>1
    <2>3. \A q, r \in Procs : \A i \in 1..Len(proc'[q].got), k \in 1..Len(proc'[r].got) :
             proc'[q].got[i] = proc'[r].got[k] => q = r /\ i = k
      BY <1>1 DEF LockInv, TokensAreUnique
    <2>. QED
      BY <2>1, <2>2, <2>3 DEF TokensAreUnique
  <1>7. LiveHoldersOwn'
    <2>1. SUFFICES ASSUME NEW q \in Procs, q \notin dead', ~proc'[q].slept,
                          NEW k \in 1..Len(proc'[q].got)
                   PROVE  Owns(q, k)' \/ proc'[q].got[k] \in robbed'
      BY DEF LiveHoldersOwn
    <2>2. q \notin dead /\ ~proc[q].slept
      BY <2>1
    <2>3. Owns(q, k) \/ proc[q].got[k] \in robbed
      BY <2>2, <1>1 DEF LockInv, LiveHoldersOwn
    <2>4. Owns(q, k) => lock'[Plan(q)[k]] = lock[Plan(q)[k]] \/ proc[q].got[k] \in robbed'
      <3>1. CASE Plan(q)[k] = w
        BY <2>2, <3>1
      <3>2. CASE Plan(q)[k] # w
        BY <3>2, <1>1 DEF TypeOK
      <3>. QED
        BY <3>1, <3>2
    <2>. QED
      BY <2>3, <2>4, <1>1 DEF Owns, Plan
  <1>8. StaleIsAbandoned'
    <2>1. SUFFICES ASSUME NEW q \in Procs, NEW k \in 1..Len(proc'[q].got), Owns(q, k)',
                          lock'[Plan(q)[k]].old
                   PROVE  q \in dead' \/ proc'[q].slept
      BY DEF StaleIsAbandoned, Plan
    <2>2. Owns(q, k)
      BY <2>1, <1>5
    <2>3. lock[Plan(q)[k]].old
      BY <2>1, <1>5
    <2>4. q \in dead \/ proc[q].slept
      BY <2>2, <2>3, <1>1 DEF LockInv, StaleIsAbandoned
    <2>5. Len(proc'[q].got) # 0
      BY <2>1
    <2>. QED
      BY <2>4, <2>5
  <1>. QED
    BY <1>5, <1>6, <1>7, <1>8 DEF LockInv

\* What a process has read stays so while its holds and the stores that it owns do,
\* but for what is at stake.
LEMMA ReadingsKept ==
    ASSUME TypeOK, NEW q \in Procs, PlaceIsRight(q), ReadIsCurrent(q), proc'[q] = proc[q],
           exposed \subseteq exposed', store[Shared] \subseteq store'[Shared] \cup exposed',
           \A k \in 1..Len(proc[q].got) :
              k <= Len(Plan(q)) /\ Owns(q, k)' =>
                 Owns(q, k) /\ store'[Plan(q)[k]] \subseteq store[Plan(q)[k]] \cup exposed'
    PROVE  ReadIsCurrent(q)'
  <1>1. proc[q].pc \in Working => 1 \in 1..Len(proc[q].got)
    BY PlanFacts, ProcessFacts DEF PlaceIsRight
  <1>2. q \in Movers /\ proc[q].pc \in Working /\ ~proc[q].lone => 2 \in 1..Len(proc[q].got)
    BY PlanFacts, ProcessFacts DEF PlaceIsRight
  <1>3. CASE q \in Movers
    <2>1. Plan(q)[1] = Shared /\ Plan(q)[2] = StoreOf[q] /\ Len(Plan(q)) = 2
      BY <1>3, PlanFacts
    <2>2. proc[q].pc \in Working /\ Owns(q, 1)' =>
             Owns(q, 1) /\ store'[Shared] \subseteq store[Shared] \cup exposed'
      BY <1>1, <2>1
    <2>3. proc[q].pc \in Working /\ ~proc[q].lone /\ Owns(q, 2)' =>
             Owns(q, 2) /\ store'[StoreOf[q]] \subseteq store[StoreOf[q]] \cup exposed'
      BY <1>2, <1>3, <2>1
    <2>4. proc[q].pc \in Working \ {"read"} /\ ~proc[q].lone /\ Owns(q, 2)' =>
             store'[StoreOf[q]] \subseteq proc[q].source \cup exposed'
      BY <1>3, <2>3 DEF ReadIsCurrent
    <2>5. proc[q].pc \in {"assert", "publish"} /\ Owns(q, 1)' =>
             store'[Shared] \subseteq proc[q].target \cup exposed'
      BY <1>3, <2>2 DEF ReadIsCurrent, Working
    <2>6. proc[q].pc \in {"reassert", "erase"} =>
             proc[q].source \subseteq store'[Shared] \cup exposed'
      BY <1>3 DEF ReadIsCurrent
    <2>. QED
      BY <1>3, <2>4, <2>5, <2>6 DEF ReadIsCurrent
  <1>4. CASE q \notin Movers
    <2>1. Plan(q)[1] = StoreOf[q] /\ Len(Plan(q)) = 1
      BY <1>4, PlanFacts
    <2>2. proc[q].pc \in Working /\ Owns(q, 1)' =>
             Owns(q, 1) /\ store'[StoreOf[q]] \subseteq store[StoreOf[q]] \cup exposed'
      BY <1>1, <2>1
    <2>. QED
      BY <1>4, <2>2 DEF ReadIsCurrent
  <1>. QED
    BY <1>3, <1>4

\* A process that does nothing stays where it is.
LEMMA PlaceKept ==
    ASSUME NEW q \in Procs, PlaceIsRight(q), proc'[q] = proc[q], q \in stopped' => q \in stopped
    PROVE  PlaceIsRight(q)'
  BY DEF PlaceIsRight, Plan

LEMMA LooksKept ==
    ASSUME NEW q \in Procs, LooksAreRight(q), proc'[q] = proc[q]
    PROVE  LooksAreRight(q)'
  BY DEF LooksAreRight

\* Where nothing is destroyed, nothing need have been looked at.
LEMMA PlainLooks ==
    ASSUME NEW q \in Procs, proc'[q].checked = 0,
           proc'[q].pc \notin {"unlink", "unlock", "assert", "reassert", "publish", "erase"}
    PROVE  LooksAreRight(q)'
  BY DEF LooksAreRight

LEMMA Unasserted ==
    ASSUME NEW q \in Procs, LooksAreRight(q), proc[q].pc \notin {"assert", "reassert"}
    PROVE  proc[q].checked = 0
  BY DEF LooksAreRight

\* A waiter's look at a lock stays good while nobody renews the lock.
LEMMA LookKept ==
    ASSUME TypeOK, LockInv, NEW q \in Procs, PlaceIsRight(q), LookIsCurrent(q),
           proc'[q] = proc[q], NEW w \in Stores,
           lock' = lock \/ lock' = [lock EXCEPT ![w] = NoLock], holds' = holds
    PROVE  LookIsCurrent(q)'
  <1>1. SUFFICES ASSUME proc[q].pc = "confirm"
                 PROVE  LookIsCurrent(q)'
    BY DEF LookIsCurrent
  <1>2. Wanted(q)' = Wanted(q) /\ Wanted(q) \in Stores
    <2>1. Len(proc[q].got) + 1 \in 1..Len(Plan(q))
      BY <1>1, PlanFacts, ProcessFacts DEF PlaceIsRight
    <2>. QED
      BY <2>1, PlanFacts DEF Wanted, Plan
  <1>3. proc[q].saw.token \in 1..holds /\ NoLock.token = 0
    BY <1>1 DEF LookIsCurrent, NoLock
  <1>4. CASE lock' = lock
    BY <1>1, <1>2, <1>4 DEF LookIsCurrent
  <1>5. CASE lock' = [lock EXCEPT ![w] = NoLock]
    <2>1. lock'[Wanted(q)] = lock[Wanted(q)] \/ lock'[Wanted(q)] = NoLock
      BY <1>2, <1>5 DEF TypeOK
    <2>. QED
      BY <1>1, <1>2, <1>3, <2>1 DEF LookIsCurrent
  <1>. QED
    BY <1>4, <1>5

\* A step of p that writes no store, takes no lock, and at most removes one that
\* no running holder has, or counts it as robbed.
LEMMA QuietStep ==
    ASSUME StoreIsKept, TypeOK', NEW p \in Procs, NEW w \in Stores,
           lock' = lock \/ lock' = [lock EXCEPT ![w] = NoLock],
           store' = store, kept' = kept, exposed' = exposed, robbed \subseteq robbed',
           holds' = holds, dead \subseteq dead',
           \A q \in Procs \ {p} : proc'[q] = proc[q] /\ (q \in stopped' => q \in stopped),
           Len(proc'[p].got) <= Len(proc[p].got),
           \A k \in 1..Len(proc'[p].got) : proc'[p].got[k] = proc[p].got[k],
           proc[p].slept => proc'[p].slept \/ Len(proc'[p].got) = 0,
           \A q \in Procs : \A k \in 1..Len(proc'[q].got) :
              q \notin dead /\ ~proc[q].slept /\ Plan(q)[k] = w /\ Owns(q, k)
              => lock' = lock \/ proc[q].got[k] \in robbed',
           PlaceIsRight(p)', LooksAreRight(p)', LookIsCurrent(p)', ReadIsCurrent(p)'
    PROVE  StoreIsKept'
  <1>. USE Parts
  <1>1. \A q \in Procs : Len(proc[q].got) \in Nat /\ Len(proc[q].got) <= Len(Plan(q))
    BY ProcessFacts DEF ProcessInv, PlaceIsRight
  <1>2. Len(proc'[p].got) \in Nat
    BY DEF TypeOK, Process
  <1>3. \A q \in Procs : /\ Len(proc'[q].got) \in Nat /\ Len(proc'[q].got) <= Len(proc[q].got)
                          /\ \A k \in 1..Len(proc'[q].got) : proc'[q].got[k] = proc[q].got[k]
                          /\ proc[q].slept => proc'[q].slept \/ Len(proc'[q].got) = 0
    BY <1>1, <1>2
  <1>4. /\ LockInv'
        /\ \A q \in Procs : \A k \in 1..Len(proc'[q].got) : Owns(q, k)' => Owns(q, k)
    BY <1>1, <1>3, HoldsShrink
  <1>5. NoLostRule'
    BY DEF NoLostRule
  <1>6. ASSUME NEW q \in Procs, q # p
        PROVE  ProcessInv(q)'
    <2>1. proc'[q] = proc[q] /\ ProcessInv(q) /\ (q \in stopped' => q \in stopped)
      BY <1>6
    <2>2. PlaceIsRight(q)'
      BY <2>1, PlaceKept DEF ProcessInv
    <2>3. LookIsCurrent(q)'
      BY <2>1, LookKept DEF ProcessInv
    <2>4. ReadIsCurrent(q)'
      BY <2>1, <1>4, ReadingsKept DEF ProcessInv
    <2>5. LooksAreRight(q)'
      BY <2>1, LooksKept DEF ProcessInv
    <2>. QED
      BY <2>2, <2>3, <2>4, <2>5 DEF ProcessInv
  <1>7. ProcessInv(p)'
    BY DEF ProcessInv
  <1>. QED
    BY <1>4, <1>5, <1>6, <1>7

\* The same, where no lock is touched and p keeps its holds.
LEMMA LocalStep ==
    ASSUME StoreIsKept, TypeOK', NEW p \in Procs,
           lock' = lock, store' = store, kept' = kept, exposed' = exposed, robbed' = robbed,
           holds' = holds, dead \subseteq dead',
           \A q \in Procs \ {p} : proc'[q] = proc[q] /\ (q \in stopped' => q \in stopped),
           proc'[p].got = proc[p].got, proc[p].slept => proc'[p].slept,
           PlaceIsRight(p)', LooksAreRight(p)', LookIsCurrent(p)', ReadIsCurrent(p)'
    PROVE  StoreIsKept'
  <1>1. Shared \in Stores
    BY StoreAssumption
  <1>2. Len(proc'[p].got) \in Nat
    BY DEF TypeOK, Process
  <1>. QED
    BY <1>1, <1>2, QuietStep

\* The parts of the invariant for one process.
LEMMA OfProcess ==
    ASSUME StoreIsKept, NEW p \in Procs
    PROVE  /\ TypeOK /\ LockInv
           /\ PlaceIsRight(p) /\ LooksAreRight(p) /\ LookIsCurrent(p) /\ ReadIsCurrent(p)
  BY Parts DEF ProcessInv

-----------------------------------------------------------------------------
(* Acquiring. *)

LEMMA BeginKeeps ==
    ASSUME StoreIsKept, NEW p \in Procs, Begin(p)
    PROVE  StoreIsKept'
  <1>1. TypeOK /\ PlaceIsRight(p) /\ LooksAreRight(p) /\ LookIsCurrent(p) /\ ReadIsCurrent(p)
    BY OfProcess
  <1>2. /\ lock' = lock /\ store' = store /\ kept' = kept /\ holds' = holds /\ dead' = dead
        /\ exposed' = exposed /\ robbed' = robbed /\ stopped' = stopped /\ readonly' = readonly /\ passes' = passes + 1
        /\ crashes' = crashes /\ stops' = stops /\ beats' = beats /\ toggles' = toggles
        /\ Go(p, "create") /\ proc[p].pc = "idle"
    BY DEF Begin, At, ghosts
  <1>3. "create" \in PCs
    BY DEF PCs
  <1>4. /\ proc' \in [Procs -> Process]
        /\ proc'[p].pc = "create" /\ proc'[p].got = proc[p].got
        /\ proc'[p].slept = proc[p].slept /\ proc'[p].lone = proc[p].lone
        /\ proc'[p].checked = proc[p].checked
        /\ \A q \in Procs : q # p => proc'[q] = proc[q]
    BY <1>1, <1>2, <1>3, GoFacts
  <1>5. TypeOK'
    BY <1>1, <1>2, <1>4 DEF TypeOK
  <1>6. PlaceIsRight(p)' /\ LooksAreRight(p)' /\ LookIsCurrent(p)' /\ ReadIsCurrent(p)'
    <2>1. proc[p].got = <<>> /\ ~proc[p].lone /\ Len(proc[p].got) = 0
      BY <1>1, <1>2 DEF PlaceIsRight
    <2>2. Plan(p)' = Plan(p) /\ Len(Plan(p)) \in {1, 2}
      BY PlanFacts DEF Plan
    <2>3. PlaceIsRight(p)'
      <3>1. p \in stopped => proc[p].slept
        BY <1>1 DEF PlaceIsRight
      <3>2. proc[p].slept => p \in Stoppable
        BY <1>1 DEF PlaceIsRight
      <3>. QED
        <4>1. Len(proc'[p].got) = 0 /\ ~proc'[p].lone /\ proc'[p].pc = "create"
          BY <2>1, <1>4
        <4>2. (p \in stopped' => proc'[p].slept) /\ (proc'[p].slept => p \in Stoppable)
          BY <3>1, <3>2, <1>2, <1>4
        <4>. QED
          BY <4>1, <4>2, <2>2 DEF PlaceIsRight, Working
    <2>4. LookIsCurrent(p)'
      BY <1>4 DEF LookIsCurrent
    <2>5. ReadIsCurrent(p)'
      BY <1>4 DEF ReadIsCurrent, Working
    <2>6. LooksAreRight(p)'
      BY <1>1, <1>2, <1>4, Unasserted, PlainLooks
    <2>. QED
      BY <2>3, <2>4, <2>5, <2>6
  <1>. QED
    BY <1>2, <1>4, <1>5, <1>6, LocalStep

\* The exclusive create: a new token, which nobody else has.
LEMMA CreateKeeps ==
    ASSUME StoreIsKept, NEW p \in Procs, Create(p)
    PROVE  StoreIsKept'
  <1>1. TypeOK /\ LockInv /\ PlaceIsRight(p) /\ LooksAreRight(p) /\ LookIsCurrent(p) /\ ReadIsCurrent(p)
    BY OfProcess
  <1>0. PICK n \in Nat : n = Len(proc[p].got)
    BY <1>1, ProcessFacts
  <1>. DEFINE s == Wanted(p)
  <1>2. /\ proc[p].pc = "create" /\ p \notin dead /\ p \notin stopped
        /\ lock[s] = NoLock
        /\ holds' = holds + 1
        /\ lock' = [lock EXCEPT ![s] = [NoLock EXCEPT !.token = holds + 1]]
        /\ proc' = [proc EXCEPT ![p].got = Append(@, holds + 1),
                                ![p].late = FALSE,
                                ![p].pc = IF s = StoreOf[p] THEN "read" ELSE "create"]
        /\ store' = store /\ kept' = kept /\ dead' = dead /\ stopped' = stopped
        /\ exposed' = exposed /\ robbed' = robbed
        /\ readonly' = readonly /\ passes' = passes /\ crashes' = crashes /\ stops' = stops
        /\ beats' = beats /\ toggles' = toggles
    BY DEF Create, At, world, ghosts
  <1>3. /\ n \in Nat /\ n < Len(Plan(p)) /\ n + 1 \in 1..Len(Plan(p)) /\ s = Plan(p)[n + 1]
        /\ s \in Stores /\ ~proc[p].lone
    BY <1>0, <1>1, <1>2, PlanFacts, ProcessFacts DEF PlaceIsRight, Wanted
  <1>4. /\ holds \in Nat /\ holds + 1 \in Nat
        /\ \A t \in Stores : lock[t] \in Locks
    BY <1>1 DEF TypeOK
  <1>. DEFINE new == [NoLock EXCEPT !.token = holds + 1]
  <1>5. new \in Locks /\ new.token = holds + 1 /\ new.old = FALSE /\ NoLock.token = 0
    BY <1>4 DEF NoLock, Locks
  <1>6. lock' \in [Stores -> Locks] /\ lock'[s] = new /\ \A t \in Stores : t # s => lock'[t] = lock[t]
    BY <1>1, <1>2, <1>3, <1>5 DEF TypeOK
  <1>. HIDE DEF new
  <1>7. /\ proc' \in [Procs -> Process]
        /\ proc'[p].got = Append(proc[p].got, holds + 1)
        /\ proc'[p].pc = IF s = StoreOf[p] THEN "read" ELSE "create"
        /\ proc'[p].slept = proc[p].slept /\ proc'[p].lone = proc[p].lone
        /\ proc'[p].checked = proc[p].checked
        /\ \A q \in Procs : q # p => proc'[q] = proc[q]
    <2>1. Append(proc[p].got, holds + 1) \in Seq(Nat)
      BY <1>1, <1>4, ProcessFacts
    <2>. DEFINE to == [proc[p] EXCEPT !.got = Append(@, holds + 1), !.late = FALSE,
                                      !.pc = IF s = StoreOf[p] THEN "read" ELSE "create"]
    <2>2. /\ to \in Process
          /\ to.got = Append(proc[p].got, holds + 1)
          /\ to.pc = IF s = StoreOf[p] THEN "read" ELSE "create"
          /\ to.slept = proc[p].slept /\ to.lone = proc[p].lone
          /\ to.checked = proc[p].checked
      BY <2>1, <1>1, ProcessFacts, ZenonT(60) DEF Process, Working
    <2>3. Moves(p, to)
      BY <1>1, <1>2 DEF Moves, TypeOK
    <2>. HIDE DEF to
    <2>. QED
      BY <2>2, <2>3, <1>1, MovesFacts
  <1>8. /\ Len(proc'[p].got) = n + 1 /\ proc'[p].got[n + 1] = holds + 1
        /\ \A k \in 1..n : proc'[p].got[k] = proc[p].got[k]
    BY <1>0, <1>1, <1>3, <1>4, <1>7, ProcessFacts
  <1>9. TypeOK'
    <2>1. robbed' \subseteq 1..holds'
      BY <1>1, <1>2, <1>4 DEF TypeOK
    <2>. QED
      BY <2>1, <1>1, <1>2, <1>4, <1>6, <1>7 DEF TypeOK
  <1>10. \A q \in Procs : /\ Len(proc[q].got) \in Nat /\ Len(proc[q].got) <= Len(Plan(q))
                          /\ \A k \in 1..Len(proc[q].got) :
                                proc[q].got[k] \in 1..holds /\ Plan(q)[k] \in Stores
    <2>1. ASSUME NEW q \in Procs
          PROVE  /\ Len(proc[q].got) \in Nat /\ Len(proc[q].got) <= Len(Plan(q))
                 /\ \A k \in 1..Len(proc[q].got) :
                       proc[q].got[k] \in 1..holds /\ Plan(q)[k] \in Stores
      <3>1. Len(proc[q].got) \in Nat /\ Len(proc[q].got) <= Len(Plan(q))
        BY <1>1, OfProcess, ProcessFacts DEF PlaceIsRight
      <3>2. \A k \in 1..Len(proc[q].got) : Plan(q)[k] \in Stores
        BY <3>1, PlanFacts
      <3>. QED
        BY <3>1, <3>2, <1>1 DEF LockInv, TokensAreUnique
    <2>. QED
      BY <2>1
  \* The old holds are owned as before.
  <1>11. \A q \in Procs : \A k \in 1..Len(proc[q].got) :
            /\ proc'[q].got[k] = proc[q].got[k]
            /\ Owns(q, k)' <=> Owns(q, k)
            /\ Owns(q, k) => Plan(q)[k] # s
    <2>1. SUFFICES ASSUME NEW q \in Procs, NEW k \in 1..Len(proc[q].got)
                   PROVE  /\ proc'[q].got[k] = proc[q].got[k]
                          /\ Owns(q, k)' <=> Owns(q, k)
                          /\ Owns(q, k) => Plan(q)[k] # s
      OBVIOUS
    <2>2. proc'[q].got[k] = proc[q].got[k]
      BY <1>0, <1>7, <1>8
    <2>3. proc[q].got[k] \in 1..holds /\ Plan(q)[k] \in Stores
      BY <1>10
    <2>6. Owns(q, k)' <=> lock'[Plan(q)[k]].token = proc[q].got[k]
      BY <2>2 DEF Owns, Plan
    <2>4. CASE Plan(q)[k] = s
      <3>1. ~Owns(q, k)
        BY <2>3, <2>4, <1>2, <1>5 DEF Owns
      <3>2. ~Owns(q, k)'
        BY <2>3, <2>4, <2>6, <1>4, <1>5, <1>6
      <3>. QED
        BY <3>1, <3>2, <2>2
    <2>5. CASE Plan(q)[k] # s
      <3>1. lock'[Plan(q)[k]] = lock[Plan(q)[k]]
        BY <2>3, <2>5, <1>6
      <3>2. Owns(q, k)' <=> Owns(q, k)
        BY <2>6, <3>1 DEF Owns
      <3>. QED
        BY <3>2, <2>2, <2>5
    <2>. QED
      BY <2>2, <2>4, <2>5
  <1>12. Owns(p, n + 1)' /\ lock'[Plan(p)[n + 1]] = new
    <2>1. lock'[Plan(p)[n + 1]] = new
      BY <1>3, <1>6
    <2>2. Owns(p, n + 1)' <=> lock'[Plan(p)[n + 1]].token = proc'[p].got[n + 1]
      BY DEF Owns, Plan
    <2>. QED
      BY <2>1, <2>2, <1>5, <1>8
  <1>13. \A q \in Procs : \A k \in 1..Len(proc'[q].got) :
            k \in 1..Len(proc[q].got) \/ (q = p /\ k = n + 1)
    <2>1. ASSUME NEW q \in Procs, NEW k \in 1..Len(proc'[q].got)
          PROVE  k \in 1..Len(proc[q].got) \/ (q = p /\ k = n + 1)
      <3>1. CASE q = p
        BY <3>1, <1>0, <1>3, <1>8
      <3>2. CASE q # p
        BY <3>2, <1>7
      <3>. QED
        BY <3>1, <3>2
    <2>. QED
      BY <2>1
  <1>14. TokensAreUnique'
    <2>1. ASSUME NEW t \in Stores
          PROVE  lock'[t].token <= holds' /\ (lock'[t].token = 0 => lock'[t] = NoLock)
      <3>1. CASE t = s
        BY <3>1, <1>2, <1>4, <1>5, <1>6
      <3>2. CASE t # s
        <4>1. lock[t].token <= holds /\ (lock[t].token = 0 => lock[t] = NoLock) /\ lock[t].token \in Nat
          BY <1>1, <1>4 DEF LockInv, TokensAreUnique, Locks
        <4>. QED
          BY <3>2, <4>1, <1>2, <1>4, <1>6
      <3>. QED
        BY <3>1, <3>2
    <2>2. ASSUME NEW q \in Procs, NEW k \in 1..Len(proc'[q].got)
          PROVE  proc'[q].got[k] \in 1..holds'
      <3>1. CASE k \in 1..Len(proc[q].got)
        <4>1. proc'[q].got[k] \in 1..holds
          BY <3>1, <1>10, <1>11
        <4>. QED
          BY <4>1, <1>2, <1>4
      <3>2. CASE q = p /\ k = n + 1
        BY <3>2, <1>2, <1>4, <1>8
      <3>. QED
        BY <3>1, <3>2, <1>13
    <2>3. ASSUME NEW q \in Procs, NEW r \in Procs, NEW i \in 1..Len(proc'[q].got),
                 NEW k \in 1..Len(proc'[r].got), proc'[q].got[i] = proc'[r].got[k]
          PROVE  q = r /\ i = k
      <3>1. CASE i \in 1..Len(proc[q].got) /\ k \in 1..Len(proc[r].got)
        <4>1. proc[q].got[i] = proc[r].got[k]
          BY <2>3, <3>1, <1>11
        <4>. QED
          BY <3>1, <4>1, <1>1 DEF LockInv, TokensAreUnique
      <3>2. CASE i \in 1..Len(proc[q].got) /\ r = p /\ k = n + 1
        <4>1. proc'[q].got[i] \in 1..holds
          BY <3>2, <1>10, <1>11
        <4>. QED
          BY <2>3, <3>2, <4>1, <1>4, <1>8
      <3>3. CASE q = p /\ i = n + 1 /\ k \in 1..Len(proc[r].got)
        <4>1. proc'[r].got[k] \in 1..holds
          BY <3>3, <1>10, <1>11
        <4>. QED
          BY <2>3, <3>3, <4>1, <1>4, <1>8
      <3>4. CASE q = p /\ i = n + 1 /\ r = p /\ k = n + 1
        BY <3>4
      <3>. QED
        BY <3>1, <3>2, <3>3, <3>4, <1>13
    <2>. QED
      BY <2>1, <2>2, <2>3 DEF TokensAreUnique
  <1>15. LiveHoldersOwn'
    <2>1. SUFFICES ASSUME NEW q \in Procs, q \notin dead', ~proc'[q].slept,
                          NEW k \in 1..Len(proc'[q].got)
                   PROVE  Owns(q, k)' \/ proc'[q].got[k] \in robbed'
      BY DEF LiveHoldersOwn
    <2>2. q \notin dead /\ ~proc[q].slept
      BY <2>1, <1>2, <1>7
    <2>3. CASE k \in 1..Len(proc[q].got)
      <3>1. Owns(q, k) \/ proc[q].got[k] \in robbed
        BY <2>2, <2>3, <1>1 DEF LockInv, LiveHoldersOwn
      <3>. QED
        BY <2>3, <3>1, <1>2, <1>11, <1>7
    <2>4. CASE q = p /\ k = n + 1
      <3>1. Owns(p, n + 1)'
        BY <1>12
      <3>. QED
        BY <2>4, <3>1 DEF Owns, Plan
    <2>. QED
      BY <2>3, <2>4, <1>13
  <1>16. StaleIsAbandoned'
    <2>1. SUFFICES ASSUME NEW q \in Procs, NEW k \in 1..Len(proc'[q].got), Owns(q, k)',
                          lock'[Plan(q)[k]].old
                   PROVE  q \in dead' \/ proc'[q].slept
      BY DEF StaleIsAbandoned, Plan
    <2>2. ~(q = p /\ k = n + 1)
      BY <2>1, <1>5, <1>12
    <2>3. k \in 1..Len(proc[q].got)
      BY <2>2, <1>13
    <2>4. Owns(q, k) /\ lock[Plan(q)[k]].old
      BY <2>1, <2>3, <1>6, <1>10, <1>11
    <2>5. q \in dead \/ proc[q].slept
      BY <2>3, <2>4, <1>1 DEF LockInv, StaleIsAbandoned
    <2>. QED
      BY <2>5, <1>2, <1>7
  <1>17. NoLostRule'
    BY <1>2, Parts DEF NoLostRule
  <1>18. ASSUME NEW q \in Procs, q # p
         PROVE  ProcessInv(q)'
    <2>1. /\ PlaceIsRight(q) /\ LooksAreRight(q) /\ LookIsCurrent(q) /\ ReadIsCurrent(q)
          /\ proc'[q] = proc[q]
      BY <1>7, <1>18, OfProcess
    <2>2. PlaceIsRight(q)'
      BY <2>1, <1>2, PlaceKept
    <2>3. LookIsCurrent(q)'
      <3>1. SUFFICES ASSUME proc[q].pc = "confirm"
                     PROVE  LookIsCurrent(q)'
        BY <2>1 DEF LookIsCurrent
      <3>2. Wanted(q)' = Wanted(q) /\ Wanted(q) \in Stores
        <4>1. Len(proc[q].got) + 1 \in 1..Len(Plan(q))
          BY <1>1, <2>1, <3>1, PlanFacts, ProcessFacts DEF PlaceIsRight
        <4>. QED
          BY <2>1, <4>1, PlanFacts DEF Wanted, Plan
      <3>3. proc[q].saw.token \in 1..holds
        BY <2>1, <3>1 DEF LookIsCurrent
      <3>4. CASE Wanted(q) = s
        BY <2>1, <3>1, <3>2, <3>3, <3>4, <1>2, <1>4, <1>5, <1>6 DEF LookIsCurrent
      <3>5. CASE Wanted(q) # s
        BY <2>1, <3>1, <3>2, <3>3, <3>5, <1>2, <1>4, <1>6 DEF LookIsCurrent
      <3>. QED
        BY <3>4, <3>5
    <2>4. ReadIsCurrent(q)'
      BY <2>1, <1>1, <1>2, <1>11, ReadingsKept
    <2>5. LooksAreRight(q)'
      BY <2>1, LooksKept
    <2>. QED
      BY <2>2, <2>3, <2>4, <2>5 DEF ProcessInv
  <1>19. ProcessInv(p)'
    <2>1. Plan(p)' = Plan(p)
      BY DEF Plan
    <2>2. PlaceIsRight(p)'
      <3>3. (p \in stopped' => proc'[p].slept) /\ (proc'[p].slept => p \in Stoppable)
        BY <1>1, <1>2, <1>7 DEF PlaceIsRight
      <3>1. CASE p \in Movers
        <4>1. Len(Plan(p)) = 2 /\ Plan(p)[1] = Shared /\ Plan(p)[2] = StoreOf[p] /\ StoreOf[p] # Shared
          BY <3>1, PlanFacts
        <4>2. CASE n = 0
          <5>1. proc'[p].pc = "create" /\ Len(proc'[p].got) = 1 /\ ~proc'[p].lone
            BY <4>1, <4>2, <1>3, <1>7, <1>8
          <5>. QED
            BY <4>1, <5>1, <3>3, <2>1 DEF PlaceIsRight, Working
        <4>3. CASE n = 1
          <5>1. proc'[p].pc = "read" /\ Len(proc'[p].got) = 2 /\ ~proc'[p].lone
            BY <4>1, <4>3, <1>3, <1>7, <1>8
          <5>. QED
            BY <4>1, <5>1, <3>3, <2>1 DEF PlaceIsRight, Working
        <4>4. n = 0 \/ n = 1
          BY <4>1, <1>3
        <4>. QED
          BY <4>2, <4>3, <4>4
      <3>2. CASE p \notin Movers
        <4>1. Len(Plan(p)) = 1 /\ Plan(p)[1] = StoreOf[p] /\ n = 0
          BY <3>2, <1>3, PlanFacts
        <4>2. proc'[p].pc = "read" /\ Len(proc'[p].got) = 1 /\ ~proc'[p].lone
          BY <4>1, <1>3, <1>7, <1>8
        <4>. QED
          BY <4>1, <4>2, <3>3, <2>1 DEF PlaceIsRight, Working
      <3>. QED
        BY <3>1, <3>2
    <2>3. LookIsCurrent(p)' /\ ReadIsCurrent(p)'
      BY <1>7 DEF LookIsCurrent, ReadIsCurrent, Working
    <2>4. LooksAreRight(p)'
      BY <1>1, <1>2, <1>7, Unasserted, PlainLooks
    <2>. QED
      BY <2>2, <2>3, <2>4 DEF ProcessInv
  <1>. QED
    BY <1>9, <1>14, <1>15, <1>16, <1>17, <1>18, <1>19, Parts DEF LockInv

\* A step by which p only changes its own state and keeps its holds.
LEMMA LocalMove ==
    ASSUME StoreIsKept, NEW p \in Procs, NEW to \in Process, Moves(p, to),
           UNCHANGED <<store, lock, kept, ghosts, holds, world>>, beats' \in Nat,
           to.got = proc[p].got, to.slept = proc[p].slept,
           PlaceIsRight(p)', LooksAreRight(p)', LookIsCurrent(p)', ReadIsCurrent(p)'
    PROVE  StoreIsKept'
  <1>1. TypeOK
    BY OfProcess
  <1>2. /\ store' = store /\ lock' = lock /\ kept' = kept /\ holds' = holds
        /\ exposed' = exposed /\ robbed' = robbed
        /\ dead' = dead /\ stopped' = stopped /\ readonly' = readonly /\ passes' = passes
        /\ crashes' = crashes /\ stops' = stops /\ toggles' = toggles
    BY DEF world, ghosts
  <1>3. /\ proc' \in [Procs -> Process] /\ proc'[p] = to
        /\ \A q \in Procs : q # p => proc'[q] = proc[q]
    BY <1>1, MovesFacts
  <1>4. TypeOK'
    BY <1>1, <1>2, <1>3 DEF TypeOK
  <1>. QED
    BY <1>2, <1>3, <1>4, LocalStep

\* A process that waits, or gives up, is where it may be.
LEMMA WaitsOn ==
    ASSUME StoreIsKept, NEW p \in Procs, NEW pc \in PCs, proc'[p].pc = pc,
           proc'[p].got = proc[p].got, proc'[p].slept = proc[p].slept, stopped' = stopped,
           proc'[p].checked = 0, pc = "unlink" => 0 \in proc'[p].sure,
           \/ pc = "release"
           \/ /\ pc \in {"create", "judge", "confirm", "unlink", "poll"}
              /\ proc[p].pc \in {"create", "judge", "confirm", "unlink", "poll"}
              /\ proc'[p].lone = proc[p].lone
    PROVE  PlaceIsRight(p)' /\ LooksAreRight(p)' /\ ReadIsCurrent(p)'
  <1>1. TypeOK /\ PlaceIsRight(p)
    BY OfProcess
  <1>7. LooksAreRight(p)'
    BY DEF LooksAreRight
  <1>2. Plan(p)' = Plan(p)
    BY DEF Plan
  <1>3. /\ Len(proc[p].got) <= Len(Plan(p)) /\ (p \in stopped => proc[p].slept)
        /\ (proc[p].slept => p \in Stoppable)
    BY <1>1 DEF PlaceIsRight
  <1>4. ReadIsCurrent(p)'
    BY DEF ReadIsCurrent, Working
  <1>5. CASE pc = "release"
    BY <1>2, <1>3, <1>4, <1>5, <1>7 DEF PlaceIsRight, Working
  <1>6. CASE pc \in {"create", "judge", "confirm", "unlink", "poll"} /\ pc # "release"
    <2>1. Len(proc[p].got) < Len(Plan(p)) /\ ~proc[p].lone
      BY <1>1, <1>6 DEF PlaceIsRight
    <2>. QED
      BY <2>1, <1>2, <1>3, <1>4, <1>6, <1>7 DEF PlaceIsRight, Working
  <1>. QED
    BY <1>5, <1>6

LEMMA CannotCreateKeeps ==
    ASSUME StoreIsKept, NEW p \in Procs, CannotCreate(p)
    PROVE  StoreIsKept'
  <1>1. TypeOK /\ PlaceIsRight(p) /\ proc[p].pc = "create" /\ proc[p].checked = 0
    BY OfProcess, Unasserted DEF CannotCreate, At
  <1>2. /\ UNCHANGED <<store, lock, kept, ghosts, holds, world>> /\ beats' = beats /\ beats \in Nat
        /\ Moves(p, Fallback(p)) /\ stopped' = stopped
    BY <1>1 DEF CannotCreate, Moves, world, TypeOK
  <1>8. Fallback(p) \in Process
    <2>1. PICK pc \in {"read", "release"}, lone \in BOOLEAN :
             Fallback(p) = [proc[p] EXCEPT !.pc = pc, !.lone = lone]
      <3>1. proc[p] = [proc[p] EXCEPT !.lone = proc[p].lone] /\ proc[p].lone \in BOOLEAN
        BY <1>1, ProcessFacts DEF Process
      <3>2. Fallback(p) = [proc[p] EXCEPT !.pc = "read", !.lone = TRUE]
            \/ Fallback(p) = [proc[p] EXCEPT !.pc = "release", !.lone = proc[p].lone]
        BY <3>1, <1>1, ProcessFacts DEF Fallback, Process
      <3>. QED
        BY <3>1, <3>2
    <2>2. pc \in PCs
      BY DEF PCs, Working
    <2>. HIDE DEF PCs
    <2>. QED
      BY <2>1, <2>2, <1>1, ProcessFacts, ZenonT(60) DEF Process, PCs
  <1>3. /\ Fallback(p) \in Process /\ Fallback(p).got = proc[p].got
        /\ Fallback(p).slept = proc[p].slept /\ Fallback(p).checked = 0
        /\ \/ Fallback(p).pc = "release"
           \/ Fallback(p).pc = "read" /\ Fallback(p).lone = TRUE /\ proc[p].got # <<>>
    BY <1>1, <1>8, ProcessFacts DEF Fallback, Process
  <1>4. proc'[p] = Fallback(p)
    BY <1>1, <1>2, <1>3, MovesFacts
  <1>5. LookIsCurrent(p)'
    BY <1>3, <1>4 DEF LookIsCurrent
  <1>6. CASE Fallback(p).pc = "release"
    <2>1. PlaceIsRight(p)' /\ LooksAreRight(p)' /\ ReadIsCurrent(p)'
      BY <1>1, <1>2, <1>3, <1>4, <1>6, WaitsOn DEF PCs
    <2>. QED
      BY <2>1, <1>2, <1>3, <1>5, LocalMove
  <1>7. CASE Fallback(p).pc = "read" /\ Fallback(p).lone = TRUE /\ proc[p].got # <<>>
    <2>1. Len(proc[p].got) < Len(Plan(p)) /\ Len(Plan(p)) \in {1, 2}
      BY <1>1, PlanFacts DEF PlaceIsRight
    <2>0. proc[p].got \in Seq(Nat) /\ Len(proc[p].got) \in Nat
      BY <1>1, ProcessFacts
    <2>7. Len(proc[p].got) # 0
      BY <2>0, <1>7, EmptySeq
    <2>2. Len(proc[p].got) = 1
      <3>. DEFINE a == Len(proc[p].got)
                  b == Len(Plan(p))
      <3>1. a \in Nat /\ a < b /\ a # 0 /\ (b = 1 \/ b = 2)
        BY <2>0, <2>1, <2>7
      <3>. HIDE DEF a, b
      <3>2. a = 1
        BY <3>1
      <3>. QED
        BY <3>2 DEF a
    <2>3. Plan(p)' = Plan(p)
      BY DEF Plan
    <2>4. (p \in stopped => proc[p].slept) /\ (proc[p].slept => p \in Stoppable)
      BY <1>1 DEF PlaceIsRight
    <2>5. PlaceIsRight(p)'
      <3>1. proc'[p].pc = "read" /\ proc'[p].lone /\ Len(proc'[p].got) = 1
        BY <2>2, <1>3, <1>4, <1>7
      <3>2. (p \in stopped' => proc'[p].slept) /\ (proc'[p].slept => p \in Stoppable)
        BY <2>4, <1>2, <1>3, <1>4
      <3>. QED
        BY <3>1, <3>2, <2>1, <2>3 DEF PlaceIsRight, Working
    <2>6. ReadIsCurrent(p)'
      BY <1>4, <1>7 DEF ReadIsCurrent, Working
    <2>8. LooksAreRight(p)'
      BY <1>3, <1>4, <1>7, PlainLooks
    <2>. QED
      BY <2>5, <2>6, <2>8, <1>2, <1>3, <1>5, LocalMove
  <1>. QED
    BY <1>3, <1>6, <1>7

\* A step of a process that only moves on to wait, or to give up.
LEMMA GoKeeps ==
    ASSUME StoreIsKept, NEW p \in Procs, NEW pc \in PCs, Go(p, pc),
           UNCHANGED <<store, lock, kept, ghosts, holds, beats, world>>,
           proc[p].pc \notin {"assert", "reassert"},
           \/ pc = "release"
           \/ /\ pc \in {"create", "judge", "poll"}
              /\ proc[p].pc \in {"create", "judge", "confirm", "poll"}
    PROVE  StoreIsKept'
  <1>1. TypeOK /\ beats \in Nat /\ proc[p].checked = 0
    BY OfProcess, Unasserted DEF TypeOK
  <1>. DEFINE to == [proc[p] EXCEPT !.pc = pc]
  <1>2. /\ proc'[p] = to /\ proc'[p].pc = pc /\ proc'[p].got = proc[p].got
        /\ proc'[p].slept = proc[p].slept /\ proc'[p].lone = proc[p].lone
        /\ proc'[p].checked = 0
    BY <1>1, GoFacts
  <1>3. to \in Process /\ to.got = proc[p].got /\ to.slept = proc[p].slept
    BY <1>1, ProcessFacts DEF Process, PCs
  <1>4. Moves(p, to)
    BY <1>1 DEF Moves, Go, TypeOK
  <1>5. stopped' = stopped /\ UNCHANGED <<store, lock, kept, ghosts, holds, world>> /\ beats' = beats
    BY DEF world
  <1>6. PlaceIsRight(p)' /\ LooksAreRight(p)' /\ ReadIsCurrent(p)'
    BY <1>2, <1>5, WaitsOn
  <1>7. LookIsCurrent(p)'
    BY <1>2 DEF LookIsCurrent
  <1>. HIDE DEF to
  <1>. QED
    BY <1>1, <1>3, <1>4, <1>5, <1>6, <1>7, LocalMove

LEMMA IsTakenKeeps ==
    ASSUME StoreIsKept, NEW p \in Procs, IsTaken(p)
    PROVE  StoreIsKept'
  BY GoKeeps DEF IsTaken, At, PCs

LEMMA PollKeeps ==
    ASSUME StoreIsKept, NEW p \in Procs, Poll(p)
    PROVE  StoreIsKept'
  <1>1. CASE GivesUp(p)
    BY <1>1, GoKeeps DEF Poll, At, PCs
  <1>2. CASE ~GivesUp(p)
    BY <1>2, GoKeeps DEF Poll, At, PCs
  <1>. QED
    BY <1>1, <1>2

LEMMA DeadlineKeeps ==
    ASSUME StoreIsKept, NEW p \in Procs, Deadline(p)
    PROVE  StoreIsKept'
  <1>1. TypeOK /\ beats \in Nat /\ proc[p].pc = "poll" /\ proc[p].checked = 0
    BY OfProcess, Unasserted DEF TypeOK, Deadline
  <1>. DEFINE to == [proc[p] EXCEPT !.late = TRUE]
  <1>2. /\ to \in Process /\ to.got = proc[p].got /\ to.slept = proc[p].slept
        /\ to.pc = proc[p].pc /\ to.lone = proc[p].lone /\ to.checked = 0
    BY <1>1, ProcessFacts, ZenonT(60) DEF Process
  <1>3. Moves(p, to)
    BY <1>1 DEF Moves, Deadline, TypeOK
  <1>4. stopped' = stopped /\ UNCHANGED <<store, lock, kept, ghosts, holds, world>> /\ beats' = beats
    BY DEF Deadline, world
  <1>. HIDE DEF to
  <1>5. proc'[p] = to
    BY <1>1, <1>2, <1>3, MovesFacts
  <1>6. PlaceIsRight(p)' /\ LooksAreRight(p)' /\ ReadIsCurrent(p)'
    BY <1>1, <1>2, <1>4, <1>5, WaitsOn DEF PCs
  <1>7. LookIsCurrent(p)'
    BY <1>1, <1>2, <1>5 DEF LookIsCurrent
  <1>. QED
    BY <1>1, <1>2, <1>3, <1>4, <1>6, <1>7, LocalMove

\* A lock that is judged stale was one.
LEMMA JudgeKeeps ==
    ASSUME StoreIsKept, NEW p \in Procs, Judge(p)
    PROVE  StoreIsKept'
  <1>1. /\ TypeOK /\ LockInv /\ PlaceIsRight(p) /\ beats \in Nat /\ proc[p].pc = "judge"
        /\ proc[p].checked = 0
    BY OfProcess, Unasserted DEF TypeOK, Judge, At
  <1>2. /\ stopped' = stopped /\ UNCHANGED <<store, lock, kept, ghosts, holds, world>> /\ beats' = beats
        /\ lock' = lock /\ holds' = holds
    BY DEF Judge, world
  <1>. DEFINE it == lock[Wanted(p)]
  <1>3. CASE ~it.old
    BY <1>1, <1>2, <1>3, GoKeeps DEF Judge, At, PCs
  <1>4. CASE it.old
    <2>. DEFINE to == [proc[p] EXCEPT !.saw = it, !.pc = "confirm"]
    <2>1. Len(proc[p].got) + 1 \in 1..Len(Plan(p))
      BY <1>1, PlanFacts, ProcessFacts DEF PlaceIsRight
    <2>2. Wanted(p) \in Stores
      BY <2>1, PlanFacts DEF Wanted
    <2>3. it \in Locks /\ it.token <= holds /\ (it.token = 0 => it = NoLock)
      BY <2>2, <1>1 DEF TypeOK, LockInv, TokensAreUnique
    <2>4. it.token \in 1..holds /\ it.beat \in Nat
      BY <2>3, <1>1, <1>4 DEF NoLock, Locks, TypeOK
    <2>5. /\ to \in Process /\ to.got = proc[p].got /\ to.slept = proc[p].slept
          /\ to.pc = "confirm" /\ to.lone = proc[p].lone /\ to.saw = it
          /\ to.checked = 0
      BY <2>3, <1>1, ProcessFacts, ZenonT(60) DEF Process
    <2>6. Moves(p, to)
      BY <1>1, <1>4 DEF Moves, Judge, TypeOK
    <2>. HIDE DEF to
    <2>7. proc'[p] = to
      BY <1>1, <2>5, <2>6, MovesFacts
    <2>8. PlaceIsRight(p)' /\ LooksAreRight(p)' /\ ReadIsCurrent(p)'
      BY <1>1, <1>2, <2>5, <2>7, WaitsOn DEF PCs
    <2>9. LookIsCurrent(p)'
      <3>1. Wanted(p)' = Wanted(p)
        BY <2>5, <2>7 DEF Wanted, Plan
      <3>. QED
        BY <3>1, <2>4, <2>5, <2>7, <1>2, <1>4 DEF LookIsCurrent
    <2>. QED
      BY <1>1, <1>2, <2>5, <2>6, <2>8, <2>9, LocalMove
  <1>. QED
    BY <1>3, <1>4

\* A lock that is still as it was judged is stale: what the look was right about.
LEMMA ConfirmKeeps ==
    ASSUME StoreIsKept, NEW p \in Procs, Confirm(p)
    PROVE  StoreIsKept'
  <1>. DEFINE it == lock[Wanted(p)]
              pc == IF SameLock(p) THEN "unlink" ELSE "poll"
              sure == IF it.old THEN {0} ELSE {}
              to == [proc[p] EXCEPT !.saw = NoLock, !.sure = sure, !.pc = pc]
  <1>1. /\ TypeOK /\ LookIsCurrent(p) /\ proc[p].pc = "confirm" /\ beats \in Nat
        /\ proc[p].checked = 0
    BY OfProcess, Unasserted DEF Confirm, At, TypeOK
  <1>2. /\ stopped' = stopped /\ UNCHANGED <<store, lock, kept, ghosts, holds, world>> /\ beats' = beats
        /\ Moves(p, to)
    BY <1>1 DEF Confirm, world, Moves, TypeOK
  <1>3. NoLock \in Locks
    BY DEF NoLock, Locks
  <1>4. sure \in SUBSET (0..2) /\ pc \in {"unlink", "poll"}
    OBVIOUS
  <1>5. SameLock(p) => it.old
    BY <1>1 DEF LookIsCurrent, SameLock
  <1>6. pc = "unlink" => 0 \in sure
    BY <1>5
  <1>. HIDE DEF pc, sure
  <1>7. /\ to \in Process /\ to.got = proc[p].got /\ to.slept = proc[p].slept
        /\ to.pc = pc /\ to.lone = proc[p].lone /\ to.checked = 0 /\ to.sure = sure
    BY <1>1, <1>3, <1>4, ProcessFacts, ZenonT(60) DEF Process
  <1>. HIDE DEF to
  <1>8. proc'[p] = to
    BY <1>1, <1>2, <1>7, MovesFacts
  <1>9. PlaceIsRight(p)' /\ LooksAreRight(p)' /\ ReadIsCurrent(p)'
    <2>1. pc \in PCs
      BY <1>4 DEF PCs
    <2>. QED
      BY <2>1, <1>1, <1>2, <1>4, <1>6, <1>7, <1>8, WaitsOn
  <1>10. LookIsCurrent(p)'
    BY <1>4, <1>7, <1>8 DEF LookIsCurrent
  <1>. QED
    BY <1>1, <1>2, <1>7, <1>9, <1>10, LocalMove

\* What a removal after a right look takes from a running holder is counted.
LEMMA RemovalIsCounted ==
    ASSUME StoreIsKept, NEW p \in Procs, NEW w \in Stores, NEW i \in proc[p].sure,
           Removes(p, w, i), i = 0 \/ (i \in 1..Len(proc[p].got) /\ Plan(p)[i] = w)
    PROVE  /\ lock' = lock \/ lock' = [lock EXCEPT ![w] = NoLock]
           /\ lock' \in [Stores -> Locks]
           /\ robbed \subseteq robbed' /\ robbed' \subseteq 1..holds
           /\ \A q \in Procs : \A k \in 1..Len(proc[q].got) :
                 q \notin dead /\ ~proc[q].slept /\ Plan(q)[k] = w /\ Owns(q, k) /\ ~(q = p /\ k = i)
                 => lock' = lock \/ proc[q].got[k] \in robbed'
  <1>1. TypeOK /\ LockInv /\ TokensAreUnique
    BY OfProcess DEF LockInv
  <1>2. lock' = lock \/ lock' = [lock EXCEPT ![w] = NoLock]
    BY DEF Removes, Unlinked
  <1>3. NoLock \in Locks /\ NoLock.token = 0
    BY DEF NoLock, Locks
  <1>4. lock \in [Stores -> Locks] /\ holds \in Nat /\ robbed \subseteq 1..holds
    BY <1>1 DEF TypeOK
  <1>5. lock' \in [Stores -> Locks]
    BY <1>2, <1>3, <1>4
  <1>6. lock'[w] # lock[w] => lock[w].token \in 1..holds
    <2>1. lock[w].token \in Nat /\ lock[w].token <= holds /\ (lock[w].token = 0 => lock[w] = NoLock)
      BY <1>1, <1>4 DEF TokensAreUnique, Locks
    <2>2. lock'[w] = lock[w] \/ lock'[w] = NoLock
      BY <1>2, <1>4
    <2>. QED
      BY <2>1, <2>2, <1>4
  <1>7. robbed' = robbed \/ (robbed' = robbed \cup {lock[w].token} /\ lock'[w] # lock[w])
    BY DEF Removes
  <1>8. robbed \subseteq robbed' /\ robbed' \subseteq 1..holds
    BY <1>4, <1>6, <1>7
  <1>9. ASSUME NEW q \in Procs, NEW k \in 1..Len(proc[q].got),
               q \notin dead, ~proc[q].slept, Plan(q)[k] = w, Owns(q, k), ~(q = p /\ k = i), lock' # lock
        PROVE  proc[q].got[k] \in robbed'
    <2>1. ~lock[w].old
      BY <1>9, <1>1 DEF LockInv, StaleIsAbandoned
    <2>2. i # 0 => ~Owns(p, i)
      BY <1>9, <1>1, OneOwner
    <2>3. lock'[w] # lock[w]
      BY <1>2, <1>3, <1>4, <1>9
    <2>4. robbed' = robbed \cup {lock[w].token}
      BY <2>1, <2>2, <2>3 DEF Removes
    <2>5. lock[w].token = proc[q].got[k]
      BY <1>9 DEF Owns
    <2>. QED
      BY <2>4, <2>5
  <1>. QED
    BY <1>2, <1>5, <1>8, <1>9

\* A waiter's unlink takes what is there by now.
LEMMA UnlinkKeeps ==
    ASSUME StoreIsKept, NEW p \in Procs, Unlink(p)
    PROVE  StoreIsKept'
  <1>1. /\ TypeOK /\ PlaceIsRight(p) /\ proc[p].pc = "unlink" /\ proc[p].checked = 0
        /\ 0 \in proc[p].sure
    BY OfProcess, Unasserted DEF Unlink, At, LooksAreRight
  <1>. DEFINE w == Wanted(p)
              none == {}
              to == [proc[p] EXCEPT !.sure = none, !.pc = "poll"]
  <1>2. /\ Removes(p, w, 0)
        /\ Moves(p, to)
        /\ store' = store /\ kept' = kept /\ exposed' = exposed /\ holds' = holds /\ beats' = beats
        /\ dead' = dead /\ stopped' = stopped /\ readonly' = readonly /\ passes' = passes
        /\ crashes' = crashes /\ stops' = stops /\ toggles' = toggles
    BY <1>1 DEF Unlink, world, Moves, TypeOK
  <1>3. Len(proc[p].got) + 1 \in 1..Len(Plan(p))
    BY <1>1, PlanFacts, ProcessFacts DEF PlaceIsRight
  <1>4. w \in Stores
    BY <1>3, PlanFacts DEF Wanted
  <1>. HIDE DEF w
  <1>5. /\ lock' = lock \/ lock' = [lock EXCEPT ![w] = NoLock]
        /\ lock' \in [Stores -> Locks]
        /\ robbed \subseteq robbed' /\ robbed' \subseteq 1..holds
        /\ \A q \in Procs : \A k \in 1..Len(proc[q].got) :
              q \notin dead /\ ~proc[q].slept /\ Plan(q)[k] = w /\ Owns(q, k)
              => lock' = lock \/ proc[q].got[k] \in robbed'
    BY <1>1, <1>2, <1>4, RemovalIsCounted
  <1>6. /\ to \in Process /\ to.got = proc[p].got /\ to.slept = proc[p].slept
        /\ to.pc = "poll" /\ to.lone = proc[p].lone /\ to.checked = 0
    <2>1. none \in SUBSET (0..2) /\ proc[p] \in Process /\ proc[p].checked = 0
      BY <1>1, ProcessFacts
    <2>. HIDE DEF none
    <2>. QED
      BY ONLY <2>1 DEF Process
  <1>. HIDE DEF to
  <1>7. /\ proc'[p] = to /\ proc' \in [Procs -> Process]
        /\ \A q \in Procs : q # p => proc'[q] = proc[q]
    BY <1>1, <1>2, <1>6, MovesFacts
  <1>8. TypeOK'
    BY <1>1, <1>2, <1>5, <1>7 DEF TypeOK
  <1>9. PlaceIsRight(p)' /\ LooksAreRight(p)' /\ ReadIsCurrent(p)'
    BY <1>1, <1>2, <1>6, <1>7, WaitsOn DEF PCs
  <1>10. LookIsCurrent(p)'
    BY <1>6, <1>7 DEF LookIsCurrent
  <1>11. \A q \in Procs : proc'[q].got = proc[q].got /\ proc'[q].slept = proc[q].slept
    BY <1>6, <1>7
  <1>12. /\ dead \subseteq dead' /\ \A q \in Procs \ {p} : proc'[q] = proc[q] /\ (q \in stopped' => q \in stopped)
         /\ Len(proc'[p].got) <= Len(proc[p].got)
         /\ \A k \in 1..Len(proc'[p].got) : proc'[p].got[k] = proc[p].got[k]
         /\ (proc[p].slept => proc'[p].slept \/ Len(proc'[p].got) = 0)
    BY <1>1, <1>2, <1>7, <1>11, ProcessFacts
  <1>13. \A q \in Procs : \A k \in 1..Len(proc'[q].got) :
            q \notin dead /\ ~proc[q].slept /\ Plan(q)[k] = w /\ Owns(q, k)
            => lock' = lock \/ proc[q].got[k] \in robbed'
    BY <1>5, <1>11
  <1>. QED
    BY <1>2, <1>4, <1>5, <1>8, <1>9, <1>10, <1>12, <1>13, QuietStep

-----------------------------------------------------------------------------
(* Under the lock. *)

\* A working process holds the lock of its first store; without the fallback,
\* all of its plan.
LEMMA WorksUnderLocks ==
    ASSUME StoreIsKept, NEW p \in Procs, proc[p].pc \in Working
    PROVE  /\ 1 \in 1..Len(proc[p].got)
           /\ p \in Movers /\ ~proc[p].lone => 2 \in 1..Len(proc[p].got)
  <1>1. TypeOK /\ PlaceIsRight(p)
    BY OfProcess
  <1>. QED
    BY <1>1, PlanFacts, ProcessFacts DEF PlaceIsRight

\* What a step under the lock leaves alone.
LEMMA WorkStays ==
    ASSUME StoreIsKept, NEW p \in Procs, proc[p].pc \in Working, NEW pc \in Working,
           proc'[p].pc = pc, proc'[p].got = proc[p].got, proc'[p].slept = proc[p].slept,
           proc'[p].lone = proc[p].lone, stopped' = stopped,
           pc \in {"readTarget", "reassert", "erase"} => p \in Movers,
           pc \in {"reassert", "erase"} => ~proc[p].lone,
           pc = "compare" => p \in Patchers, pc = "assert" => p \notin Savers
    PROVE  PlaceIsRight(p)'
  <1>1. TypeOK /\ PlaceIsRight(p)
    BY OfProcess
  <1>2. Plan(p)' = Plan(p)
    BY DEF Plan
  <1>3. /\ Len(proc[p].got) <= Len(Plan(p)) /\ (p \in stopped => proc[p].slept)
        /\ (proc[p].slept => p \in Stoppable)
        /\ Len(proc[p].got) = IF proc[p].lone THEN 1 ELSE Len(Plan(p))
    BY <1>1 DEF PlaceIsRight
  <1>. QED
    BY <1>2, <1>3 DEF PlaceIsRight, Working

\* A process that gives up, or comes to its end.
LEMMA GivenUp ==
    ASSUME StoreIsKept, NEW p \in Procs, proc'[p].pc = "release", proc'[p].checked = 0,
           proc'[p].got = proc[p].got, proc'[p].slept = proc[p].slept, stopped' = stopped
    PROVE  PlaceIsRight(p)' /\ LooksAreRight(p)' /\ ReadIsCurrent(p)'
  BY WaitsOn DEF PCs

LEMMA ReadKeeps ==
    ASSUME StoreIsKept, NEW p \in Procs, Read(p)
    PROVE  StoreIsKept'
  <1>. DEFINE rules == store[StoreOf[p]]
  <1>1. /\ TypeOK /\ proc[p].pc = "read" /\ beats \in Nat /\ rules \subseteq Rules
        /\ proc[p].pc \in Working /\ proc[p].checked = 0
    BY OfProcess, PlanFacts, Unasserted DEF TypeOK, Read, At, Working
  <1>2. /\ stopped' = stopped /\ UNCHANGED <<store, lock, kept, ghosts, holds, world>> /\ beats' = beats
        /\ lock' = lock /\ store' = store
    BY DEF Read, world
  <1>3. PICK pc \in {"release", "readTarget", "compare", "publish"} :
           /\ proc' = [proc EXCEPT ![p].source = rules, ![p].pc = pc]
           /\ pc = "readTarget" => p \in Movers
           /\ pc = "compare" => p \in Patchers
           /\ pc = "publish" => p \notin Movers /\ p \notin Patchers
    BY DEF Read
  <1>. DEFINE to == [proc[p] EXCEPT !.source = rules, !.pc = pc]
  <1>4. /\ to \in Process /\ to.got = proc[p].got /\ to.slept = proc[p].slept
        /\ to.pc = pc /\ to.lone = proc[p].lone /\ to.source = rules /\ to.checked = 0
    <2>1. /\ pc \in PCs /\ rules \in SUBSET Rules /\ proc[p] \in Process /\ proc[p].checked = 0
      BY <1>1, <1>3, ProcessFacts DEF PCs, Working
    <2>. HIDE DEF rules
    <2>. QED
      BY ONLY <2>1 DEF Process, PCs
  <1>5. Moves(p, to)
    BY <1>1, <1>3 DEF Moves, TypeOK
  <1>. HIDE DEF to
  <1>6. proc'[p] = to
    BY <1>1, <1>4, <1>5, MovesFacts
  <1>7. PlaceIsRight(p)' /\ LooksAreRight(p)'
    <2>1. CASE pc = "release"
      BY <2>1, <1>2, <1>4, <1>6, GivenUp
    <2>2. CASE pc \in {"readTarget", "compare"}
      <3>1. pc \in Working
        BY <2>2 DEF Working
      <3>2. PlaceIsRight(p)'
        BY <3>1, <2>2, <1>1, <1>2, <1>3, <1>4, <1>6, WorkStays
      <3>3. LooksAreRight(p)'
        BY <2>2, <1>4, <1>6, PlainLooks
      <3>. QED
        BY <3>2, <3>3
    <2>3. CASE pc = "publish"
      <3>1. pc \in Working /\ p \in Savers
        BY <2>3, <1>3 DEF Working, Procs
      <3>2. PlaceIsRight(p)'
        BY <3>1, <2>3, <1>1, <1>2, <1>4, <1>6, WorkStays
      <3>3. LooksAreRight(p)'
        BY <3>1, <2>3, <1>4, <1>6 DEF LooksAreRight
      <3>. QED
        BY <3>2, <3>3
    <2>. QED
      BY <2>1, <2>2, <2>3
  <1>8. LookIsCurrent(p)'
    BY <1>4, <1>6 DEF LookIsCurrent
  <1>9. ReadIsCurrent(p)'
    BY <1>2, <1>3, <1>4, <1>6 DEF ReadIsCurrent
  <1>. QED
    BY <1>1, <1>2, <1>4, <1>5, <1>7, <1>8, <1>9, LocalMove

\* A fold that finds its source in the destination, and one that does not.
LEMMA ReadTargetKeeps ==
    ASSUME StoreIsKept, NEW p \in Procs, ReadTarget(p)
    PROVE  StoreIsKept'
  <1>. DEFINE rules == store[Shared]
  <1>1. /\ TypeOK /\ proc[p].pc = "readTarget" /\ beats \in Nat /\ rules \subseteq Rules
        /\ proc[p].pc \in Working /\ p \in Movers /\ ReadIsCurrent(p) /\ proc[p].checked = 0
    BY OfProcess, PlanFacts, Unasserted DEF TypeOK, ReadTarget, At, Working, PlaceIsRight
  <1>2. /\ stopped' = stopped /\ UNCHANGED <<store, lock, kept, ghosts, holds, world>> /\ beats' = beats
        /\ lock' = lock /\ store' = store /\ exposed' = exposed
    BY DEF ReadTarget, world, ghosts
  <1>3. PICK pc \in {"release", "assert", "reassert"} :
           /\ proc' = [proc EXCEPT ![p].target = rules, ![p].pc = pc]
           /\ pc = "reassert" => proc[p].source \subseteq rules /\ ~proc[p].lone
    BY DEF ReadTarget, AfterMerge
  <1>. DEFINE to == [proc[p] EXCEPT !.target = rules, !.pc = pc]
  <1>4. /\ to \in Process /\ to.got = proc[p].got /\ to.slept = proc[p].slept
        /\ to.pc = pc /\ to.lone = proc[p].lone /\ to.source = proc[p].source /\ to.target = rules
        /\ to.checked = 0
    <2>1. /\ pc \in PCs /\ rules \in SUBSET Rules /\ proc[p] \in Process /\ proc[p].checked = 0
      BY <1>1, <1>3, ProcessFacts DEF PCs, Working
    <2>. HIDE DEF rules
    <2>. QED
      BY ONLY <2>1 DEF Process, PCs
  <1>5. Moves(p, to)
    BY <1>1, <1>3 DEF Moves, TypeOK
  <1>. HIDE DEF to
  <1>6. proc'[p] = to
    BY <1>1, <1>4, <1>5, MovesFacts
  <1>7. PlaceIsRight(p)' /\ LooksAreRight(p)'
    <2>1. CASE pc = "release"
      BY <2>1, <1>2, <1>4, <1>6, GivenUp
    <2>2. CASE pc \in {"assert", "reassert"}
      <3>1. pc \in Working /\ p \notin Savers
        BY <2>2, <1>1, StoreAssumption DEF Working
      <3>2. PlaceIsRight(p)'
        BY <3>1, <2>2, <1>1, <1>2, <1>3, <1>4, <1>6, WorkStays
      <3>3. LooksAreRight(p)'
        <4>1. 0 < Len(proc[p].got)
          BY <1>1, WorksUnderLocks, ProcessFacts
        <4>. QED
          BY <4>1, <2>2, <1>4, <1>6 DEF LooksAreRight
      <3>. QED
        BY <3>2, <3>3
    <2>. QED
      BY <2>1, <2>2
  <1>8. LookIsCurrent(p)'
    BY <1>4, <1>6 DEF LookIsCurrent
  <1>9. ReadIsCurrent(p)'
    <2>1. Owns(p, 2)' => Owns(p, 2)
      BY <1>2, <1>4, <1>6 DEF Owns, Plan
    <2>2. Owns(p, 2) /\ ~proc[p].lone => store[StoreOf[p]] \subseteq proc[p].source \cup exposed
      BY <1>1 DEF ReadIsCurrent
    <2>. QED
      BY <2>1, <2>2, <1>1, <1>2, <1>3, <1>4, <1>6 DEF ReadIsCurrent
  <1>. QED
    BY <1>1, <1>2, <1>4, <1>5, <1>7, <1>8, <1>9, LocalMove

\* A patcher's comparison.
LEMMA CompareKeeps ==
    ASSUME StoreIsKept, NEW p \in Procs, Compare(p)
    PROVE  StoreIsKept'
  <1>1. /\ TypeOK /\ proc[p].pc = "compare" /\ beats \in Nat /\ proc[p].checked = 0
        /\ proc[p].pc \in Working /\ p \in Patchers /\ ReadIsCurrent(p)
        /\ p \notin Savers /\ p \notin Movers
    BY OfProcess, Unasserted, StoreAssumption DEF TypeOK, Compare, At, Working, PlaceIsRight
  <1>2. /\ stopped' = stopped /\ UNCHANGED <<store, lock, kept, ghosts, holds, world>> /\ beats' = beats
        /\ lock' = lock /\ store' = store /\ exposed' = exposed
    BY DEF Compare, world, ghosts
  <1>3. CASE store[StoreOf[p]] # proc[p].source
    BY <1>1, <1>3, GoKeeps DEF Compare, PCs
  <1>4. CASE store[StoreOf[p]] = proc[p].source
    <2>. DEFINE to == [proc[p] EXCEPT !.pc = "assert"]
    <2>1. /\ to \in Process /\ to.got = proc[p].got /\ to.slept = proc[p].slept
          /\ to.pc = "assert" /\ to.lone = proc[p].lone /\ to.source = proc[p].source
          /\ to.checked = 0
      BY <1>1, ProcessFacts DEF Process, Working
    <2>2. Moves(p, to)
      BY <1>1, <1>4 DEF Moves, Compare, Go, TypeOK
    <2>. HIDE DEF to
    <2>3. proc'[p] = to
      BY <1>1, <2>1, <2>2, MovesFacts
    <2>4. PlaceIsRight(p)'
      BY <1>1, <1>2, <2>1, <2>3, WorkStays DEF Working
    <2>5. LooksAreRight(p)'
      <3>1. 0 < Len(proc[p].got)
        BY <1>1, WorksUnderLocks, ProcessFacts
      <3>. QED
        BY <3>1, <2>1, <2>3 DEF LooksAreRight
    <2>6. LookIsCurrent(p)'
      BY <2>1, <2>3 DEF LookIsCurrent
    <2>7. ReadIsCurrent(p)'
      BY <2>1, <2>3, <1>1, <1>2, <1>4 DEF ReadIsCurrent
    <2>. QED
      BY <1>1, <1>2, <2>1, <2>2, <2>4, <2>5, <2>6, <2>7, LocalMove
  <1>. QED
    BY <1>3, <1>4

\* One lease is asserted.
LEMMA AssertLeasesKeeps ==
    ASSUME StoreIsKept, NEW p \in Procs, AssertLeases(p)
    PROVE  StoreIsKept'
  <1>. DEFINE c == proc[p].checked
              i == c + 1
              n == Len(proc[p].got)
              last == i = n
              checked == IF Holds(p, i) /\ ~last THEN i ELSE 0
              sure == (IF i = 1 THEN {} ELSE proc[p].sure) \cup (IF Owns(p, i) THEN {i} ELSE {})
              pc == IF ~Holds(p, i) THEN "release"
                    ELSE IF ~last THEN proc[p].pc
                    ELSE IF proc[p].pc = "assert" THEN "publish" ELSE "erase"
              to == [proc[p] EXCEPT !.checked = checked, !.sure = sure, !.pc = pc]
  <1>1. /\ TypeOK /\ PlaceIsRight(p) /\ LooksAreRight(p) /\ ReadIsCurrent(p) /\ beats \in Nat
        /\ proc[p].pc \in {"assert", "reassert"} /\ proc[p].pc \in Working
    BY OfProcess DEF AssertLeases, At, Working, TypeOK
  <1>2. /\ stopped' = stopped /\ UNCHANGED <<store, lock, kept, ghosts, holds, world>> /\ beats' = beats
        /\ lock' = lock /\ store' = store /\ exposed' = exposed /\ Moves(p, to)
    BY <1>1 DEF AssertLeases, world, ghosts, Moves, TypeOK
  <1>3. /\ n \in {1, 2} /\ i \in {1, 2} /\ i <= n /\ c \in {0, 1}
        /\ 1..c \subseteq proc[p].sure
    <2>1. n \in Nat /\ 1 <= n /\ n <= Len(Plan(p)) /\ Len(Plan(p)) \in {1, 2}
      BY <1>1, WorksUnderLocks, ProcessFacts, PlanFacts DEF PlaceIsRight
    <2>2. c \in 0..1
      BY <1>1, ProcessFacts
    <2>3. c < n /\ 1..c \subseteq proc[p].sure
      BY <1>1 DEF LooksAreRight
    <2>. DEFINE b == Len(Plan(p))
    <2>4. b \in {1, 2} /\ n <= b
      BY <2>1
    <2>5. n \in Nat /\ 1 <= n
      BY <2>1
    <2>. HIDE DEF c, n, b
    <2>6. n \in {1, 2}
      BY <2>4, <2>5
    <2>7. c \in {0, 1}
      BY <2>2
    <2>8. i \in {1, 2} /\ i <= n
      BY <2>3, <2>6, <2>7
    <2>. QED
      BY <2>3, <2>6, <2>7, <2>8
  <1>4. /\ checked \in 0..1 /\ sure \in SUBSET (0..2) /\ pc \in Working \cup {"release"}
        /\ pc \in PCs
    <2>1. sure \in SUBSET (0..2)
      <3>1. proc[p].sure \in SUBSET (0..2)
        BY <1>1, ProcessFacts
      <3>. HIDE DEF c
      <3>. QED
        BY <3>1, <1>3
    <2>2. checked \in 0..1
      <3>. HIDE DEF c, n
      <3>. QED
        BY <1>3
    <2>3. pc \in Working \cup {"release"}
      BY <1>1 DEF Working
    <2>4. pc \in PCs
      BY <2>3 DEF PCs
    <2>. QED
      BY <2>1, <2>2, <2>3, <2>4
  <1>5. Holds(p, i) => 1..i \subseteq sure
    <2>1. 1..i \subseteq 1..c \cup {i}
      <3>. HIDE DEF c
      <3>. QED
        BY <1>3
    <2>2. i = 1 => 1..i = {1}
      OBVIOUS
    <2>. QED
      BY <2>1, <2>2, <1>3 DEF Holds
  <1>6. /\ ~Holds(p, i) => pc = "release" /\ checked = 0
        /\ Holds(p, i) /\ i < n => pc = proc[p].pc /\ checked = i
        /\ Holds(p, i) /\ i = n =>
              /\ checked = 0
              /\ (pc = "publish" /\ proc[p].pc = "assert") \/ (pc = "erase" /\ proc[p].pc = "reassert")
    <2>1. i < n => i # n
      <3>. HIDE DEF c, n
      <3>. QED
        BY <1>3
    <2>. QED
      BY <2>1, <1>1
  <1>12. i < n \/ i = n
    <2>. HIDE DEF c, n
    <2>. QED
      BY <1>3
  <1>. HIDE DEF checked, sure, pc
  <1>7. /\ to \in Process /\ to.got = proc[p].got /\ to.slept = proc[p].slept
        /\ to.pc = pc /\ to.lone = proc[p].lone /\ to.source = proc[p].source
        /\ to.target = proc[p].target /\ to.checked = checked /\ to.sure = sure
    BY <1>1, <1>4, ProcessFacts DEF Process, PCs
  <1>. HIDE DEF to
  <1>8. proc'[p] = to
    BY <1>1, <1>2, <1>7, MovesFacts
  <1>. HIDE DEF i, c, last
  <1>9. PlaceIsRight(p)' /\ LooksAreRight(p)'
    <2>1. CASE ~Holds(p, i)
      BY <2>1, <1>2, <1>6, <1>7, <1>8, GivenUp
    <2>2. CASE Holds(p, i)
      <3>1. pc \in {"assert", "reassert", "publish", "erase"} /\ pc \in Working
        BY <2>2, <1>1, <1>6, <1>12 DEF Working
      <3>2. /\ pc \in {"reassert", "erase"} => p \in Movers /\ ~proc[p].lone
            /\ pc = "assert" => p \notin Savers
        BY <2>2, <1>1, <1>6, <1>12 DEF PlaceIsRight
      <3>3. PlaceIsRight(p)'
        BY <3>1, <3>2, <1>1, <1>2, <1>7, <1>8, WorkStays
      <3>4. LooksAreRight(p)'
        <4>1. /\ proc'[p].got = proc[p].got /\ proc'[p].pc = pc
              /\ proc'[p].checked = checked /\ proc'[p].sure = sure
          BY <1>7, <1>8
        <4>2. 1..i \subseteq sure
          BY <2>2, <1>5
        <4>. HIDE DEF n
        <4>3. CASE i < n
          <5>1. pc \in {"assert", "reassert"} /\ checked = i
            BY <2>2, <4>3, <1>1, <1>6
          <5>. QED
            BY <4>1, <4>2, <4>3, <5>1 DEF LooksAreRight, n
        <4>4. CASE i = n
          <5>1. pc \in {"publish", "erase"} /\ checked = 0
            BY <2>2, <4>4, <1>6
          <5>. QED
            BY <4>1, <4>2, <4>4, <5>1 DEF LooksAreRight, n
        <4>. QED
          BY <4>3, <4>4, <1>12
      <3>. QED
        BY <3>3, <3>4
    <2>. QED
      BY <2>1, <2>2
  <1>10. LookIsCurrent(p)'
    BY <1>1, <1>6, <1>12, <1>7, <1>8 DEF LookIsCurrent
  <1>11. ReadIsCurrent(p)'
    <2>1. /\ proc'[p].source = proc[p].source /\ proc'[p].target = proc[p].target
          /\ proc'[p].lone = proc[p].lone /\ proc'[p].pc = pc
          /\ \A k : Owns(p, k)' <=> Owns(p, k)
      BY <1>2, <1>7, <1>8 DEF Owns, Plan
    <2>2. pc # "release" => <<proc[p].pc, pc>> \in {<<proc[p].pc, proc[p].pc>>,
                                <<"assert", "publish">>, <<"reassert", "erase">>}
      <3>1. ~Holds(p, i) => pc = "release"
        BY <1>6
      <3>2. Holds(p, i) /\ i < n => pc = proc[p].pc
        BY <1>6
      <3>3. Holds(p, i) /\ i = n =>
               (pc = "publish" /\ proc[p].pc = "assert") \/ (pc = "erase" /\ proc[p].pc = "reassert")
        BY <1>6
      <3>. QED
        BY <3>1, <3>2, <3>3, <1>12
    <2>3. CASE pc = "release"
      BY <2>1, <2>3 DEF ReadIsCurrent, Working
    <2>4. CASE pc # "release"
      BY <2>1, <2>2, <2>4, <1>1, <1>2 DEF ReadIsCurrent, Working
    <2>. QED
      BY <2>3, <2>4
  <1>. QED
    BY <1>1, <1>2, <1>7, <1>9, <1>10, <1>11, LocalMove

\* A step under the lock that leaves the locks alone, and that writes stores that p
\* owns or puts at stake what it writes.
LEMMA StoreStep ==
    ASSUME StoreIsKept, NEW p \in Procs, NEW to \in Process, Moves(p, to),
           to.got = proc[p].got, to.slept = proc[p].slept,
           UNCHANGED <<lock, robbed, holds, beats, world>>,
           store' \in [Stores -> SUBSET Rules], kept' \cup exposed' \subseteq Rules, NoLostRule',
           exposed \subseteq exposed', store[Shared] \subseteq store'[Shared] \cup exposed',
           \A s \in Stores :
              \/ store'[s] \subseteq store[s] \cup exposed'
              \/ \E i \in 1..Len(proc[p].got) : Plan(p)[i] = s /\ Owns(p, i),
           PlaceIsRight(p)', LooksAreRight(p)', LookIsCurrent(p)', ReadIsCurrent(p)'
    PROVE  StoreIsKept'
  <1>1. TypeOK /\ LockInv /\ PlaceIsRight(p) /\ TokensAreUnique
    BY OfProcess DEF LockInv
  <1>2. /\ lock' = lock /\ robbed' = robbed /\ holds' = holds /\ beats' = beats
        /\ dead' = dead /\ stopped' = stopped /\ readonly' = readonly /\ passes' = passes
        /\ crashes' = crashes /\ stops' = stops /\ toggles' = toggles
    BY DEF world
  <1>4. /\ proc' \in [Procs -> Process] /\ proc'[p] = to
        /\ \A q \in Procs : q # p => proc'[q] = proc[q]
    BY <1>1, MovesFacts
  <1>5. TypeOK'
    BY <1>1, <1>2, <1>4 DEF TypeOK
  <1>6. \A q \in Procs : proc'[q].got = proc[q].got /\ proc'[q].slept = proc[q].slept
    BY <1>4
  <1>7. \A q \in Procs : \A k : Owns(q, k)' <=> Owns(q, k)
    BY <1>2, <1>6 DEF Owns, Plan
  <1>8. LockInv'
    <2>1. TokensAreUnique'
      <3>1. \A s \in Stores : lock'[s].token <= holds' /\ (lock'[s].token = 0 => lock'[s] = NoLock)
        BY <1>1, <1>2 DEF TokensAreUnique
      <3>2. ASSUME NEW q \in Procs, NEW i \in 1..Len(proc'[q].got)
            PROVE  proc'[q].got[i] \in 1..holds'
        BY <1>1, <1>2, <1>6 DEF TokensAreUnique
      <3>3. ASSUME NEW q \in Procs, NEW r \in Procs, NEW i \in 1..Len(proc'[q].got),
                   NEW k \in 1..Len(proc'[r].got), proc'[q].got[i] = proc'[r].got[k]
            PROVE  q = r /\ i = k
        <4>1. /\ i \in 1..Len(proc[q].got) /\ k \in 1..Len(proc[r].got)
              /\ proc[q].got[i] = proc[r].got[k]
          BY <3>3, <1>6
        <4>. QED
          BY <4>1, <1>1 DEF TokensAreUnique
      <3>. QED
        BY <3>1, <3>2, <3>3 DEF TokensAreUnique
    <2>2. LiveHoldersOwn'
      BY <1>1, <1>2, <1>6, <1>7 DEF LockInv, LiveHoldersOwn
    <2>3. StaleIsAbandoned'
      BY <1>1, <1>2, <1>6, <1>7 DEF LockInv, StaleIsAbandoned, Plan
    <2>. QED
      BY <2>1, <2>2, <2>3 DEF LockInv
  <1>11. ASSUME NEW q \in Procs, q # p
         PROVE  ProcessInv(q)'
    <2>1. /\ PlaceIsRight(q) /\ LooksAreRight(q) /\ LookIsCurrent(q) /\ ReadIsCurrent(q)
          /\ proc'[q] = proc[q]
      BY <1>4, <1>11, OfProcess
    <2>2. PlaceIsRight(q)'
      BY <2>1, <1>2, PlaceKept
    <2>3. LookIsCurrent(q)'
      BY <2>1, <1>1, <1>2, LookKept, PlanFacts
    <2>4. ASSUME NEW k \in 1..Len(proc[q].got), k <= Len(Plan(q)), Owns(q, k)'
          PROVE  Owns(q, k) /\ store'[Plan(q)[k]] \subseteq store[Plan(q)[k]] \cup exposed'
      <3>1. Owns(q, k)
        BY <2>4, <1>7
      <3>2. Len(proc[q].got) \in Nat /\ k \in 1..Len(Plan(q))
        BY <2>4, <1>1, ProcessFacts, PlanFacts
      <3>3. Plan(q)[k] \in Stores
        BY <3>2, PlanFacts
      <3>4. ASSUME NEW i \in 1..Len(proc[p].got), Plan(p)[i] = Plan(q)[k], Owns(p, i)
            PROVE  FALSE
        BY <3>1, <3>4, <1>1, <1>11, OneOwner
      <3>. QED
        BY <3>1, <3>3, <3>4
    <2>5. ReadIsCurrent(q)'
      BY <2>1, <2>4, <1>1, ReadingsKept
    <2>6. LooksAreRight(q)'
      BY <2>1, LooksKept
    <2>. QED
      BY <2>2, <2>3, <2>5, <2>6 DEF ProcessInv
  <1>12. ProcessInv(p)'
    BY DEF ProcessInv
  <1>. QED
    BY <1>5, <1>8, <1>11, <1>12, Parts

\* What a publisher knows: what it publishes holds all that is there, but for what is
\* at stake, if it owns its destination; if not, it lost it since, or never looked.
LEMMA PublishIsSound ==
    ASSUME StoreIsKept, NEW p \in Procs, At(p, "publish")
    PROVE  /\ Destination(p) \in Stores /\ Destination(p) = Plan(p)[1]
           /\ 1 \in 1..Len(proc[p].got)
           /\ Published(p) \subseteq Rules
           /\ Owns(p, 1) \/ LostSince(p, 1)
           /\ Owns(p, 1) => store[Destination(p)] \subseteq Published(p) \cup exposed
           /\ p \notin Movers => RuleOf[p] \in Published(p) /\ RuleOf[p] \in Rules
  <1>1. /\ TypeOK /\ ReadIsCurrent(p) /\ LooksAreRight(p)
        /\ proc[p].pc = "publish" /\ proc[p].pc \in Working
    BY OfProcess DEF At, Working
  <1>2. /\ Destination(p) \in Stores /\ Destination(p) = Plan(p)[1]
        /\ 1 \in 1..Len(proc[p].got)
    BY <1>1, PlanFacts, WorksUnderLocks DEF Destination
  <1>3. proc[p].source \subseteq Rules /\ proc[p].target \subseteq Rules
    BY <1>1, ProcessFacts
  <1>4. Owns(p, 1) \/ LostSince(p, 1)
    BY <1>1, <1>2 DEF LooksAreRight, LostSince
  <1>5. CASE p \in Movers
    <2>1. Plan(p)[1] = Shared
      BY <1>5, PlanFacts
    <2>2. Owns(p, 1) => store[Shared] \subseteq proc[p].target \cup exposed
      BY <1>1, <1>5 DEF ReadIsCurrent
    <2>. QED
      BY <2>1, <2>2, <1>2, <1>3, <1>4, <1>5 DEF Published
  <1>6. CASE p \notin Movers
    <2>1. Plan(p)[1] = StoreOf[p]
      BY <1>6, PlanFacts
    <2>3. Owns(p, 1) => store[StoreOf[p]] \subseteq proc[p].source \cup exposed
      BY <1>1, <1>6 DEF ReadIsCurrent
    <2>2. RuleOf[p] \in Rules
      <3>1. p \in Savers \cup Patchers
        BY <1>6 DEF Procs
      <3>2. RuleOf[p] \in {RuleOf[q] : q \in Savers \cup Patchers}
        BY <3>1
      <3>. QED
        BY <3>2 DEF Rules
    <2>. QED
      BY <2>1, <2>2, <2>3, <1>2, <1>3, <1>4, <1>6 DEF Published
  <1>. QED
    BY <1>5, <1>6

\* A rename replaces a store by its owner's view of it, which is all of it, or puts
\* at stake what it replaces and what it adds.
LEMMA PublishKeeps ==
    ASSUME StoreIsKept, NEW p \in Procs, WriteStore(p)
    PROVE  /\ StoreIsKept'
           /\ \A s \in Stores : store[s] \subseteq store'[s] \cup exposed'
           /\ \A s \in Stores : store'[s] # store[s] => s = Shared \/ p \notin Movers
           /\ p \notin Movers => \A s \in Stores : store'[s] # store[s] => store'[s] # {}
  <1>. DEFINE s == Destination(p)
              lands == s \notin readonly
              pc == IF lands /\ p \in Movers THEN AfterMerge(p) ELSE "release"
              none == {}
              to == [proc[p] EXCEPT !.sure = none, !.pc = pc]
  <1>1. /\ TypeOK /\ NoLostRule /\ proc[p].pc = "publish" /\ proc[p].pc \in Working
        /\ ReadIsCurrent(p) /\ At(p, "publish") /\ proc[p].checked = 0
    BY OfProcess, Parts, Unasserted DEF WriteStore, At, Working
  <1>2. /\ store' = IF lands THEN [store EXCEPT ![s] = Published(p)] ELSE store
        /\ kept' = IF lands /\ p \notin Movers THEN kept \cup {RuleOf[p]} ELSE kept
        /\ exposed' = IF lands /\ LostSince(p, 1)
                      THEN exposed \cup (store[s] \ Published(p)) \cup (Published(p) \ store[s])
                      ELSE exposed
        /\ Moves(p, to)
        /\ UNCHANGED <<lock, robbed, holds, beats, world>> /\ lock' = lock /\ stopped' = stopped
    BY <1>1 DEF WriteStore, Moves, TypeOK, world
  <1>3. /\ pc \in {"release", "reassert"}
        /\ pc = "reassert" => p \in Movers /\ lands /\ ~proc[p].lone
    BY DEF AfterMerge
  <1>4. store \in [Stores -> SUBSET Rules] /\ kept \subseteq Rules /\ exposed \subseteq Rules
    BY <1>1 DEF TypeOK
  <1>5. /\ s \in Stores /\ s = Plan(p)[1]
        /\ 1 \in 1..Len(proc[p].got)
        /\ Published(p) \subseteq Rules
        /\ Owns(p, 1) \/ LostSince(p, 1)
        /\ Owns(p, 1) => store[s] \subseteq Published(p) \cup exposed
        /\ p \notin Movers => RuleOf[p] \in Published(p) /\ RuleOf[p] \in Rules
    BY <1>1, PublishIsSound
  <1>6. /\ to \in Process /\ to.got = proc[p].got /\ to.slept = proc[p].slept
        /\ to.pc = pc /\ to.lone = proc[p].lone /\ to.source = proc[p].source
        /\ to.checked = 0
    <2>1. /\ pc \in PCs /\ none \in SUBSET (0..2) /\ proc[p] \in Process /\ proc[p].checked = 0
      BY <1>1, <1>3, ProcessFacts DEF PCs, Working
    <2>. HIDE DEF pc, none
    <2>. QED
      BY ONLY <2>1 DEF Process, PCs
  <1>. HIDE DEF lands, pc, s, to, none
  <1>7. proc'[p] = to
    BY <1>1, <1>2, <1>6, MovesFacts
  <1>8. /\ store' \in [Stores -> SUBSET Rules]
        /\ \A t \in Stores : store'[t] = IF lands /\ t = s THEN Published(p) ELSE store[t]
    BY <1>2, <1>4, <1>5
  <1>9. /\ kept' \cup exposed' \subseteq Rules /\ exposed \subseteq exposed'
    <2>1. kept' \subseteq Rules
      BY <1>2, <1>4, <1>5
    <2>2. exposed' \subseteq Rules /\ exposed \subseteq exposed'
      BY <1>2, <1>4, <1>5
    <2>. QED
      BY <2>1, <2>2
  <1>10. \A t \in Stores : store[t] \subseteq store'[t] \cup exposed'
    <2>1. lands => store[s] \subseteq Published(p) \cup exposed'
      BY <1>2, <1>5, <1>9
    <2>. QED
      BY <2>1, <1>8
  <1>11. NoLostRule'
    <2>1. ASSUME NEW r \in kept'
          PROVE  r \in exposed' \/ \E t \in Stores : r \in store'[t]
      <3>1. CASE r \in kept
        <4>1. r \in exposed \/ \E t \in Stores : r \in store[t]
          BY <3>1, <1>1 DEF NoLostRule
        <4>. QED
          BY <4>1, <1>9, <1>10
      <3>2. CASE r \notin kept
        <4>1. lands /\ p \notin Movers /\ r = RuleOf[p]
          BY <3>2, <1>2
        <4>. QED
          BY <4>1, <1>5, <1>8
      <3>. QED
        BY <3>1, <3>2
    <2>. QED
      BY <2>1 DEF NoLostRule
  <1>12. ASSUME NEW t \in Stores
         PROVE  \/ store'[t] \subseteq store[t] \cup exposed'
                \/ \E i \in 1..Len(proc[p].got) : Plan(p)[i] = t /\ Owns(p, i)
    <2>1. CASE lands /\ t = s
      <3>1. CASE Owns(p, 1)
        BY <2>1, <3>1, <1>5
      <3>2. CASE LostSince(p, 1)
        <4>1. exposed' = exposed \cup (store[s] \ Published(p)) \cup (Published(p) \ store[s])
          BY <2>1, <3>2, <1>2
        <4>. QED
          BY <2>1, <4>1, <1>8
      <3>. QED
        BY <3>1, <3>2, <1>5
    <2>2. CASE ~(lands /\ t = s)
      BY <2>2, <1>8
    <2>. QED
      BY <2>1, <2>2
  <1>13. PlaceIsRight(p)' /\ LooksAreRight(p)'
    <2>1. CASE pc = "release"
      BY <2>1, <1>2, <1>6, <1>7, GivenUp
    <2>2. CASE pc = "reassert"
      <3>1. PlaceIsRight(p)'
        BY <2>2, <1>1, <1>2, <1>3, <1>6, <1>7, WorkStays DEF Working
      <3>2. LooksAreRight(p)'
        <4>1. 0 < Len(proc[p].got)
          BY <1>1, WorksUnderLocks, ProcessFacts
        <4>. QED
          BY <4>1, <2>2, <1>6, <1>7 DEF LooksAreRight
      <3>. QED
        BY <3>1, <3>2
    <2>. QED
      BY <2>1, <2>2, <1>3
  <1>14. LookIsCurrent(p)'
    BY <1>3, <1>6, <1>7 DEF LookIsCurrent
  <1>15. ReadIsCurrent(p)'
    <2>1. CASE pc = "release"
      BY <2>1, <1>6, <1>7 DEF ReadIsCurrent, Working
    <2>2. CASE pc = "reassert"
      <3>1. p \in Movers /\ lands /\ StoreOf[p] # Shared /\ s = Shared /\ StoreOf[p] \in Stores
        BY <2>2, <1>3, <1>5, PlanFacts
      <3>2. store'[Shared] = Published(p) /\ store'[StoreOf[p]] = store[StoreOf[p]]
        BY <3>1, <1>5, <1>8
      <3>3. proc[p].source \subseteq Published(p)
        BY <3>1 DEF Published
      <3>4. Owns(p, 2)' => Owns(p, 2)
        BY <1>2, <1>6, <1>7 DEF Owns, Plan
      <3>5. ~proc[p].lone /\ Owns(p, 2) => store[StoreOf[p]] \subseteq proc[p].source \cup exposed
        BY <3>1, <1>1 DEF ReadIsCurrent
      <3>. QED
        BY <2>2, <3>1, <3>2, <3>3, <3>4, <3>5, <1>6, <1>7, <1>9 DEF ReadIsCurrent
    <2>. QED
      BY <1>3, <2>1, <2>2
  <1>16. StoreIsKept'
    <2>1. Shared \in Stores
      BY StoreAssumption
    <2>. QED
      BY <2>1, <1>2, <1>6, <1>8, <1>9, <1>10, <1>11, <1>12, <1>13, <1>14, <1>15, StoreStep
  <1>17. \A t \in Stores : store'[t] # store[t] => t = Shared \/ p \notin Movers
    BY <1>5, <1>8, PlanFacts
  <1>18. p \notin Movers => \A t \in Stores : store'[t] # store[t] => store'[t] # {}
    BY <1>5, <1>8
  <1>. QED
    BY <1>10, <1>16, <1>17, <1>18

\* A source is removed by a move that owns it and has read all of it, or is put at
\* stake.
LEMMA EraseSourceKeeps ==
    ASSUME StoreIsKept, NEW p \in Procs, EraseSource(p)
    PROVE  /\ StoreIsKept'
           /\ \A t \in Stores : store'[t] # store[t] =>
                 t # Shared /\ store[t] \subseteq store[Shared] \cup exposed'
  <1>. DEFINE s == StoreOf[p]
              goes == s \notin readonly
              none == {}
              pc == "release"
              to == [proc[p] EXCEPT !.sure = none, !.pc = pc]
  <1>1. /\ TypeOK /\ NoLostRule /\ proc[p].pc = "erase" /\ proc[p].pc \in Working
        /\ ReadIsCurrent(p) /\ LooksAreRight(p) /\ PlaceIsRight(p) /\ p \in Movers
        /\ ~proc[p].lone /\ proc[p].checked = 0
    BY OfProcess, Parts, Unasserted DEF EraseSource, At, Working, PlaceIsRight
  <1>2. /\ store' = IF goes THEN [store EXCEPT ![s] = {}] ELSE store
        /\ exposed' = IF goes /\ LostSince(p, 2) THEN exposed \cup store[s] ELSE exposed
        /\ kept' = kept /\ Moves(p, to)
        /\ UNCHANGED <<lock, robbed, holds, beats, world>> /\ stopped' = stopped
    BY <1>1 DEF EraseSource, Moves, TypeOK, world
  <1>3. s \in Stores /\ Shared \in Stores /\ s # Shared /\ Plan(p)[2] = s
    BY <1>1, PlanFacts
  <1>4. store \in [Stores -> SUBSET Rules] /\ kept \subseteq Rules /\ exposed \subseteq Rules
    BY <1>1 DEF TypeOK
  <1>5. 2 \in 1..Len(proc[p].got) /\ (Owns(p, 2) \/ LostSince(p, 2))
    <2>1. 2 \in 1..Len(proc[p].got)
      BY <1>1, WorksUnderLocks
    <2>2. p \notin Savers
      BY <1>1, StoreAssumption
    <2>3. 2 \in proc[p].sure
      BY <2>1, <2>2, <1>1 DEF LooksAreRight
    <2>. QED
      BY <2>1, <2>3 DEF LostSince
  <1>6. /\ proc[p].source \subseteq store[Shared] \cup exposed
        /\ Owns(p, 2) => store[s] \subseteq proc[p].source \cup exposed
    BY <1>1 DEF ReadIsCurrent, Working
  <1>7. /\ to \in Process /\ to.got = proc[p].got /\ to.slept = proc[p].slept
        /\ to.pc = pc /\ to.checked = 0
    <2>1. /\ pc \in PCs /\ none \in SUBSET (0..2) /\ proc[p] \in Process /\ proc[p].checked = 0
      BY <1>1, ProcessFacts DEF PCs
    <2>. HIDE DEF pc, none
    <2>. QED
      BY ONLY <2>1 DEF Process, PCs
  <1>. HIDE DEF goes, s, none, to
  <1>8. proc'[p] = to
    BY <1>1, <1>2, <1>7, MovesFacts
  <1>9. /\ store' \in [Stores -> SUBSET Rules]
        /\ \A t \in Stores : store'[t] = IF goes /\ t = s THEN {} ELSE store[t]
    BY <1>2, <1>3, <1>4
  <1>10. exposed \subseteq exposed' /\ exposed' \subseteq Rules
    BY <1>2, <1>3, <1>4
  <1>11. goes => store[s] \subseteq store[Shared] \cup exposed'
    BY <1>2, <1>5, <1>6, <1>10
  <1>12. NoLostRule'
    <2>1. ASSUME NEW r \in kept
          PROVE  r \in exposed' \/ \E t \in Stores : r \in store'[t]
      <3>0. r \in exposed \/ \E t \in Stores : r \in store[t]
        BY <1>1 DEF NoLostRule
      <3>1. CASE r \in exposed
        BY <3>1, <1>10
      <3>2. CASE \E t \in Stores : r \in store[t]
        <4>1. PICK t \in Stores : r \in store[t]
          BY <3>2
        <4>2. CASE goes /\ t = s
          BY <4>1, <4>2, <1>3, <1>9, <1>11
        <4>3. CASE ~(goes /\ t = s)
          BY <4>1, <4>3, <1>9
        <4>. QED
          BY <4>2, <4>3
      <3>. QED
        BY <3>0, <3>1, <3>2
    <2>. QED
      BY <2>1, <1>2 DEF NoLostRule
  <1>13. PlaceIsRight(p)' /\ LooksAreRight(p)' /\ ReadIsCurrent(p)'
    BY <1>2, <1>7, <1>8, GivenUp
  <1>14. LookIsCurrent(p)'
    BY <1>7, <1>8 DEF LookIsCurrent
  <1>15. /\ \A t \in Stores : store'[t] \subseteq store[t] \cup exposed'
         /\ store[Shared] \subseteq store'[Shared] \cup exposed'
    BY <1>3, <1>9
  <1>16. StoreIsKept'
    BY <1>2, <1>4, <1>7, <1>9, <1>10, <1>12, <1>13, <1>14, <1>15, StoreStep
  <1>17. \A t \in Stores : store'[t] # store[t] =>
            t # Shared /\ store[t] \subseteq store[Shared] \cup exposed'
    BY <1>3, <1>9, <1>11
  <1>. QED
    BY <1>16, <1>17

\* A process without its inner hold.
LEMMA LetsGoFacts ==
    ASSUME TypeOK, NEW p \in Procs, Len(proc[p].got) # 0, proc[p].checked = 0
    PROVE  /\ LetsGo(p) \in Process /\ LetsGo(p).pc = "release" /\ LetsGo(p).slept = proc[p].slept
           /\ LetsGo(p).checked = 0
           /\ Len(LetsGo(p).got) = Len(proc[p].got) - 1
           /\ \A k \in 1..Len(LetsGo(p).got) : LetsGo(p).got[k] = proc[p].got[k]
  <1>1. PICK n \in Nat : n = Len(proc[p].got)
    BY ProcessFacts
  <1>. DEFINE rest == SubSeq(proc[p].got, 1, n - 1)
              none == {}
              to == [proc[p] EXCEPT !.got = rest, !.sure = none, !.pc = "release"]
  <1>2. LetsGo(p) = to
    BY <1>1, ProcessFacts DEF LetsGo, Process
  <1>3. /\ rest \in Seq(Nat) /\ Len(rest) = n - 1
        /\ \A k \in 1..Len(rest) : rest[k] = proc[p].got[k]
    <2>1. proc[p].got \in Seq(Nat) /\ n - 1 \in Int /\ 1 \in Int /\ n - 1 \in 0..Len(proc[p].got)
      BY <1>1, ProcessFacts
    <2>. QED
      BY <2>1, <1>1, SubSeqProperties
  <1>4. none \in SUBSET (0..2) /\ proc[p] \in Process /\ proc[p].checked = 0
    BY ProcessFacts
  <1>. HIDE DEF rest, none
  <1>5. /\ to \in Process /\ to.pc = "release" /\ to.slept = proc[p].slept /\ to.got = rest
        /\ to.checked = 0
    BY ONLY <1>3, <1>4 DEF Process
  <1>. HIDE DEF to
  <1>. QED
    BY <1>1, <1>2, <1>3, <1>5

\* A hold is given up, with the lock or without.
LEMMA LetGoStep ==
    ASSUME StoreIsKept, NEW p \in Procs, p \notin stopped, NEW n \in 1..Len(proc[p].got),
           n = Len(proc[p].got), proc[p].pc \in {"release", "unlock"}, Moves(p, LetsGo(p)),
           UNCHANGED <<store, kept, exposed, holds, beats, world>>,
           NEW w \in Stores, lock' = lock \/ lock' = [lock EXCEPT ![w] = NoLock],
           lock' \in [Stores -> Locks], robbed \subseteq robbed', robbed' \subseteq 1..holds,
           \A q \in Procs : \A k \in 1..Len(proc[q].got) :
              q \notin dead /\ ~proc[q].slept /\ Plan(q)[k] = w /\ Owns(q, k) /\ ~(q = p /\ k = n)
              => lock' = lock \/ proc[q].got[k] \in robbed'
    PROVE  StoreIsKept'
  <1>1. TypeOK /\ PlaceIsRight(p) /\ proc[p].checked = 0
    BY OfProcess, Unasserted
  <1>2. /\ store' = store /\ kept' = kept /\ exposed' = exposed /\ holds' = holds /\ beats' = beats
        /\ dead' = dead /\ stopped' = stopped /\ readonly' = readonly /\ passes' = passes
        /\ crashes' = crashes /\ stops' = stops /\ toggles' = toggles
    BY DEF world
  <1>3. Len(proc[p].got) \in Nat /\ Len(proc[p].got) # 0
    BY <1>1, ProcessFacts
  <1>. DEFINE to == LetsGo(p)
  <1>4. /\ to \in Process /\ to.pc = "release" /\ to.slept = proc[p].slept /\ to.checked = 0
        /\ Len(to.got) = n - 1
        /\ \A k \in 1..Len(to.got) : to.got[k] = proc[p].got[k]
    BY <1>1, <1>3, LetsGoFacts
  <1>5. Moves(p, to)
    OBVIOUS
  <1>. HIDE DEF to
  <1>6. /\ proc' \in [Procs -> Process] /\ proc'[p] = to
        /\ \A q \in Procs : q # p => proc'[q] = proc[q]
    BY <1>1, <1>4, <1>5, MovesFacts
  <1>7. TypeOK'
    BY <1>1, <1>2, <1>6 DEF TypeOK
  <1>8. PlaceIsRight(p)'
    <2>1. Plan(p)' = Plan(p) /\ Len(Plan(p)) \in {1, 2}
      BY PlanFacts DEF Plan
    <2>2. Len(proc'[p].got) <= Len(Plan(p))
      BY <1>1, <1>3, <1>4, <1>6, <2>1 DEF PlaceIsRight
    <2>3. (p \in stopped' => proc'[p].slept) /\ (proc'[p].slept => p \in Stoppable)
      BY <1>1, <1>2, <1>4, <1>6 DEF PlaceIsRight
    <2>4. proc'[p].pc = "release"
      BY <1>4, <1>6
    <2>. QED
      BY <2>1, <2>2, <2>3, <2>4 DEF PlaceIsRight, Working
  <1>9. LooksAreRight(p)'
    BY <1>4, <1>6, PlainLooks
  <1>10. LookIsCurrent(p)' /\ ReadIsCurrent(p)'
    BY <1>4, <1>6 DEF LookIsCurrent, ReadIsCurrent, Working
  <1>11. /\ dead \subseteq dead'
         /\ \A q \in Procs \ {p} : proc'[q] = proc[q] /\ (q \in stopped' => q \in stopped)
         /\ Len(proc'[p].got) <= Len(proc[p].got)
         /\ \A k \in 1..Len(proc'[p].got) : proc'[p].got[k] = proc[p].got[k]
         /\ proc[p].slept => proc'[p].slept \/ Len(proc'[p].got) = 0
    BY <1>2, <1>3, <1>4, <1>6
  <1>12. ASSUME NEW q \in Procs, NEW k \in 1..Len(proc'[q].got),
                q \notin dead, ~proc[q].slept, Plan(q)[k] = w, Owns(q, k)
         PROVE  lock' = lock \/ proc[q].got[k] \in robbed'
    <2>1. k \in 1..Len(proc[q].got) /\ ~(q = p /\ k = n)
      <3>1. CASE q = p
        BY <3>1, <1>3, <1>4, <1>6
      <3>2. CASE q # p
        BY <3>2, <1>6
      <3>. QED
        BY <3>1, <3>2
    <2>. QED
      BY <2>1, <1>12
  <1>. QED
    BY <1>2, <1>7, <1>8, <1>9, <1>10, <1>11, <1>12, QuietStep

\* A release looks at the inner lock, or is done.
LEMMA ReleaseKeeps ==
    ASSUME StoreIsKept, NEW p \in Procs, Release(p)
    PROVE  StoreIsKept'
  <1>1. /\ TypeOK /\ PlaceIsRight(p) /\ LooksAreRight(p) /\ beats \in Nat
        /\ proc[p].pc = "release" /\ p \notin stopped /\ proc[p].checked = 0
    BY OfProcess, Unasserted DEF Release, At, TypeOK
  <1>2. /\ store' = store /\ lock' = lock /\ kept' = kept /\ exposed' = exposed /\ robbed' = robbed
        /\ holds' = holds /\ beats' = beats
        /\ dead' = dead /\ stopped' = stopped /\ readonly' = readonly /\ passes' = passes
        /\ crashes' = crashes /\ stops' = stops /\ toggles' = toggles
    BY DEF Release, world, ghosts
  <1>9. UNCHANGED <<store, lock, kept, ghosts, holds, world>> /\ UNCHANGED <<store, kept, exposed, holds, beats, world>>
    BY <1>2 DEF ghosts, world
  <1>3. PICK n \in Nat : n = Len(proc[p].got)
    BY <1>1, ProcessFacts
  <1>4. n <= Len(Plan(p)) /\ Len(Plan(p)) \in {1, 2} /\ proc[p] \in Process
    BY <1>1, <1>3, PlanFacts, ProcessFacts DEF PlaceIsRight
  <1>8. /\ n > 0 /\ Owns(p, n) => Moves(p, [proc[p] EXCEPT !.sure = {n}, !.pc = "unlock"])
        /\ n > 0 /\ ~Owns(p, n) => Moves(p, LetsGo(p))
    <2>1. proc' = [proc EXCEPT
             ![p] = IF n = 0 THEN [Idle EXCEPT !.beating = proc[p].beating]
                    ELSE IF MayUnlock(p, n)
                    THEN [proc[p] EXCEPT !.sure = IF Owns(p, n) THEN {n} ELSE {}, !.pc = "unlock"]
                    ELSE LetsGo(p)]
      BY <1>1, <1>3 DEF Release, TypeOK
    <2>2. MayUnlock(p, n) <=> Owns(p, n)
      BY DEF MayUnlock
    <2>. DEFINE idle == [Idle EXCEPT !.beating = proc[p].beating]
                next(s) == [proc[p] EXCEPT !.sure = s, !.pc = "unlock"]
                mine == Owns(p, n)
                look == IF mine THEN {n} ELSE {}
                step == IF n = 0 THEN idle ELSE IF MayUnlock(p, n) THEN next(look) ELSE LetsGo(p)
    <2>3. Moves(p, step)
      BY <2>1 DEF Moves
    <2>4. n > 0 /\ mine => look = {n} /\ step = next(look)
      BY <2>2
    <2>5. n > 0 /\ ~mine => step = LetsGo(p)
      BY <2>2
    <2>. HIDE DEF step, next, look
    <2>6. n > 0 /\ mine => Moves(p, next({n}))
      BY <2>3, <2>4
    <2>7. n > 0 /\ ~mine => Moves(p, LetsGo(p))
      BY <2>3, <2>5
    <2>. QED
      BY <2>6, <2>7 DEF next
  <1>5. CASE n = 0
    <2>. DEFINE to == [Idle EXCEPT !.beating = proc[p].beating]
    <2>1. Moves(p, to)
      BY <1>1, <1>3, <1>5 DEF Release, Moves, TypeOK
    <2>2. proc[p].beating \in BOOLEAN
      BY <1>1, ProcessFacts
    <2>3. /\ to \in Process /\ to.pc = "idle" /\ to.got = <<>> /\ ~to.lone /\ ~to.slept
          /\ to.checked = 0
      BY <2>2, IdleFacts DEF Process
    <2>. HIDE DEF to
    <2>4. /\ proc' \in [Procs -> Process] /\ proc'[p] = to
          /\ \A q \in Procs : q # p => proc'[q] = proc[q]
      BY <1>1, <2>1, <2>3, MovesFacts
    <2>5. TypeOK'
      BY <1>1, <1>2, <2>1, <2>4 DEF TypeOK
    <2>6. Len(proc'[p].got) = 0 /\ Len(proc[p].got) = 0
      BY <2>3, <2>4, <1>3, <1>5
    <2>7. PlaceIsRight(p)'
      <3>1. Plan(p)' = Plan(p) /\ Len(Plan(p)) \in {1, 2}
        BY PlanFacts DEF Plan
      <3>2. /\ proc'[p].pc = "idle" /\ proc'[p].got = <<>> /\ ~proc'[p].lone /\ ~proc'[p].slept
            /\ p \notin stopped'
        BY <2>3, <2>4, <1>1, <1>2
      <3>. QED
        BY <3>1, <3>2, <2>6 DEF PlaceIsRight, Working
    <2>8. LookIsCurrent(p)' /\ ReadIsCurrent(p)' /\ LooksAreRight(p)'
      BY <2>3, <2>4, PlainLooks DEF LookIsCurrent, ReadIsCurrent, Working
    <2>9. /\ Shared \in Stores /\ dead \subseteq dead' /\ robbed \subseteq robbed'
          /\ \A q \in Procs \ {p} : proc'[q] = proc[q] /\ (q \in stopped' => q \in stopped)
          /\ Len(proc'[p].got) <= Len(proc[p].got)
          /\ \A k \in 1..Len(proc'[p].got) : proc'[p].got[k] = proc[p].got[k]
      BY <1>2, <2>4, <2>6, PlanFacts
    <2>. QED
      BY <1>2, <2>5, <2>6, <2>7, <2>8, <2>9, QuietStep
  <1>6. CASE n > 0 /\ Owns(p, n)
    <2>. DEFINE sure == {n}
                to == [proc[p] EXCEPT !.sure = sure, !.pc = "unlock"]
    <2>1. Moves(p, to)
      BY <1>6, <1>8
    <2>8. n \in 0..2
      <3>. DEFINE b == Len(Plan(p))
      <3>1. b \in {1, 2} /\ n <= b
        BY <1>4
      <3>. HIDE DEF b
      <3>. QED
        BY <3>1
    <2>2. sure \in SUBSET (0..2) /\ proc[p] \in Process /\ proc[p].checked = 0
      BY <1>1, <1>4, <2>8
    <2>. HIDE DEF sure
    <2>3. /\ to \in Process /\ to.pc = "unlock" /\ to.got = proc[p].got /\ to.sure = sure
          /\ to.slept = proc[p].slept /\ to.checked = 0
      BY ONLY <2>2 DEF Process
    <2>. HIDE DEF to
    <2>4. proc'[p] = to
      BY <1>1, <2>1, <2>3, MovesFacts
    <2>5. PlaceIsRight(p)'
      <3>1. Plan(p)' = Plan(p)
        BY DEF Plan
      <3>2. /\ Len(proc'[p].got) # 0 /\ Len(proc'[p].got) <= Len(Plan(p)) /\ proc'[p].pc = "unlock"
            /\ (p \in stopped' => proc'[p].slept) /\ (proc'[p].slept => p \in Stoppable)
        BY <2>3, <2>4, <1>1, <1>2, <1>3, <1>4, <1>6 DEF PlaceIsRight
      <3>. QED
        BY <3>1, <3>2 DEF PlaceIsRight, Working
    <2>6. LooksAreRight(p)'
      BY <2>3, <2>4, <1>3 DEF LooksAreRight, sure
    <2>7. LookIsCurrent(p)' /\ ReadIsCurrent(p)'
      BY <2>3, <2>4 DEF LookIsCurrent, ReadIsCurrent, Working
    <2>. QED
      BY <1>1, <1>2, <1>9, <2>1, <2>3, <2>5, <2>6, <2>7, LocalMove
  <1>7. CASE n > 0 /\ ~Owns(p, n)
    <2>1. Moves(p, LetsGo(p))
      BY <1>7, <1>8
    <2>2. n \in 1..Len(proc[p].got) /\ Shared \in Stores
      BY <1>3, <1>7, PlanFacts
    <2>3. /\ lock' \in [Stores -> Locks] /\ lock' = lock
          /\ robbed \subseteq robbed' /\ robbed' \subseteq 1..holds
      BY <1>1, <1>2 DEF TypeOK
    <2>. QED
      BY <2>1, <2>2, <2>3, <1>1, <1>3, <1>9, LetGoStep
  <1>. QED
    BY <1>3, <1>5, <1>6, <1>7

\* What is removed by its name is the own lock, or counted.
LEMMA UnlockKeeps ==
    ASSUME StoreIsKept, NEW p \in Procs, Unlock(p)
    PROVE  StoreIsKept'
  <1>1. /\ TypeOK /\ PlaceIsRight(p) /\ LooksAreRight(p)
        /\ proc[p].pc = "unlock" /\ p \notin stopped
    BY OfProcess DEF Unlock, At
  <1>2. PICK n \in Nat : n = Len(proc[p].got)
    BY <1>1, ProcessFacts
  <1>3. n # 0 /\ n <= Len(Plan(p)) /\ n \in proc[p].sure
    BY <1>1, <1>2 DEF PlaceIsRight, LooksAreRight
  <1>4. n \in 1..Len(proc[p].got) /\ n \in 1..Len(Plan(p))
    BY <1>2, <1>3, PlanFacts
  <1>. DEFINE w == Plan(p)[n]
  <1>5. w \in Stores
    BY <1>4, PlanFacts
  <1>6. /\ Removes(p, w, n) /\ Moves(p, LetsGo(p))
        /\ UNCHANGED <<store, kept, exposed, holds, beats, world>>
    BY <1>1, <1>2 DEF Unlock, Moves, TypeOK
  <1>7. Plan(p)[n] = w
    OBVIOUS
  <1>. HIDE DEF w
  <1>8. /\ lock' = lock \/ lock' = [lock EXCEPT ![w] = NoLock]
        /\ lock' \in [Stores -> Locks]
        /\ robbed \subseteq robbed' /\ robbed' \subseteq 1..holds
        /\ \A q \in Procs : \A k \in 1..Len(proc[q].got) :
              q \notin dead /\ ~proc[q].slept /\ Plan(q)[k] = w /\ Owns(q, k) /\ ~(q = p /\ k = n)
              => lock' = lock \/ proc[q].got[k] \in robbed'
    BY <1>3, <1>4, <1>5, <1>6, <1>7, RemovalIsCounted
  <1>. QED
    BY <1>1, <1>2, <1>4, <1>5, <1>6, <1>8, LetGoStep

-----------------------------------------------------------------------------
(* Heartbeats, and the world. *)

\* The reading of a heartbeat only sets its flag.
LEMMA BeatReadsKeeps ==
    ASSUME StoreIsKept, NEW p \in Procs, BeatReads(p)
    PROVE  StoreIsKept'
  <1>1. TypeOK /\ PlaceIsRight(p) /\ LooksAreRight(p) /\ LookIsCurrent(p) /\ ReadIsCurrent(p)
    BY OfProcess
  <1>. DEFINE to == [proc[p] EXCEPT !.beating = TRUE]
  <1>2. /\ to \in Process /\ to.got = proc[p].got /\ to.slept = proc[p].slept
        /\ to.pc = proc[p].pc /\ to.lone = proc[p].lone /\ to.saw = proc[p].saw
        /\ to.source = proc[p].source /\ to.target = proc[p].target
        /\ to.checked = proc[p].checked /\ to.sure = proc[p].sure
    BY <1>1, ProcessFacts DEF Process
  <1>3. /\ Moves(p, to) /\ UNCHANGED <<store, lock, kept, ghosts, holds, world>>
        /\ exposed' = exposed /\ lock' = lock /\ store' = store /\ stopped' = stopped /\ holds' = holds
    BY <1>1 DEF Moves, BeatReads, TypeOK, world, ghosts
  <1>4. beats' \in Nat
    BY <1>1 DEF BeatReads, TypeOK
  <1>. HIDE DEF to
  <1>5. proc'[p] = to
    BY <1>1, <1>2, <1>3, MovesFacts
  <1>6. PlaceIsRight(p)'
    BY <1>1, <1>2, <1>3, <1>5 DEF PlaceIsRight, Plan
  <1>7. LookIsCurrent(p)'
    BY <1>1, <1>2, <1>3, <1>5 DEF LookIsCurrent, Wanted, Plan
  <1>8. ReadIsCurrent(p)'
    BY <1>1, <1>2, <1>3, <1>5 DEF ReadIsCurrent, Owns, Plan
  <1>9. LooksAreRight(p)'
    BY <1>1, <1>2, <1>5 DEF LooksAreRight
  <1>. QED
    BY <1>2, <1>3, <1>4, <1>6, <1>7, <1>8, <1>9, LocalMove

\* A step that changes no process, store or hold but the age of a lock.
LEMMA AgeStep ==
    ASSUME StoreIsKept, TypeOK', NEW s \in Stores, NEW new \in Locks,
           lock[s] # NoLock, lock' = [lock EXCEPT ![s] = new], new.token = lock[s].token,
           new.beat > lock[s].beat \/ (new.beat = lock[s].beat /\ new.old),
           new.old => \A q \in Procs : \A k \in 1..Len(proc[q].got) :
                         Plan(q)[k] = s /\ Owns(q, k) => q \in dead \/ proc[q].slept,
           store' = store, kept' = kept, exposed' = exposed, robbed' = robbed,
           holds' = holds, dead' = dead, stopped' = stopped,
           \A q \in Procs : /\ proc'[q].pc = proc[q].pc /\ proc'[q].got = proc[q].got
                            /\ proc'[q].saw = proc[q].saw /\ proc'[q].source = proc[q].source
                            /\ proc'[q].target = proc[q].target /\ proc'[q].lone = proc[q].lone
                            /\ proc'[q].slept = proc[q].slept
                            /\ proc'[q].checked = proc[q].checked /\ proc'[q].sure = proc[q].sure
    PROVE  StoreIsKept'
  <1>1. TypeOK /\ LockInv /\ NoLostRule
    BY Parts
  <1>2. /\ lock'[s] = new /\ \A t \in Stores : t # s => lock'[t] = lock[t]
        /\ \A t \in Stores : lock[t] \in Locks /\ lock'[t] \in Locks
    BY <1>1 DEF TypeOK
  <1>3. \A t \in Stores : lock'[t].token = lock[t].token
    BY <1>2
  <1>4. \A q \in Procs : \A k \in 1..Len(proc[q].got) : Plan(q)[k] \in Stores
    <2>1. ASSUME NEW q \in Procs, NEW k \in 1..Len(proc[q].got)
          PROVE  Plan(q)[k] \in Stores
      <3>1. Len(proc[q].got) \in Nat /\ Len(proc[q].got) <= Len(Plan(q))
        BY OfProcess, ProcessFacts DEF PlaceIsRight
      <3>2. k \in 1..Len(Plan(q))
        BY <3>1, PlanFacts
      <3>. QED
        BY <3>2, PlanFacts
    <2>. QED
      BY <2>1
  <1>5. \A q \in Procs : \A k \in 1..Len(proc[q].got) : Owns(q, k)' <=> Owns(q, k)
    BY <1>3, <1>4 DEF Owns, Plan
  <1>6. TokensAreUnique'
    <2>1. \A t \in Stores : lock'[t].token <= holds' /\ (lock'[t].token = 0 => lock'[t] = NoLock)
      BY <1>1, <1>2, <1>3 DEF LockInv, TokensAreUnique
    <2>2. ASSUME NEW q \in Procs, NEW i \in 1..Len(proc'[q].got)
          PROVE  proc'[q].got[i] \in 1..holds'
      BY <1>1 DEF LockInv, TokensAreUnique
    <2>3. ASSUME NEW q \in Procs, NEW r \in Procs, NEW i \in 1..Len(proc'[q].got),
                 NEW k \in 1..Len(proc'[r].got), proc'[q].got[i] = proc'[r].got[k]
          PROVE  q = r /\ i = k
      <3>1. /\ i \in 1..Len(proc[q].got) /\ k \in 1..Len(proc[r].got)
            /\ proc[q].got[i] = proc[r].got[k]
        BY <2>3
      <3>. QED
        BY <3>1, <1>1 DEF LockInv, TokensAreUnique
    <2>. QED
      BY <2>1, <2>2, <2>3 DEF TokensAreUnique
  <1>7. LiveHoldersOwn'
    <2>1. SUFFICES ASSUME NEW q \in Procs, q \notin dead, ~proc[q].slept,
                          NEW k \in 1..Len(proc[q].got)
                   PROVE  Owns(q, k)' \/ proc[q].got[k] \in robbed
      BY DEF LiveHoldersOwn
    <2>2. Owns(q, k) \/ proc[q].got[k] \in robbed
      BY <2>1, <1>1 DEF LockInv, LiveHoldersOwn
    <2>. QED
      BY <2>2, <1>5
  <1>8. StaleIsAbandoned'
    <2>1. SUFFICES ASSUME NEW q \in Procs, NEW k \in 1..Len(proc[q].got), Owns(q, k)',
                          lock'[Plan(q)[k]].old
                   PROVE  q \in dead \/ proc[q].slept
      BY DEF StaleIsAbandoned, Plan
    <2>2. Owns(q, k)
      BY <2>1, <1>5
    <2>3. CASE Plan(q)[k] = s
      BY <2>1, <2>2, <2>3, <1>2
    <2>4. CASE Plan(q)[k] # s
      <3>1. lock[Plan(q)[k]].old
        BY <2>1, <2>4, <1>2, <1>4
      <3>. QED
        BY <3>1, <2>2, <1>1 DEF LockInv, StaleIsAbandoned
    <2>. QED
      BY <2>3, <2>4
  <1>9. NoLostRule'
    BY <1>1 DEF NoLostRule
  <1>10. ASSUME NEW q \in Procs
         PROVE  ProcessInv(q)'
    <2>1. PlaceIsRight(q) /\ LooksAreRight(q) /\ LookIsCurrent(q) /\ ReadIsCurrent(q)
      BY OfProcess
    <2>2. PlaceIsRight(q)'
      BY <2>1 DEF PlaceIsRight, Plan
    <2>3. LookIsCurrent(q)'
      <3>1. SUFFICES ASSUME proc[q].pc = "confirm"
                     PROVE  LookIsCurrent(q)'
        BY DEF LookIsCurrent
      <3>2. Len(proc[q].got) + 1 \in 1..Len(Plan(q))
        BY <1>1, <2>1, <3>1, PlanFacts, ProcessFacts DEF PlaceIsRight
      <3>3. Wanted(q)' = Wanted(q) /\ Wanted(q) \in Stores
        BY <3>2, PlanFacts DEF Wanted, Plan
      <3>. DEFINE it == lock[Wanted(q)]
                  saw == proc[q].saw
      <3>4. /\ saw.token \in 1..holds
            /\ it.token = saw.token => it.beat >= saw.beat /\ (it.beat = saw.beat => it.old)
        BY <2>1, <3>1 DEF LookIsCurrent
      <3>5. /\ it.beat \in Nat /\ lock'[Wanted(q)].beat \in Nat /\ saw.beat \in Nat
            /\ lock'[Wanted(q)].token = it.token
            /\ \/ lock'[Wanted(q)] = it
               \/ lock'[Wanted(q)].beat > it.beat
               \/ lock'[Wanted(q)].beat = it.beat /\ lock'[Wanted(q)].old
        BY <1>1, <1>2, <1>3, <3>3, ProcessFacts DEF Locks
      <3>6. lock'[Wanted(q)].token = saw.token =>
               /\ lock'[Wanted(q)].beat >= saw.beat
               /\ lock'[Wanted(q)].beat = saw.beat => lock'[Wanted(q)].old
        BY <3>4, <3>5
      <3>. QED
        BY <3>3, <3>4, <3>6 DEF LookIsCurrent
    <2>4. ReadIsCurrent(q)'
      <3>1. proc[q].pc \in Working => 1 \in 1..Len(proc[q].got)
        BY WorksUnderLocks
      <3>2. q \in Movers /\ proc[q].pc \in Working /\ ~proc[q].lone => 2 \in 1..Len(proc[q].got)
        BY WorksUnderLocks
      <3>3. proc[q].pc \in Working => (Owns(q, 1)' <=> Owns(q, 1))
        BY <3>1, <1>5
      <3>4. q \in Movers /\ proc[q].pc \in Working /\ ~proc[q].lone => (Owns(q, 2)' <=> Owns(q, 2))
        BY <3>2, <1>5
      <3>. QED
        BY <2>1, <3>3, <3>4 DEF ReadIsCurrent, Working
    <2>5. LooksAreRight(q)'
      BY <2>1 DEF LooksAreRight
    <2>. QED
      BY <2>2, <2>3, <2>4, <2>5 DEF ProcessInv
  <1>. QED
    BY <1>6, <1>7, <1>8, <1>9, <1>10, Parts DEF LockInv

\* The touch of a heartbeat renews whatever lock is there.
LEMMA BeatTouchesKeeps ==
    ASSUME StoreIsKept, NEW p \in Procs, BeatTouches(p)
    PROVE  StoreIsKept'
  <1>. DEFINE s == StoreOf[p]
              to == [proc[p] EXCEPT !.beating = FALSE]
              new == [lock[s] EXCEPT !.beat = @ + 1, !.old = FALSE]
  <1>1. TypeOK /\ PlaceIsRight(p) /\ LooksAreRight(p) /\ LookIsCurrent(p) /\ ReadIsCurrent(p)
    BY OfProcess
  <1>2. /\ store' = store /\ kept' = kept /\ holds' = holds /\ beats' = beats
        /\ exposed' = exposed /\ robbed' = robbed
        /\ dead' = dead /\ stopped' = stopped /\ readonly' = readonly /\ passes' = passes
        /\ crashes' = crashes /\ stops' = stops /\ toggles' = toggles
        /\ Moves(p, to)
        /\ lock' = IF lock[s] = NoLock THEN lock ELSE [lock EXCEPT ![s] = new]
    BY <1>1, PlanFacts DEF BeatTouches, world, ghosts, Moves, TypeOK
  <1>3. s \in Stores /\ lock \in [Stores -> Locks]
    BY <1>1, PlanFacts DEF TypeOK
  <1>4. new \in Locks /\ new.token = lock[s].token /\ new.beat > lock[s].beat /\ ~new.old
    <2>1. lock[s] \in Locks
      BY <1>3
    <2>2. lock[s].beat \in Nat /\ lock[s].beat + 1 \in Nat
      BY <2>1 DEF Locks
    <2>3. new \in Locks
      BY <2>1, <2>2 DEF Locks
    <2>4. new.beat = lock[s].beat + 1
      BY <2>1 DEF Locks
    <2>5. new.token = lock[s].token
      BY <2>1 DEF Locks
    <2>6. new.old = FALSE
      BY <2>1 DEF Locks
    <2>. QED
      BY <2>2, <2>3, <2>4, <2>5, <2>6
  <1>5. /\ to \in Process /\ to.got = proc[p].got /\ to.slept = proc[p].slept
        /\ to.pc = proc[p].pc /\ to.lone = proc[p].lone /\ to.saw = proc[p].saw
        /\ to.source = proc[p].source /\ to.target = proc[p].target
        /\ to.checked = proc[p].checked /\ to.sure = proc[p].sure
    BY <1>1, ProcessFacts DEF Process
  <1>. HIDE DEF to, new, s
  <1>6. /\ proc' \in [Procs -> Process] /\ proc'[p] = to
        /\ \A q \in Procs : q # p => proc'[q] = proc[q]
    BY <1>1, <1>2, <1>5, MovesFacts
  <1>7. lock' \in [Stores -> Locks]
    BY <1>2, <1>3, <1>4
  <1>8. TypeOK'
    BY <1>1, <1>2, <1>6, <1>7 DEF TypeOK
  <1>9. CASE lock[s] = NoLock
    <2>1. lock' = lock /\ UNCHANGED <<store, lock, kept, ghosts, holds, world>> /\ beats' \in Nat
      BY <1>1, <1>2, <1>9 DEF world, ghosts, TypeOK
    <2>2. PlaceIsRight(p)'
      BY <1>1, <1>2, <1>5, <1>6 DEF PlaceIsRight, Plan
    <2>3. LookIsCurrent(p)'
      BY <1>1, <1>2, <1>5, <1>6, <2>1 DEF LookIsCurrent, Wanted, Plan
    <2>4. ReadIsCurrent(p)'
      BY <1>1, <1>2, <1>5, <1>6, <2>1 DEF ReadIsCurrent, Owns, Plan
    <2>5. LooksAreRight(p)'
      BY <1>1, <1>5, <1>6 DEF LooksAreRight
    <2>. QED
      BY <1>2, <1>5, <2>1, <2>2, <2>3, <2>4, <2>5, LocalMove
  <1>10. CASE lock[s] # NoLock
    <2>1. lock' = [lock EXCEPT ![s] = new]
      BY <1>2, <1>10
    <2>2. \A q \in Procs : /\ proc'[q].pc = proc[q].pc /\ proc'[q].got = proc[q].got
                           /\ proc'[q].saw = proc[q].saw /\ proc'[q].source = proc[q].source
                           /\ proc'[q].target = proc[q].target /\ proc'[q].lone = proc[q].lone
                           /\ proc'[q].slept = proc[q].slept
                           /\ proc'[q].checked = proc[q].checked /\ proc'[q].sure = proc[q].sure
      BY <1>5, <1>6
    <2>. QED
      BY <2>1, <2>2, <1>2, <1>3, <1>4, <1>8, <1>10, AgeStep
  <1>. QED
    BY <1>9, <1>10

\* A lock grows old when nobody that runs holds it.
LEMMA GrowsOldKeeps ==
    ASSUME StoreIsKept, NEW s \in Stores, GrowsOld(s)
    PROVE  StoreIsKept'
  <1>. DEFINE new == [lock[s] EXCEPT !.old = TRUE]
  <1>1. TypeOK
    BY Parts
  <1>2. /\ store' = store /\ kept' = kept /\ holds' = holds /\ beats' = beats /\ proc' = proc
        /\ exposed' = exposed /\ robbed' = robbed
        /\ dead' = dead /\ stopped' = stopped /\ readonly' = readonly /\ passes' = passes
        /\ crashes' = crashes /\ stops' = stops /\ toggles' = toggles
        /\ lock[s] # NoLock
    BY DEF GrowsOld, world, ghosts
  <1>3. lock' = [lock EXCEPT ![s] = new]
    BY <1>1 DEF GrowsOld, TypeOK
  <1>4. lock \in [Stores -> Locks]
    BY <1>1 DEF TypeOK
  <1>5. new \in Locks /\ new.token = lock[s].token /\ new.beat = lock[s].beat /\ new.old
    BY <1>4 DEF Locks
  <1>. HIDE DEF new
  <1>6. TypeOK'
    <2>1. lock' \in [Stores -> Locks]
      BY <1>3, <1>4, <1>5
    <2>. QED
      BY <2>1, <1>1, <1>2 DEF TypeOK
  <1>7. ASSUME NEW q \in Procs, NEW k \in 1..Len(proc[q].got), Plan(q)[k] = s, Owns(q, k)
        PROVE  q \in dead \/ proc[q].slept
    <2>1. q \in dead \/ q \in stopped
      BY <1>7 DEF GrowsOld
    <2>2. q \in stopped => proc[q].slept
      BY OfProcess DEF PlaceIsRight
    <2>. QED
      BY <2>1, <2>2
  <1>. QED
    BY <1>2, <1>3, <1>5, <1>6, <1>7, AgeStep

\* A crash, a suspension and its end change no lock and no store.
LEMMA CrashKeeps ==
    ASSUME StoreIsKept, NEW p \in Procs, Crash(p) \/ Resume(p)
    PROVE  StoreIsKept'
  <1>1. TypeOK /\ PlaceIsRight(p) /\ LooksAreRight(p) /\ LookIsCurrent(p) /\ ReadIsCurrent(p)
    BY OfProcess
  <1>2. /\ store' = store /\ lock' = lock /\ proc' = proc /\ kept' = kept /\ holds' = holds
        /\ exposed' = exposed /\ robbed' = robbed
        /\ beats' = beats /\ readonly' = readonly /\ passes' = passes /\ stops' = stops
        /\ toggles' = toggles /\ dead \subseteq dead' /\ stopped' \subseteq stopped
        /\ dead' \cup stopped' \subseteq Procs
    BY <1>1 DEF Crash, Resume, TypeOK, ghosts
  <1>3. crashes' \in Nat
    BY <1>1 DEF Crash, Resume, TypeOK
  <1>4. TypeOK'
    BY <1>1, <1>2, <1>3 DEF TypeOK
  <1>5. PlaceIsRight(p)'
    BY <1>1, <1>2 DEF PlaceIsRight, Plan
  <1>6. LookIsCurrent(p)'
    BY <1>1, <1>2 DEF LookIsCurrent, Wanted, Plan
  <1>7. ReadIsCurrent(p)'
    BY <1>1, <1>2 DEF ReadIsCurrent, Owns, Plan
  <1>8. \A q \in Procs \ {p} : proc'[q] = proc[q] /\ (q \in stopped' => q \in stopped)
    BY <1>2
  <1>9. LooksAreRight(p)'
    BY <1>1, <1>2 DEF LooksAreRight
  <1>. QED
    BY <1>2, <1>4, <1>5, <1>6, <1>7, <1>8, <1>9, LocalStep

LEMMA StopKeeps ==
    ASSUME StoreIsKept, NEW p \in Procs, Stop(p)
    PROVE  StoreIsKept'
  <1>. DEFINE to == [proc[p] EXCEPT !.slept = TRUE]
  <1>1. TypeOK /\ PlaceIsRight(p) /\ LooksAreRight(p) /\ LookIsCurrent(p) /\ ReadIsCurrent(p)
    BY OfProcess
  <1>2. /\ store' = store /\ lock' = lock /\ kept' = kept /\ holds' = holds
        /\ exposed' = exposed /\ robbed' = robbed
        /\ beats' = beats /\ readonly' = readonly /\ passes' = passes /\ crashes' = crashes
        /\ toggles' = toggles /\ dead' = dead /\ stopped' = stopped \cup {p} /\ stops' = stops + 1
        /\ p \in Stoppable /\ Moves(p, to)
    BY <1>1 DEF Stop, Moves, TypeOK, ghosts
  <1>3. /\ to \in Process /\ to.got = proc[p].got /\ to.slept
        /\ to.pc = proc[p].pc /\ to.lone = proc[p].lone /\ to.saw = proc[p].saw
        /\ to.source = proc[p].source /\ to.target = proc[p].target
        /\ to.checked = proc[p].checked /\ to.sure = proc[p].sure
    BY <1>1, ProcessFacts DEF Process
  <1>. HIDE DEF to
  <1>4. /\ proc' \in [Procs -> Process] /\ proc'[p] = to
        /\ \A q \in Procs : q # p => proc'[q] = proc[q]
    BY <1>1, <1>2, <1>3, MovesFacts
  <1>5. TypeOK'
    BY <1>1, <1>2, <1>4 DEF TypeOK
  <1>6. PlaceIsRight(p)'
    BY <1>1, <1>2, <1>3, <1>4 DEF PlaceIsRight, Plan
  <1>7. LookIsCurrent(p)'
    BY <1>1, <1>2, <1>3, <1>4 DEF LookIsCurrent, Wanted, Plan
  <1>8. ReadIsCurrent(p)'
    BY <1>1, <1>2, <1>3, <1>4 DEF ReadIsCurrent, Owns, Plan
  <1>9. /\ \A q \in Procs \ {p} : proc'[q] = proc[q] /\ (q \in stopped' => q \in stopped)
        /\ dead \subseteq dead' /\ proc'[p].got = proc[p].got /\ (proc[p].slept => proc'[p].slept)
    BY <1>2, <1>3, <1>4
  <1>10. LooksAreRight(p)'
    BY <1>1, <1>3, <1>4 DEF LooksAreRight
  <1>. QED
    BY <1>2, <1>5, <1>6, <1>7, <1>8, <1>9, <1>10, LocalStep

\* Nothing of the invariant is about the directories' modes.
LEMMA SameKeeps ==
    ASSUME StoreIsKept, UNCHANGED <<store, lock, proc, kept, exposed, robbed, holds, dead, stopped>>, TypeOK'
    PROVE  StoreIsKept'
  <1>1. LockInv /\ NoLostRule
    BY Parts
  <1>a. TokensAreUnique'
    BY <1>1 DEF LockInv, TokensAreUnique, Owns, Plan
  <1>b. LiveHoldersOwn'
    BY <1>1 DEF LockInv, LiveHoldersOwn, Owns, Plan
  <1>c. StaleIsAbandoned'
    BY <1>1 DEF LockInv, StaleIsAbandoned, Owns, Plan
  <1>2. TokensAreUnique' /\ LiveHoldersOwn' /\ StaleIsAbandoned'
    BY <1>a, <1>b, <1>c
  <1>3. NoLostRule'
    BY <1>1 DEF NoLostRule
  <1>4. ASSUME NEW q \in Procs
        PROVE  ProcessInv(q)'
    <2>1. /\ PlaceIsRight(q) /\ LooksAreRight(q) /\ LookIsCurrent(q) /\ ReadIsCurrent(q)
          /\ proc' = proc /\ lock' = lock /\ store' = store /\ stopped' = stopped
          /\ exposed' = exposed /\ holds' = holds
      BY OfProcess
    <2>2. PlaceIsRight(q)' /\ LooksAreRight(q)'
      BY <2>1, PlaceKept, LooksKept
    <2>3. LookIsCurrent(q)'
      BY <2>1 DEF LookIsCurrent, Wanted, Plan
    <2>4. ReadIsCurrent(q)'
      BY <2>1 DEF ReadIsCurrent, Owns, Plan
    <2>. QED
      BY <2>2, <2>3, <2>4 DEF ProcessInv
  <1>. QED
    BY <1>2, <1>3, <1>4, Parts DEF LockInv

LEMMA ChmodKeeps ==
    ASSUME StoreIsKept, NEW s \in Stores, Chmod(s)
    PROVE  StoreIsKept'
  <1>1. TypeOK
    BY Parts
  <1>2. TypeOK'
    BY <1>1 DEF Chmod, TypeOK, ghosts
  <1>. QED
    BY <1>2, SameKeeps DEF Chmod, ghosts

-----------------------------------------------------------------------------
(* The invariant. *)

LEMMA InitKeeps == Init => StoreIsKept
  <1>. SUFFICES ASSUME Init
                PROVE  StoreIsKept
    OBVIOUS
  <1>1. /\ Idle \in Process /\ Idle.got = <<>> /\ Idle.pc = "idle" /\ ~Idle.lone /\ ~Idle.slept
        /\ Idle.checked = 0
    BY IdleFacts
  <1>2. Len(<<>>) = 0
    OBVIOUS
  <1>3. \A q \in Procs : proc[q] = Idle /\ Len(proc[q].got) = 0
    BY <1>1, <1>2 DEF Init
  <1>4. NoLock \in Locks /\ NoLock.token = 0
    BY DEF NoLock, Locks
  <1>5. \A s \in Stores : Before[s] \subseteq Rules
    BY DEF Rules
  <1>6. TypeOK
    <2>1. store \in [Stores -> SUBSET Rules]
      <3>1. store = [s \in Stores |-> Before[s]]
        BY StoreAssumption DEF Init
      <3>. QED
        BY <3>1, <1>5
    <2>2. proc \in [Procs -> Process]
      BY <1>1 DEF Init
    <2>3. lock \in [Stores -> Locks]
      BY <1>4 DEF Init
    <2>4. kept \cup exposed \subseteq Rules /\ robbed \subseteq 1..holds
      BY <1>5 DEF Init
    <2>5. readonly \subseteq Stores /\ {passes, holds, crashes, stops, beats, toggles} \subseteq Nat
      BY StoreAssumption DEF Init
    <2>. QED
      BY <2>1, <2>2, <2>3, <2>4, <2>5 DEF Init, TypeOK
  <1>7. TokensAreUnique
    BY <1>3, <1>4 DEF Init, TokensAreUnique
  <1>8. LiveHoldersOwn /\ StaleIsAbandoned
    BY <1>3 DEF LiveHoldersOwn, StaleIsAbandoned
  <1>9. NoLostRule
    <2>1. {store[s] : s \in Stores} = {Before[s] : s \in Stores}
      BY DEF Init
    <2>. QED
      BY <2>1 DEF Init, NoLostRule
  <1>10. ASSUME NEW q \in Procs
         PROVE  PlaceIsRight(q) /\ LooksAreRight(q) /\ LookIsCurrent(q) /\ ReadIsCurrent(q)
    <2>1. /\ proc[q].pc = "idle" /\ proc[q].got = <<>> /\ ~proc[q].lone /\ ~proc[q].slept
          /\ proc[q].checked = 0
      BY <1>1, <1>3
    <2>2. Len(proc[q].got) = 0 /\ Len(Plan(q)) \in {1, 2} /\ q \notin stopped
      BY <1>3, PlanFacts DEF Init
    <2>3. PlaceIsRight(q)
      BY <2>1, <2>2 DEF PlaceIsRight, Working
    <2>. QED
      BY <2>1, <2>3 DEF LooksAreRight, LookIsCurrent, ReadIsCurrent, Working
  <1>. QED
    BY <1>6, <1>7, <1>8, <1>9, <1>10 DEF StoreIsKept

\* What an action property says of one step.
Unread == \A s \in Stores \ {Shared} :
             store[s] # {} /\ store'[s] = {} => store[s] \subseteq store[Shared] \cup exposed'

LEMMA StepKeeps ==
    ASSUME StoreIsKept, [Next]_vars
    PROVE  StoreIsKept' /\ Unread
  <1>1. ASSUME store' = store
        PROVE  Unread
    BY <1>1 DEF Unread
  <1>2. ASSUME NEW p \in Procs, Begin(p)
        PROVE  StoreIsKept' /\ Unread
    BY <1>1, <1>2, BeginKeeps DEF Begin
  <1>3. ASSUME NEW p \in Procs, Create(p)
        PROVE  StoreIsKept' /\ Unread
    BY <1>1, <1>3, CreateKeeps DEF Create
  <1>4. ASSUME NEW p \in Procs, CannotCreate(p)
        PROVE  StoreIsKept' /\ Unread
    BY <1>1, <1>4, CannotCreateKeeps DEF CannotCreate
  <1>5. ASSUME NEW p \in Procs, IsTaken(p)
        PROVE  StoreIsKept' /\ Unread
    BY <1>1, <1>5, IsTakenKeeps DEF IsTaken
  <1>6. ASSUME NEW p \in Procs, Judge(p)
        PROVE  StoreIsKept' /\ Unread
    BY <1>1, <1>6, JudgeKeeps DEF Judge
  <1>7. ASSUME NEW p \in Procs, Confirm(p)
        PROVE  StoreIsKept' /\ Unread
    BY <1>1, <1>7, ConfirmKeeps DEF Confirm
  <1>8. ASSUME NEW p \in Procs, Unlink(p)
        PROVE  StoreIsKept' /\ Unread
    BY <1>1, <1>8, UnlinkKeeps DEF Unlink
  <1>9. ASSUME NEW p \in Procs, Poll(p)
        PROVE  StoreIsKept' /\ Unread
    BY <1>1, <1>9, PollKeeps DEF Poll
  <1>10. ASSUME NEW p \in Procs, Deadline(p)
         PROVE  StoreIsKept' /\ Unread
    BY <1>1, <1>10, DeadlineKeeps DEF Deadline
  <1>11. ASSUME NEW p \in Procs, Read(p)
         PROVE  StoreIsKept' /\ Unread
    BY <1>1, <1>11, ReadKeeps DEF Read
  <1>12. ASSUME NEW p \in Procs, ReadTarget(p)
         PROVE  StoreIsKept' /\ Unread
    BY <1>1, <1>12, ReadTargetKeeps DEF ReadTarget
  <1>13. ASSUME NEW p \in Procs, Compare(p)
         PROVE  StoreIsKept' /\ Unread
    BY <1>1, <1>13, CompareKeeps DEF Compare
  <1>14. ASSUME NEW p \in Procs, AssertLeases(p)
         PROVE  StoreIsKept' /\ Unread
    BY <1>1, <1>14, AssertLeasesKeeps DEF AssertLeases
  <1>15. ASSUME NEW p \in Procs, WriteStore(p)
         PROVE  StoreIsKept' /\ Unread
    <2>1. /\ StoreIsKept'
          /\ \A s \in Stores : store'[s] # store[s] => s = Shared \/ p \notin Movers
          /\ p \notin Movers => \A s \in Stores : store'[s] # store[s] => store'[s] # {}
      BY <1>15, PublishKeeps
    <2>. QED
      BY <2>1 DEF Unread
  <1>16. ASSUME NEW p \in Procs, EraseSource(p)
         PROVE  StoreIsKept' /\ Unread
    <2>1. /\ StoreIsKept'
          /\ \A t \in Stores : store'[t] # store[t] => store[t] \subseteq store[Shared] \cup exposed'
      BY <1>16, EraseSourceKeeps
    <2>. QED
      BY <2>1 DEF Unread
  <1>17. ASSUME NEW p \in Procs, Release(p)
         PROVE  StoreIsKept' /\ Unread
    BY <1>1, <1>17, ReleaseKeeps DEF Release
  <1>18. ASSUME NEW p \in Procs, Unlock(p)
         PROVE  StoreIsKept' /\ Unread
    BY <1>1, <1>18, UnlockKeeps DEF Unlock
  <1>19. ASSUME NEW p \in Procs, BeatReads(p)
         PROVE  StoreIsKept' /\ Unread
    BY <1>1, <1>19, BeatReadsKeeps DEF BeatReads
  <1>20. ASSUME NEW p \in Procs, BeatTouches(p)
         PROVE  StoreIsKept' /\ Unread
    BY <1>1, <1>20, BeatTouchesKeeps DEF BeatTouches
  <1>21. ASSUME NEW p \in Procs, Crash(p) \/ Resume(p)
         PROVE  StoreIsKept' /\ Unread
    BY <1>1, <1>21, CrashKeeps DEF Crash, Resume
  <1>22. ASSUME NEW p \in Procs, Stop(p)
         PROVE  StoreIsKept' /\ Unread
    BY <1>1, <1>22, StopKeeps DEF Stop
  <1>23. ASSUME NEW s \in Stores, GrowsOld(s)
         PROVE  StoreIsKept' /\ Unread
    BY <1>1, <1>23, GrowsOldKeeps DEF GrowsOld
  <1>24. ASSUME NEW s \in Stores, Chmod(s)
         PROVE  StoreIsKept' /\ Unread
    BY <1>1, <1>24, ChmodKeeps DEF Chmod
  <1>25. CASE UNCHANGED vars
    <2>1. TypeOK
      BY Parts
    <2>2. /\ UNCHANGED <<store, lock, proc, kept, exposed, robbed, holds, dead, stopped>>
          /\ UNCHANGED <<readonly, passes, crashes, stops, beats, toggles>>
      BY <1>25 DEF vars, world, ghosts
    <2>3. TypeOK'
      BY <2>1, <2>2 DEF TypeOK
    <2>. QED
      BY <2>2, <2>3, <1>1, SameKeeps
  <1>26. CASE Next
    <2>1. CASE \E p \in Procs : Works(p)
      BY <2>1, <1>3, <1>4, <1>5, <1>6, <1>7, <1>8, <1>9,
         <1>11, <1>12, <1>13, <1>14, <1>15, <1>16, <1>17, <1>18 DEF Works
    <2>2. CASE \E p \in Procs : Begin(p) \/ Deadline(p) \/ BeatReads(p) \/ BeatTouches(p)
                                \/ Crash(p) \/ Stop(p) \/ Resume(p)
      BY <2>2, <1>2, <1>10, <1>19, <1>20, <1>21, <1>22
    <2>3. CASE \E s \in Stores : GrowsOld(s) \/ Chmod(s)
      BY <2>3, <1>23, <1>24
    <2>. QED
      BY <2>1, <2>2, <2>3, <1>26 DEF Next
  <1>. QED
    BY <1>25, <1>26

\* Whatever moves, saves and repairs are interleaved, suspended, killed and robbed
\* of their locks, tokens are unique, running holders keep their locks, what they read
\* stays current, and no rule that was ever saved is lost (store.ts: withStoreLock and
\* the passes under it); but for what LiveHoldersOwn, ReadIsCurrent and NoLostRule
\* name: a lock removed after a right look, and what a rename or removal puts at stake
\* that has lost its lease since it was asserted or asserts none.
THEOREM StoreIsKeptHolds == Spec => []StoreIsKept
  <1>1. Init => StoreIsKept
    BY InitKeeps
  <1>2. StoreIsKept /\ [Next]_vars => StoreIsKept'
    BY StepKeeps
  <1>. QED
    BY <1>1, <1>2, PTL DEF Spec

\* No fold and no adoption removes a source that holds a rule the shared store lacks,
\* also one that was saved after the source was read (migrateWorktreeStore); but for
\* rules that were put at stake before, or are by the removal itself, if the source's
\* lease is lost between its assertion and the removal.
THEOREM NothingUnreadIsRemoved == Spec => NothingUnreadRemoved
  <1>1. StoreIsKept /\ [Next]_vars =>
           [\A s \in Stores \ {Shared} :
               store[s] # {} /\ store'[s] = {} => store[s] \subseteq store[Shared] \cup exposed']_vars
    BY StepKeeps DEF Unread
  <1>. QED
    BY <1>1, StoreIsKeptHolds, PTL DEF Spec, NothingUnreadRemoved

-----------------------------------------------------------------------------
(* StoredApprovals: an answer is accounted for from the prompt to the      *)
(* event that tells of it, and a rule of the session outranks the stored   *)
(* one from the event that tells of it.                                    *)

Finals == {"auto"} \cup UserReplies
LookUps == {"store", "get", "got"}

SAEvent == [type : {"asked", "replied", "updated"}, id : Prompts \cup {0},
            reply : {"none"} \cup UserReplies, override : BOOLEAN]
SAHandler == [pc : {"none", "post", "answered", "refused"} \cup LookUps, saw : BOOLEAN, stale : BOOLEAN]

SATypes ==
    /\ reply \in [Prompts -> {"none", "hook", "asked"} \cup Finals]
    /\ override \in BOOLEAN /\ lastTold \in BOOLEAN /\ allowed \in BOOLEAN
    /\ events \in Seq(SAEvent)
    /\ \A i \in 1..Len(events) : events[i].type # "updated" => events[i].id \in Prompts
    /\ pending \in Seq(Prompts) /\ Len(pending) <= MaxOutstanding
    /\ autoReplied \in SUBSET Prompts /\ ledger \in SUBSET Prompts /\ tried \in SUBSET Prompts
    /\ savedFor \in SUBSET Prompts /\ users \in SUBSET Prompts /\ lost \in SUBSET Prompts
    /\ sessionRules \in {"unknown", "asks", "silent"}
    /\ handler \in [Prompts -> SAHandler]

\* What is on its way to the plugin.
Asks(q, p) == \E i \in 1..Len(q) : q[i].type = "asked" /\ q[i].id = p
Tells(q, p) == \E i \in 1..Len(q) : q[i].type = "replied" /\ q[i].id = p
Changes(q) == \E i \in 1..Len(q) : q[i].type = "updated"

\* A prompt is announced once and its reply once, in that order.
Orderly(q) ==
    \A i, j \in 1..Len(q) :
        q[i].id = q[j].id =>
            /\ q[i].type = "asked" /\ q[j].type = "asked" => i = j
            /\ q[i].type = "replied" /\ q[j].type = "replied" => i = j
            /\ q[i].type = "asked" /\ q[j].type = "replied" => i < j

\* An event tells the reply that was given, an automatic one as a plain once.
Spoken(r) == IF r = "auto" THEN "once" ELSE r
RepliesAreTrue(q, given) ==
    \A i \in 1..Len(q) :
        q[i].type = "replied" => /\ given[q[i].id] \in Finals
                                 /\ q[i].reply = Spoken(given[q[i].id])

\* The last change that is announced is the last one made.
LastIs(q, o) ==
    \A i \in 1..Len(q) :
        q[i].type = "updated" /\ (\A j \in i+1..Len(q) : q[j].type # "updated") => q[i].override = o

QueueInv ==
    /\ Orderly(events) /\ RepliesAreTrue(events, reply)
    /\ LastIs(events, override) /\ (Changes(events) \/ lastTold = override)

Once(q) == \A i, j \in 1..Len(q) : q[i] = q[j] => i = j
InQueue(q, x) == \E i \in 1..Len(q) : q[i] = x
Remembered(p) == InQueue(pending, p)
PendingInv == Once(pending)

\* Nothing that says the session is silent is of before the last change told.
RulesInv ==
    /\ sessionRules = "silent" => ~lastTold \/ Changes(events)
    /\ \A p \in Prompts : handler[p].pc = "got" /\ ~handler[p].stale /\ ~handler[p].saw
                          => ~lastTold \/ Changes(events)

\* Where a prompt stands.
StageInv(p) ==
    /\ reply[p] \in {"none", "hook"} => ~Asks(events, p) /\ ~Remembered(p)
    /\ reply[p] = "none" => handler[p].pc = "none"
    /\ reply[p] = "hook" => handler[p].pc \in LookUps
    /\ Asks(events, p) => /\ handler[p].pc = "none" /\ ~Remembered(p)
                          /\ reply[p] \in {"asked"} \cup UserReplies
    /\ handler[p].pc \in {"post"} \cup LookUps => reply[p] # "auto"
    /\ handler[p].pc = "post" => reply[p] # "hook"
    /\ handler[p].pc = "answered" => reply[p] = "auto"
    /\ handler[p].pc = "refused" => reply[p] \in UserReplies
    /\ Tells(events, p) => reply[p] \in Finals
    /\ reply[p] = "asked" \/ Tells(events, p)
           => Asks(events, p) \/ Remembered(p) \/ Cardinality(Prompts) > MaxOutstanding

\* What is known of its answer.
AnswerInv(p) ==
    /\ p \in autoReplied \cup ledger => p \in tried
    /\ handler[p].pc = "post" /\ reply[p] = "asked" => p \in ledger
    /\ reply[p] = "auto" /\ Tells(events, p) => p \in ledger \cup lost
    /\ p \in users => reply[p] \in Finals
    /\ p \in users /\ reply[p] = "auto" => p \in lost
    /\ p \in savedFor => reply[p] = "always"
    /\ reply[p] \in UserReplies => Tells(events, p) \/ p \in users \cup tried
    /\ reply[p] = "always" => \/ Tells(events, p) \/ p \in savedFor \cup tried
                              \/ Cardinality(Prompts) > MaxOutstanding

SAInv == /\ SATypes /\ QueueInv /\ PendingInv /\ RulesInv
         /\ \A p \in Prompts : StageInv(p) /\ AnswerInv(p)

-----------------------------------------------------------------------------
\* What is left of a queue when its head is taken.
LEMMA QueueRest ==
    ASSUME NEW q \in Seq(SAEvent), q # <<>>
    PROVE  /\ Tail(q) \in Seq(SAEvent) /\ Len(Tail(q)) = Len(q) - 1 /\ Len(q) \in Nat /\ Len(q) > 0
           /\ \A i \in 1..Len(Tail(q)) : Tail(q)[i] = q[i + 1] /\ i + 1 \in 1..Len(q)
           /\ \A i \in 1..Len(q) : i = 1 \/ (i - 1 \in 1..Len(Tail(q)) /\ q[i] = Tail(q)[i - 1])
  <1>1. /\ Tail(q) \in Seq(SAEvent) /\ Len(Tail(q)) = Len(q) - 1
        /\ \A i \in 1..Len(Tail(q)) : Tail(q)[i] = q[i + 1]
    BY HeadTailProperties
  <1>2. Len(q) \in Nat /\ Len(q) > 0
    BY EmptySeq
  <1>3. \A i \in 1..Len(q) : i = 1 \/ (i - 1 \in 1..Len(Tail(q)) /\ i - 1 + 1 = i)
    BY <1>1, <1>2
  <1>4. \A i \in 1..Len(Tail(q)) : i + 1 \in 1..Len(q)
    BY <1>1, <1>2
  <1>. QED
    BY <1>1, <1>2, <1>3, <1>4

LEMMA QueuePopped ==
    ASSUME NEW q \in Seq(SAEvent), q # <<>>
    PROVE  /\ \A p : Asks(q, p) <=> Asks(Tail(q), p) \/ (q[1].type = "asked" /\ q[1].id = p)
           /\ \A p : Tells(q, p) <=> Tells(Tail(q), p) \/ (q[1].type = "replied" /\ q[1].id = p)
           /\ Changes(q) <=> Changes(Tail(q)) \/ q[1].type = "updated"
  <1>. DEFINE t == Tail(q)
  <1>1. /\ Len(t) = Len(q) - 1 /\ Len(q) \in Nat /\ Len(q) > 0
        /\ \A i \in 1..Len(t) : t[i] = q[i + 1] /\ i + 1 \in 1..Len(q)
        /\ \A i \in 1..Len(q) : i = 1 \/ (i - 1 \in 1..Len(t) /\ q[i] = t[i - 1])
    BY QueueRest
  <1>2. 1 \in 1..Len(q)
    BY <1>1
  <1>. HIDE DEF t
  <1>3. \A p : Asks(q, p) <=> Asks(t, p) \/ (q[1].type = "asked" /\ q[1].id = p)
    BY <1>1, <1>2, ZenonT(60) DEF Asks
  <1>4. \A p : Tells(q, p) <=> Tells(t, p) \/ (q[1].type = "replied" /\ q[1].id = p)
    BY <1>1, <1>2, ZenonT(60) DEF Tells
  <1>5. Changes(q) <=> Changes(t) \/ q[1].type = "updated"
    BY <1>1, <1>2 DEF Changes
  <1>. QED
    BY <1>3, <1>4, <1>5 DEF t

\* The rest is in order, and what was taken comes no more.
LEMMA OrderPopped ==
    ASSUME NEW q \in Seq(SAEvent), q # <<>>, Orderly(q)
    PROVE  /\ Orderly(Tail(q))
           /\ q[1].type = "asked" => ~Asks(Tail(q), q[1].id)
           /\ q[1].type = "replied" => ~Tells(Tail(q), q[1].id) /\ ~Asks(q, q[1].id)
  <1>. DEFINE t == Tail(q)
  <1>1. /\ Len(t) = Len(q) - 1 /\ Len(q) \in Nat /\ Len(q) > 0
        /\ \A i \in 1..Len(t) : t[i] = q[i + 1] /\ i + 1 \in 1..Len(q)
    BY QueueRest
  <1>2. 1 \in 1..Len(q)
    BY <1>1
  <1>. HIDE DEF t
  <1>3. Orderly(t)
    <2>. SUFFICES ASSUME NEW i \in 1..Len(t), NEW j \in 1..Len(t), t[i].id = t[j].id
                  PROVE  /\ t[i].type = "asked" /\ t[j].type = "asked" => i = j
                         /\ t[i].type = "replied" /\ t[j].type = "replied" => i = j
                         /\ t[i].type = "asked" /\ t[j].type = "replied" => i < j
      BY DEF Orderly
    <2>1. /\ t[i] = q[i + 1] /\ i + 1 \in 1..Len(q)
          /\ t[j] = q[j + 1] /\ j + 1 \in 1..Len(q)
      BY <1>1
    <2>2. /\ t[i].type = "asked" /\ t[j].type = "asked" => i + 1 = j + 1
          /\ t[i].type = "replied" /\ t[j].type = "replied" => i + 1 = j + 1
          /\ t[i].type = "asked" /\ t[j].type = "replied" => i + 1 < j + 1
      BY <2>1 DEF Orderly
    <2>. QED
      BY <2>2, <1>1
  <1>4. ASSUME NEW i \in 1..Len(t), t[i].id = q[1].id
        PROVE  /\ ~(q[1].type = "asked" /\ t[i].type = "asked")
               /\ ~(q[1].type = "replied" /\ t[i].type \in {"asked", "replied"})
    <2>1. t[i] = q[i + 1] /\ i + 1 \in 1..Len(q) /\ i + 1 > 1
      BY <1>1, <1>4
    <2>2. /\ q[1].type = "asked" /\ q[i + 1].type = "asked" => 1 = i + 1
          /\ q[1].type = "replied" /\ q[i + 1].type = "replied" => 1 = i + 1
          /\ q[i + 1].type = "asked" /\ q[1].type = "replied" => i + 1 < 1
      BY <1>2, <1>4, <2>1 DEF Orderly
    <2>. QED
      BY <2>1, <2>2, <1>1
  <1>5. q[1].type = "asked" => ~Asks(t, q[1].id)
    BY <1>4 DEF Asks
  <1>6. q[1].type = "replied" => ~Tells(t, q[1].id) /\ ~Asks(t, q[1].id)
    BY <1>4 DEF Asks, Tells
  <1>7. q[1].type = "replied" => ~Asks(q, q[1].id)
    BY <1>6, QueuePopped DEF t
  <1>. QED
    BY <1>3, <1>5, <1>6, <1>7 DEF t

LEMMA RestIsTrue ==
    ASSUME NEW q \in Seq(SAEvent), q # <<>>, NEW given, NEW o,
           RepliesAreTrue(q, given), LastIs(q, o)
    PROVE  /\ RepliesAreTrue(Tail(q), given) /\ LastIs(Tail(q), o)
           /\ q[1].type = "updated" => Changes(Tail(q)) \/ q[1].override = o
           /\ q[1].type = "replied" => given[q[1].id] \in Finals /\ q[1].reply = Spoken(given[q[1].id])
  <1>. DEFINE t == Tail(q)
  <1>1. /\ Len(t) = Len(q) - 1 /\ Len(q) \in Nat /\ Len(q) > 0
        /\ \A i \in 1..Len(t) : t[i] = q[i + 1] /\ i + 1 \in 1..Len(q)
        /\ \A i \in 1..Len(q) : i = 1 \/ (i - 1 \in 1..Len(t) /\ q[i] = t[i - 1])
    BY QueueRest
  <1>2. 1 \in 1..Len(q)
    BY <1>1
  <1>. HIDE DEF t
  <1>3. RepliesAreTrue(t, given)
    BY <1>1 DEF RepliesAreTrue
  <1>4. LastIs(t, o)
    <2>. SUFFICES ASSUME NEW i \in 1..Len(t), t[i].type = "updated",
                         \A j \in i+1..Len(t) : t[j].type # "updated"
                  PROVE  t[i].override = o
      BY DEF LastIs
    <2>1. t[i] = q[i + 1] /\ i + 1 \in 1..Len(q)
      BY <1>1
    <2>2. ASSUME NEW j \in (i + 1) + 1..Len(q) PROVE q[j].type # "updated"
      <3>1. j \in 1..Len(q) /\ j # 1 /\ j - 1 \in i + 1..Len(t)
        BY <1>1, <2>2
      <3>. QED
        BY <1>1, <3>1
    <2>. QED
      BY <2>1, <2>2 DEF LastIs
  <1>5. ASSUME q[1].type = "updated", ~Changes(t)
        PROVE  q[1].override = o
    <2>1. \A j \in 1 + 1..Len(q) : q[j].type # "updated"
      <3>. SUFFICES ASSUME NEW j \in 1 + 1..Len(q) PROVE q[j].type # "updated"
        OBVIOUS
      <3>1. j \in 1..Len(q) /\ j # 1
        BY <1>1
      <3>. QED
        BY <1>1, <3>1, <1>5 DEF Changes
    <2>. QED
      BY <1>2, <1>5, <2>1 DEF LastIs
  <1>6. q[1].type = "replied" => given[q[1].id] \in Finals /\ q[1].reply = Spoken(given[q[1].id])
    BY <1>2 DEF RepliesAreTrue
  <1>. QED
    BY <1>3, <1>4, <1>5, <1>6 DEF t

\* A queue that grows.
LEMMA QueueGrown ==
    ASSUME NEW q \in Seq(SAEvent), NEW e \in SAEvent
    PROVE  /\ Append(q, e) \in Seq(SAEvent)
           /\ Len(Append(q, e)) = Len(q) + 1 /\ Len(q) \in Nat
           /\ \A i \in 1..Len(q) : Append(q, e)[i] = q[i] /\ i \in 1..Len(Append(q, e)) /\ i < Len(q) + 1
           /\ Append(q, e)[Len(q) + 1] = e /\ Len(q) + 1 \in 1..Len(Append(q, e))
           /\ \A i \in 1..Len(Append(q, e)) : i \in 1..Len(q) \/ i = Len(q) + 1
  OBVIOUS

LEMMA QueueAppended ==
    ASSUME NEW q \in Seq(SAEvent), NEW e \in SAEvent
    PROVE  /\ \A p : Asks(Append(q, e), p) <=> Asks(q, p) \/ (e.type = "asked" /\ e.id = p)
           /\ \A p : Tells(Append(q, e), p) <=> Tells(q, p) \/ (e.type = "replied" /\ e.id = p)
           /\ Changes(Append(q, e)) <=> Changes(q) \/ e.type = "updated"
  <1>. DEFINE a == Append(q, e)
  <1>1. /\ Len(a) = Len(q) + 1 /\ Len(q) \in Nat
        /\ \A i \in 1..Len(q) : a[i] = q[i] /\ i \in 1..Len(a)
        /\ a[Len(q) + 1] = e /\ Len(q) + 1 \in 1..Len(a)
        /\ \A i \in 1..Len(a) : i \in 1..Len(q) \/ i = Len(q) + 1
    BY QueueGrown
  <1>. HIDE DEF a
  <1>2. \A p : Asks(a, p) <=> Asks(q, p) \/ (e.type = "asked" /\ e.id = p)
    BY <1>1 DEF Asks
  <1>3. \A p : Tells(a, p) <=> Tells(q, p) \/ (e.type = "replied" /\ e.id = p)
    BY <1>1 DEF Tells
  <1>4. Changes(a) <=> Changes(q) \/ e.type = "updated"
    BY <1>1 DEF Changes
  <1>. QED
    BY <1>2, <1>3, <1>4 DEF a

LEMMA OrderAppended ==
    ASSUME NEW q \in Seq(SAEvent), NEW e \in SAEvent, Orderly(q),
           e.type = "asked" => ~Asks(q, e.id) /\ ~Tells(q, e.id),
           e.type = "replied" => ~Tells(q, e.id)
    PROVE  Orderly(Append(q, e))
  <1>. DEFINE a == Append(q, e)
  <1>1. /\ Len(a) = Len(q) + 1 /\ Len(q) \in Nat
        /\ \A i \in 1..Len(q) : a[i] = q[i] /\ i \in 1..Len(a) /\ i < Len(q) + 1
        /\ a[Len(q) + 1] = e
        /\ \A i \in 1..Len(a) : i \in 1..Len(q) \/ i = Len(q) + 1
    BY QueueGrown
  <1>. HIDE DEF a
  <1>. SUFFICES ASSUME NEW i \in 1..Len(a), NEW j \in 1..Len(a), a[i].id = a[j].id
                PROVE  /\ a[i].type = "asked" /\ a[j].type = "asked" => i = j
                       /\ a[i].type = "replied" /\ a[j].type = "replied" => i = j
                       /\ a[i].type = "asked" /\ a[j].type = "replied" => i < j
    BY DEF Orderly, a
  <1>2. CASE i \in 1..Len(q) /\ j \in 1..Len(q)
    BY <1>1, <1>2 DEF Orderly
  <1>3. CASE i \in 1..Len(q) /\ j = Len(q) + 1
    <2>1. /\ a[i] = q[i] /\ a[j] = e /\ q[i].id = e.id /\ i < j
      BY <1>1, <1>3
    <2>2. /\ ~(e.type = "asked" /\ q[i].type \in {"asked", "replied"})
          /\ ~(e.type = "replied" /\ q[i].type = "replied")
      BY <2>1, <1>3 DEF Asks, Tells
    <2>. QED
      BY <2>1, <2>2
  <1>4. CASE i = Len(q) + 1 /\ j \in 1..Len(q)
    <2>1. /\ a[j] = q[j] /\ a[i] = e /\ q[j].id = e.id
      BY <1>1, <1>4
    <2>2. /\ ~(e.type = "asked" /\ q[j].type \in {"asked", "replied"})
          /\ ~(e.type = "replied" /\ q[j].type = "replied")
      BY <2>1, <1>4 DEF Asks, Tells
    <2>. QED
      BY <2>1, <2>2
  <1>5. CASE i = Len(q) + 1 /\ j = Len(q) + 1
    BY <1>5, <1>1
  <1>. QED
    BY <1>1, <1>2, <1>3, <1>4, <1>5

LEMMA GrownIsTrue ==
    ASSUME NEW q \in Seq(SAEvent), NEW e \in SAEvent, NEW given, NEW o, NEW now,
           RepliesAreTrue(q, given), LastIs(q, o),
           e.type = "replied" => given[e.id] \in Finals /\ e.reply = Spoken(given[e.id]),
           IF e.type = "updated" THEN now = e.override ELSE now = o
    PROVE  RepliesAreTrue(Append(q, e), given) /\ LastIs(Append(q, e), now)
  <1>. DEFINE a == Append(q, e)
  <1>1. /\ Len(a) = Len(q) + 1 /\ Len(q) \in Nat
        /\ \A i \in 1..Len(q) : a[i] = q[i] /\ i \in 1..Len(a) /\ i < Len(q) + 1
        /\ a[Len(q) + 1] = e
        /\ \A i \in 1..Len(a) : i \in 1..Len(q) \/ i = Len(q) + 1
    BY QueueGrown
  <1>. HIDE DEF a
  <1>2. RepliesAreTrue(a, given)
    BY <1>1 DEF RepliesAreTrue
  <1>3. LastIs(a, now)
    <2>. SUFFICES ASSUME NEW i \in 1..Len(a), a[i].type = "updated",
                         \A j \in i+1..Len(a) : a[j].type # "updated"
                  PROVE  a[i].override = now
      BY DEF LastIs
    <2>1. CASE i = Len(q) + 1
      BY <1>1, <2>1
    <2>2. CASE i \in 1..Len(q)
      <3>1. Len(q) + 1 \in i+1..Len(a)
        BY <1>1, <2>2
      <3>2. e.type # "updated"
        BY <1>1, <3>1
      <3>3. \A j \in i+1..Len(q) : q[j].type # "updated"
        <4>. SUFFICES ASSUME NEW j \in i+1..Len(q) PROVE q[j].type # "updated"
          OBVIOUS
        <4>1. j \in 1..Len(q) /\ j \in i+1..Len(a)
          BY <1>1, <2>2
        <4>. QED
          BY <1>1, <4>1
      <3>. QED
        BY <1>1, <2>2, <3>2, <3>3 DEF LastIs
    <2>. QED
      BY <1>1, <2>1, <2>2
  <1>. QED
    BY <1>2, <1>3 DEF a

\* A reply is given only where none was told: what was told stays true.
LEMMA RepliesStayTrue ==
    ASSUME NEW q, NEW given, NEW next, RepliesAreTrue(q, given),
           \A i \in 1..Len(q) : q[i].type = "replied" => next[q[i].id] = given[q[i].id]
    PROVE  RepliesAreTrue(q, next)
  BY DEF RepliesAreTrue

-----------------------------------------------------------------------------
\* Requests that are remembered, each once.
LEMMA OnceFits ==
    ASSUME NEW q \in Seq(Prompts), Once(q)
    PROVE  Len(q) \in Nat /\ Len(q) <= Cardinality(Prompts) /\ Cardinality(Prompts) \in Nat
  <1>1. q \in [1..Len(q) -> Prompts] /\ Len(q) \in Nat
    BY LenProperties
  <1>2. q \in Injection(1..Len(q), Prompts)
    BY <1>1 DEF Injection, IsInjective, Once
  <1>3. IsFiniteSet(Prompts)
    BY SAAssumption
  <1>4. Cardinality(1..Len(q)) <= Cardinality(Prompts)
    BY <1>2, <1>3, FS_Injection
  <1>5. Cardinality(1..Len(q)) = Len(q)
    <2>1. 1 \in Int /\ Len(q) \in Int
      BY <1>1
    <2>2. Cardinality(1..Len(q)) = IF 1 > Len(q) THEN 0 ELSE Len(q) - 1 + 1
      BY <2>1, FS_Interval
    <2>. QED
      BY <1>1, <2>2
  <1>6. Cardinality(Prompts) \in Nat
    BY <1>3, FS_CardinalityType
  <1>. QED
    BY <1>1, <1>4, <1>5, <1>6

LEMMA RemoveFirstFacts ==
    ASSUME NEW q \in Seq(Prompts), Once(q), NEW e
    PROVE  LET r == RemoveFirst(q, e)
           IN  /\ r \in Seq(Prompts) /\ Len(r) <= Len(q) /\ Once(r)
               /\ \A x : InQueue(r, x) <=> InQueue(q, x) /\ x # e
  <1>1. CASE ~\E i \in 1..Len(q) : q[i] = e
    <2>1. RemoveFirst(q, e) = q
      BY <1>1 DEF RemoveFirst
    <2>2. Len(q) \in Nat
      BY LenProperties
    <2>. QED
      BY <1>1, <2>1, <2>2 DEF InQueue
  <1>2. CASE \E i \in 1..Len(q) : q[i] = e
    <2>1. PICK k \in 1..Len(q) : q[k] = e
      BY <1>2
    <2>2. Len(q) \in Nat /\ \A i \in 1..Len(q) : q[i] \in Prompts
      BY LenProperties
    <2>3. {i \in 1..Len(q) : q[i] = e} = {k}
      BY <2>1 DEF Once
    <2>4. Min({k}) = k
      BY <2>2 DEF Min
    <2>5. RemoveFirst(q, e) = SubSeq(q, 1, k - 1) \o SubSeq(q, k + 1, Len(q))
      BY <1>2, <2>3, <2>4 DEF RemoveFirst, RemoveAt, SelectInSeq
    <2>. DEFINE r == SubSeq(q, 1, k - 1) \o SubSeq(q, k + 1, Len(q))
    <2>6. /\ r \in Seq(Prompts) /\ Len(r) = Len(q) - 1
          /\ \A i \in 1..Len(r) : r[i] = IF i < k THEN q[i] ELSE q[i + 1]
      <3>. DEFINE s == SubSeq(q, 1, k - 1)
                  t == SubSeq(q, k + 1, Len(q))
      <3>1. /\ s \in Seq(Prompts) /\ Len(s) = k - 1
            /\ \A i \in 1..k - 1 : s[i] = q[i]
        BY <2>2, SubSeqProperties
      <3>2. /\ t \in Seq(Prompts) /\ Len(t) = Len(q) - k
            /\ \A i \in 1..Len(q) - k : t[i] = q[i + k]
        BY <2>2, SubSeqProperties
      <3>. HIDE DEF s, t
      <3>3. /\ s \o t \in Seq(Prompts) /\ Len(s \o t) = Len(q) - 1
            /\ \A i \in 1..Len(q) - 1 : (s \o t)[i] = IF i <= k - 1 THEN s[i] ELSE t[i - (k - 1)]
        <4>1. /\ s \o t \in Seq(Prompts) /\ Len(s \o t) = Len(s) + Len(t)
              /\ \A i \in 1..Len(s) + Len(t) : (s \o t)[i] = IF i <= Len(s) THEN s[i] ELSE t[i - Len(s)]
          BY <3>1, <3>2, ConcatProperties
        <4>2. Len(s) = k - 1 /\ Len(s) + Len(t) = Len(q) - 1
          BY <2>2, <3>1, <3>2
        <4>. QED
          BY <4>1, <4>2
      <3>4. ASSUME NEW i \in 1..Len(q) - 1 PROVE (s \o t)[i] = IF i < k THEN q[i] ELSE q[i + 1]
        <4>1. CASE i < k
          <5>1. i \in 1..k - 1
            BY <4>1, <2>2
          <5>. QED
            BY <3>1, <3>3, <4>1, <5>1
        <4>2. CASE ~(i < k)
          <5>1. i - (k - 1) \in 1..Len(q) - k /\ i - (k - 1) + k = i + 1
            BY <4>2, <2>2
          <5>. QED
            BY <3>2, <3>3, <4>2, <5>1
        <4>. QED
          BY <4>1, <4>2
      <3>. QED
        BY <3>3, <3>4 DEF s, t
    <2>. HIDE DEF r
    <2>7. \A i \in 1..Len(r) : IF i < k THEN i \in 1..Len(q) ELSE i + 1 \in 1..Len(q)
      BY <2>2, <2>6
    <2>8. Once(r)
      <3>. SUFFICES ASSUME NEW i \in 1..Len(r), NEW j \in 1..Len(r), r[i] = r[j] PROVE i = j
        BY DEF Once
      <3>. DEFINE a == IF i < k THEN i ELSE i + 1
                  b == IF j < k THEN j ELSE j + 1
      <3>1. a \in 1..Len(q) /\ b \in 1..Len(q)
        BY <2>7
      <3>2. q[a] = q[b]
        BY <2>6
      <3>3. a = b
        BY <3>1, <3>2 DEF Once
      <3>4. i \in Nat /\ j \in Nat /\ k \in Nat
        BY <2>2, <2>6
      <3>. QED
        BY ONLY <3>3, <3>4
    <2>9. ASSUME NEW x PROVE InQueue(r, x) <=> InQueue(q, x) /\ x # e
      <3>1. ASSUME NEW i \in 1..Len(r), r[i] = x PROVE InQueue(q, x) /\ x # e
        <4>1. CASE i < k
          BY <2>1, <2>2, <2>6, <2>7, <3>1, <4>1 DEF InQueue, Once
        <4>2. CASE ~(i < k)
          <5>1. i + 1 \in 1..Len(q) /\ i + 1 # k /\ q[i + 1] = x
            BY <2>2, <2>6, <2>7, <3>1, <4>2
          <5>. QED
            BY <2>1, <5>1 DEF InQueue, Once
        <4>. QED
          BY <4>1, <4>2
      <3>2. ASSUME NEW i \in 1..Len(q), q[i] = x, x # e PROVE InQueue(r, x)
        <4>1. i # k
          BY <2>1, <3>2
        <4>2. CASE i < k
          <5>1. i \in 1..Len(r)
            BY <2>2, <2>6, <4>2
          <5>. QED
            BY <2>6, <3>2, <4>2, <5>1 DEF InQueue
        <4>3. CASE i > k
          <5>1. i - 1 \in 1..Len(r) /\ ~(i - 1 < k) /\ i - 1 + 1 = i
            BY <2>2, <2>6, <4>3
          <5>2. r[i - 1] = q[i]
            BY <2>6, <5>1
          <5>. QED
            BY <3>2, <5>1, <5>2 DEF InQueue
        <4>. QED
          BY <2>2, <4>1, <4>2, <4>3
      <3>. QED
        BY <3>1, <3>2 DEF InQueue
    <2>. QED
      <3>1. RemoveFirst(q, e) = r
        BY <2>5 DEF r
      <3>2. Len(r) <= Len(q) /\ r \in Seq(Prompts)
        BY <2>2, <2>6
      <3>. QED
        BY <2>8, <2>9, <3>1, <3>2
  <1>. QED
    BY <1>1, <1>2

LEMMA TrimmedFacts ==
    ASSUME NEW q \in Seq(Prompts), Once(q), Len(q) <= MaxOutstanding, NEW p \in Prompts, ~InQueue(q, p)
    PROVE  LET r == Trimmed(Append(q, p))
           IN  /\ r \in Seq(Prompts) /\ Len(r) <= MaxOutstanding /\ Once(r)
               /\ \A x : InQueue(r, x) => InQueue(q, x) \/ x = p
               /\ \/ Cardinality(Prompts) > MaxOutstanding
                  \/ \A x : InQueue(q, x) \/ x = p => InQueue(r, x)
  <1>. DEFINE a == Append(q, p)
  <1>1. /\ a \in Seq(Prompts) /\ Len(a) = Len(q) + 1 /\ Len(q) \in Nat
        /\ \A i \in 1..Len(q) : a[i] = q[i] /\ i \in 1..Len(a)
        /\ a[Len(q) + 1] = p /\ Len(q) + 1 \in 1..Len(a)
        /\ \A i \in 1..Len(a) : i \in 1..Len(q) \/ i = Len(q) + 1
    OBVIOUS
  <1>2. MaxOutstanding \in Nat
    BY SAAssumption
  <1>. HIDE DEF a
  <1>3. Once(a)
    <2>. SUFFICES ASSUME NEW i \in 1..Len(a), NEW j \in 1..Len(a), a[i] = a[j] PROVE i = j
      BY DEF Once
    <2>1. CASE i \in 1..Len(q) /\ j \in 1..Len(q)
      BY <1>1, <2>1 DEF Once
    <2>2. CASE i = Len(q) + 1 /\ j \in 1..Len(q)
      BY <1>1, <2>2 DEF InQueue
    <2>3. CASE j = Len(q) + 1 /\ i \in 1..Len(q)
      BY <1>1, <2>3 DEF InQueue
    <2>4. CASE i = Len(q) + 1 /\ j = Len(q) + 1
      BY <2>4
    <2>. QED
      BY <1>1, <2>1, <2>2, <2>3, <2>4
  <1>4. \A x : InQueue(a, x) <=> InQueue(q, x) \/ x = p
    BY <1>1 DEF InQueue
  <1>5. CASE Len(a) > MaxOutstanding
    <2>. DEFINE t == Tail(a)
    <2>1. a # <<>>
      BY <1>1
    <2>2. /\ t \in Seq(Prompts) /\ Len(t) = Len(a) - 1
          /\ \A i \in 1..Len(t) : t[i] = a[i + 1]
      BY <1>1, <2>1, HeadTailProperties
    <2>3. Trimmed(a) = t
      BY <1>5 DEF Trimmed
    <2>. HIDE DEF t
    <2>4. \A i \in 1..Len(t) : i + 1 \in 1..Len(a)
      BY <1>1, <2>2
    <2>5. Once(t)
      <3>. SUFFICES ASSUME NEW i \in 1..Len(t), NEW j \in 1..Len(t), t[i] = t[j] PROVE i = j
        BY DEF Once
      <3>1. i + 1 = j + 1
        BY <1>3, <2>2, <2>4 DEF Once
      <3>. QED
        BY <1>1, <2>2, <3>1
    <2>6. \A x : InQueue(t, x) => InQueue(q, x) \/ x = p
      BY <1>4, <2>2, <2>4 DEF InQueue
    <2>7. Len(t) <= MaxOutstanding
      BY <1>1, <2>2
    <2>8. Cardinality(Prompts) > MaxOutstanding
      <3>1. Len(a) <= Cardinality(Prompts) /\ Cardinality(Prompts) \in Nat
        BY <1>1, <1>3, OnceFits
      <3>. QED
        BY <1>1, <1>2, <1>5, <3>1
    <2>. QED
      BY <2>2, <2>3, <2>5, <2>6, <2>7, <2>8 DEF a
  <1>6. CASE ~(Len(a) > MaxOutstanding)
    <2>1. Trimmed(a) = a
      BY <1>6 DEF Trimmed
    <2>2. Len(a) <= MaxOutstanding
      BY <1>1, <1>2, <1>6
    <2>. QED
      BY <1>1, <1>3, <1>4, <2>1, <2>2 DEF a
  <1>. QED
    BY <1>5, <1>6

-----------------------------------------------------------------------------
\* The queue under the steps that leave it, append to it and take from it.
LEMMA ToldStays ==
    ASSUME SATypes, NEW p \in Prompts, NEW r, ~Tells(events, p), reply' = [reply EXCEPT ![p] = r]
    PROVE  \A i \in 1..Len(events) : events[i].type = "replied" => reply'[events[i].id] = reply[events[i].id]
  BY DEF SATypes, Tells

LEMMA QueueStays ==
    ASSUME QueueInv, events' = events, override' = override, lastTold' = lastTold,
           \A i \in 1..Len(events) : events[i].type = "replied" => reply'[events[i].id] = reply[events[i].id]
    PROVE  QueueInv'
  <1>1. RepliesAreTrue(events, reply')
    BY RepliesStayTrue DEF QueueInv
  <1>2. Orderly(events) /\ LastIs(events, override) /\ (Changes(events) \/ lastTold = override)
    BY DEF QueueInv
  <1>. QED
    BY <1>1, <1>2 DEF QueueInv, RepliesAreTrue, Orderly, LastIs, Changes

LEMMA QueueGrows ==
    ASSUME QueueInv, events \in Seq(SAEvent), NEW e \in SAEvent,
           events' = Append(events, e), lastTold' = lastTold,
           e.type = "asked" => ~Asks(events, e.id) /\ ~Tells(events, e.id),
           e.type = "replied" => ~Tells(events, e.id),
           e.type = "replied" => reply'[e.id] \in Finals /\ e.reply = Spoken(reply'[e.id]),
           \A i \in 1..Len(events) : events[i].type = "replied" => reply'[events[i].id] = reply[events[i].id],
           IF e.type = "updated" THEN override' = e.override ELSE override' = override
    PROVE  QueueInv'
  <1>1. Orderly(events) /\ RepliesAreTrue(events, reply) /\ LastIs(events, override)
        /\ (Changes(events) \/ lastTold = override)
    BY DEF QueueInv
  <1>2. Orderly(Append(events, e))
    BY <1>1, OrderAppended
  <1>3. RepliesAreTrue(events, reply')
    BY <1>1, RepliesStayTrue
  <1>4. RepliesAreTrue(Append(events, e), reply') /\ LastIs(Append(events, e), override')
    BY <1>1, <1>3, GrownIsTrue
  <1>5. Changes(Append(events, e)) <=> Changes(events) \/ e.type = "updated"
    BY QueueAppended
  <1>6. Changes(Append(events, e)) \/ lastTold' = override'
    BY <1>1, <1>5
  <1>. QED
    BY <1>2, <1>4, <1>6 DEF QueueInv, RepliesAreTrue, Orderly, LastIs, Changes

LEMMA QueueShrinks ==
    ASSUME QueueInv, events \in Seq(SAEvent), events # <<>>,
           events' = Tail(events), reply' = reply, override' = override,
           lastTold' = IF events[1].type = "updated" THEN events[1].override ELSE lastTold
    PROVE  QueueInv'
  <1>1. Orderly(events) /\ RepliesAreTrue(events, reply) /\ LastIs(events, override)
        /\ (Changes(events) \/ lastTold = override)
    BY DEF QueueInv
  <1>2. Orderly(Tail(events))
    BY <1>1, OrderPopped
  <1>3. /\ RepliesAreTrue(Tail(events), reply) /\ LastIs(Tail(events), override)
        /\ events[1].type = "updated" => Changes(Tail(events)) \/ events[1].override = override
    BY <1>1, RestIsTrue
  <1>4. Changes(events) <=> Changes(Tail(events)) \/ events[1].type = "updated"
    BY QueuePopped
  <1>5. Changes(Tail(events)) \/ lastTold' = override
    BY <1>1, <1>3, <1>4
  <1>. QED
    BY <1>2, <1>3, <1>5 DEF QueueInv, RepliesAreTrue, Orderly, LastIs, Changes

\* What the session is known to say under a step that tells no change.
LEMMA RulesStay ==
    ASSUME RulesInv, lastTold' = lastTold, Changes(events) => Changes(events'),
           sessionRules' = "silent" => sessionRules = "silent" \/ ~lastTold \/ Changes(events),
           \A q \in Prompts : handler'[q].pc = "got" => handler'[q] = handler[q]
    PROVE  RulesInv'
  <1>1. sessionRules' = "silent" => ~lastTold' \/ Changes(events')
    BY DEF RulesInv
  <1>2. ASSUME NEW q \in Prompts, handler'[q].pc = "got", ~handler'[q].stale, ~handler'[q].saw
        PROVE  ~lastTold' \/ Changes(events')
    BY <1>2 DEF RulesInv
  <1>. QED
    BY <1>1, <1>2 DEF RulesInv, Changes

\* A prompt a step does not touch, but for its request being forgotten among too
\* many.
Same(p) ==
    /\ reply'[p] = reply[p] /\ handler'[p].pc = handler[p].pc
    /\ Asks(events', p) <=> Asks(events, p)
    /\ Tells(events', p) <=> Tells(events, p)
    /\ InQueue(pending', p) => InQueue(pending, p)
    /\ InQueue(pending, p) => InQueue(pending', p) \/ Cardinality(Prompts) > MaxOutstanding
    /\ p \in autoReplied' => p \in autoReplied
    /\ p \in ledger' <=> p \in ledger
    /\ p \in tried' <=> p \in tried
    /\ p \in savedFor' <=> p \in savedFor
    /\ p \in users' <=> p \in users
    /\ p \in lost' <=> p \in lost

LEMMA SameStays ==
    ASSUME NEW p \in Prompts, StageInv(p), AnswerInv(p), Same(p)
    PROVE  StageInv(p)' /\ AnswerInv(p)'
  <1>1. /\ Asks(events, p)' <=> Asks(events', p)
        /\ Tells(events, p)' <=> Tells(events', p)
        /\ Remembered(p)' <=> InQueue(pending', p)
    BY DEF Asks, Tells, Remembered, InQueue
  <1>2. Remembered(p) <=> InQueue(pending, p)
    BY DEF Remembered
  <1>3. StageInv(p)'
    BY <1>1, <1>2 DEF StageInv, Same
  <1>4. AnswerInv(p)'
    BY <1>1 DEF AnswerInv, Same
  <1>. QED
    BY <1>3, <1>4

\* The parts of the invariant again, for a step of one prompt.
LEMMA OfOnePrompt ==
    ASSUME SAInv, SATypes', QueueInv', PendingInv', RulesInv', NEW p \in Prompts,
           StageInv(p)' /\ AnswerInv(p)',
           \A q \in Prompts \ {p} : Same(q)
    PROVE  SAInv'
  <1>1. ASSUME NEW q \in Prompts PROVE StageInv(q)' /\ AnswerInv(q)'
    <2>1. CASE q = p
      BY <2>1
    <2>2. CASE q # p
      <3>1. StageInv(q) /\ AnswerInv(q) /\ Same(q)
        BY <2>2 DEF SAInv
      <3>. QED
        BY <3>1, SameStays
    <2>. QED
      BY <2>1, <2>2
  <1>. QED
    BY <1>1 DEF SAInv

\* The parts of StageInv and AnswerInv in the next state, spelled out.
LEMMA StageNext ==
    ASSUME NEW p \in Prompts,
           NEW a \in BOOLEAN, NEW t \in BOOLEAN, NEW h \in BOOLEAN, NEW r, NEW c,
           r = reply'[p], c = handler'[p].pc,
           a <=> Asks(events', p), t <=> Tells(events', p), h <=> InQueue(pending', p),
           r \in {"none", "hook"} => ~a /\ ~h,
           r = "none" => c = "none",
           r = "hook" => c \in LookUps,
           a => c = "none" /\ ~h /\ r \in {"asked"} \cup UserReplies,
           c \in {"post"} \cup LookUps => r # "auto",
           c = "post" => r # "hook",
           c = "answered" => r = "auto",
           c = "refused" => r \in UserReplies,
           t => r \in Finals,
           r = "asked" \/ t => a \/ h \/ Cardinality(Prompts) > MaxOutstanding
    PROVE  StageInv(p)'
  <1>1. /\ Asks(events, p)' <=> Asks(events', p)
        /\ Tells(events, p)' <=> Tells(events', p)
        /\ Remembered(p)' <=> InQueue(pending', p)
    BY DEF Asks, Tells, Remembered, InQueue
  <1>. QED
    BY <1>1 DEF StageInv

\* Only its handler has moved.
LEMMA StageMoves ==
    ASSUME NEW p \in Prompts, StageInv(p), NEW c, c = handler'[p].pc, reply'[p] = reply[p],
           Asks(events', p) <=> Asks(events, p),
           Tells(events', p) <=> Tells(events, p),
           InQueue(pending', p) <=> Remembered(p),
           reply[p] = "none" => c = "none",
           reply[p] = "hook" => c \in LookUps,
           Asks(events, p) => c = "none",
           c \in {"post"} \cup LookUps => reply[p] # "auto",
           c = "post" => reply[p] # "hook",
           c = "answered" => reply[p] = "auto",
           c = "refused" => reply[p] \in UserReplies
    PROVE  StageInv(p)'
  <1>1. /\ Asks(events, p)' <=> Asks(events, p)
        /\ Tells(events, p)' <=> Tells(events, p)
        /\ Remembered(p)' <=> Remembered(p)
    BY DEF Asks, Tells, Remembered, InQueue
  <1>. QED
    BY <1>1 DEF StageInv

LEMMA AnswerNext ==
    ASSUME NEW p \in Prompts, NEW t \in BOOLEAN, NEW r, NEW c,
           r = reply'[p], c = handler'[p].pc, t <=> Tells(events', p),
           p \in autoReplied' \cup ledger' => p \in tried',
           c = "post" /\ r = "asked" => p \in ledger',
           r = "auto" /\ t => p \in ledger' \cup lost',
           p \in users' => r \in Finals,
           p \in users' /\ r = "auto" => p \in lost',
           p \in savedFor' => r = "always",
           r \in UserReplies => t \/ p \in users' \cup tried',
           r = "always" => t \/ p \in savedFor' \cup tried' \/ Cardinality(Prompts) > MaxOutstanding
    PROVE  AnswerInv(p)'
  <1>1. Tells(events, p)' <=> Tells(events', p)
    BY DEF Tells
  <1>. QED
    BY <1>1 DEF AnswerInv

\* The events of a prompt.
LEMMA EventTypes ==
    ASSUME NEW p \in Prompts
    PROVE  /\ AskedEvent(p) \in SAEvent /\ AskedEvent(p).type = "asked" /\ AskedEvent(p).id = p
           /\ \A r \in UserReplies : /\ Replied(p, r) \in SAEvent /\ Replied(p, r).type = "replied"
                                     /\ Replied(p, r).id = p /\ Replied(p, r).reply = r
           /\ \A o \in BOOLEAN : /\ Updated(o) \in SAEvent /\ Updated(o).type = "updated"
                                 /\ Updated(o).override = o
  BY DEF AskedEvent, Replied, Updated, SAEvent, UserReplies

\* A queue with one event more has the ids it should.
LEMMA IdsGrow ==
    ASSUME SATypes, NEW e \in SAEvent, e.type # "updated" => e.id \in Prompts,
           events' = Append(events, e)
    PROVE  /\ events' \in Seq(SAEvent)
           /\ \A i \in 1..Len(events') : events'[i].type # "updated" => events'[i].id \in Prompts
  BY QueueGrown DEF SATypes

LEMMA IdsShrink ==
    ASSUME SATypes, events # <<>>, events' = Tail(events)
    PROVE  /\ events' \in Seq(SAEvent)
           /\ \A i \in 1..Len(events') : events'[i].type # "updated" => events'[i].id \in Prompts
           /\ events[1] \in SAEvent /\ (events[1].type # "updated" => events[1].id \in Prompts)
  <1>1. /\ Tail(events) \in Seq(SAEvent) /\ Len(events) \in Nat /\ Len(events) > 0
        /\ \A i \in 1..Len(Tail(events)) : Tail(events)[i] = events[i + 1] /\ i + 1 \in 1..Len(events)
    BY QueueRest DEF SATypes
  <1>2. \A i \in 1..Len(Tail(events)) : Tail(events)[i].type # "updated" => Tail(events)[i].id \in Prompts
    BY <1>1 DEF SATypes
  <1>3. 1 \in 1..Len(events)
    BY <1>1
  <1>4. events[1] \in SAEvent
    BY <1>3, ElementOfSeq DEF SATypes
  <1>5. events[1].type # "updated" => events[1].id \in Prompts
    BY <1>3 DEF SATypes
  <1>. QED
    BY <1>1, <1>2, <1>4, <1>5

-----------------------------------------------------------------------------
\* The host, the user and the store.
LEMMA AskUserKeeps ==
    ASSUME SAInv, NEW p \in Prompts, AskUser(p)
    PROVE  SAInv'
  <1>1. /\ reply[p] = "none" /\ reply' = [reply EXCEPT ![p] = "asked"]
        /\ events' = Append(events, AskedEvent(p))
        /\ override' = override /\ allowed' = allowed /\ handler' = handler /\ pending' = pending
        /\ autoReplied' = autoReplied /\ ledger' = ledger /\ sessionRules' = sessionRules
        /\ lastTold' = lastTold /\ tried' = tried /\ savedFor' = savedFor /\ users' = users /\ lost' = lost
    BY DEF AskUser, Publish, plugin
  <1>. DEFINE e == AskedEvent(p)
  <1>2. e \in SAEvent /\ e.type = "asked" /\ e.id = p
    BY EventTypes
  <1>. HIDE DEF e
  <1>3. SATypes /\ QueueInv /\ PendingInv /\ RulesInv /\ StageInv(p) /\ AnswerInv(p)
    BY DEF SAInv
  <1>4. ~Asks(events, p) /\ ~Tells(events, p) /\ ~InQueue(pending, p) /\ handler[p].pc = "none"
    BY <1>1, <1>3 DEF StageInv, Finals, UserReplies, Remembered
  <1>5. /\ \A q : Asks(events', q) <=> Asks(events, q) \/ q = p
        /\ \A q : Tells(events', q) <=> Tells(events, q)
        /\ Changes(events') <=> Changes(events)
    <2>1. events' = Append(events, e) /\ events \in Seq(SAEvent)
      BY <1>1, <1>3 DEF SATypes, e
    <2>. QED
      BY <2>1, <1>2, QueueAppended
  <1>6. reply'[p] = "asked" /\ \A q \in Prompts \ {p} : reply'[q] = reply[q]
    BY <1>1, <1>3 DEF SATypes
  <1>7. SATypes'
    <2>1. events' \in Seq(SAEvent) /\ \A i \in 1..Len(events') : events'[i].type # "updated" => events'[i].id \in Prompts
      BY <1>1, <1>2, <1>3, IdsGrow DEF e
    <2>. QED
      BY <1>1, <1>3, <2>1 DEF SATypes
  <1>8. QueueInv'
    <2>1. \A i \in 1..Len(events) : events[i].type = "replied" => reply'[events[i].id] = reply[events[i].id]
      BY <1>1, <1>3, <1>4, ToldStays
    <2>2. events' = Append(events, e) /\ events \in Seq(SAEvent)
      BY <1>1, <1>3 DEF SATypes, e
    <2>. QED
      BY <1>1, <1>2, <1>3, <1>4, <2>1, <2>2, QueueGrows
  <1>9. PendingInv'
    BY <1>1, <1>3 DEF PendingInv, Once
  <1>10. RulesInv'
    BY <1>1, <1>3, <1>5, RulesStay
  <1>11. StageInv(p)'
    <2>1. Asks(events', p) /\ ~Tells(events', p) /\ ~InQueue(pending', p) /\ handler'[p].pc = "none"
      BY <1>1, <1>4, <1>5
    <2>. QED
      BY <1>6, <2>1, StageNext DEF LookUps
  <1>12. AnswerInv(p)'
    <2>1. ~Tells(events', p) /\ handler'[p].pc = "none"
      BY <1>1, <1>4, <1>5
    <2>2. p \in autoReplied' \cup ledger' => p \in tried'
      BY <1>1, <1>3 DEF AnswerInv
    <2>3. p \notin users' /\ p \notin savedFor'
      BY <1>1, <1>3 DEF AnswerInv, Finals, UserReplies
    <2>. QED
      BY <1>6, <2>1, <2>2, <2>3, AnswerNext DEF UserReplies
  <1>13. \A q \in Prompts \ {p} : Same(q)
    BY <1>1, <1>5, <1>6 DEF Same
  <1>. QED
    BY <1>7, <1>8, <1>9, <1>10, <1>11, <1>12, <1>13, OfOnePrompt

LEMMA AnswerKeeps ==
    ASSUME SAInv, NEW p \in Prompts, Answer(p)
    PROVE  SAInv'
  <1>1. PICK r \in UserReplies : reply' = [reply EXCEPT ![p] = r] /\ events' = Append(events, Replied(p, r))
    BY DEF Answer, Publish
  <1>2. /\ reply[p] = "asked"
        /\ override' = override /\ allowed' = allowed /\ handler' = handler /\ pending' = pending
        /\ autoReplied' = autoReplied /\ ledger' = ledger /\ sessionRules' = sessionRules
        /\ lastTold' = lastTold /\ tried' = tried /\ savedFor' = savedFor /\ users' = users /\ lost' = lost
    BY DEF Answer, plugin
  <1>. DEFINE e == Replied(p, r)
  <1>3. e \in SAEvent /\ e.type = "replied" /\ e.id = p /\ e.reply = r
    BY EventTypes
  <1>. HIDE DEF e
  <1>4. SATypes /\ QueueInv /\ PendingInv /\ RulesInv /\ StageInv(p) /\ AnswerInv(p)
    BY DEF SAInv
  <1>5. events' = Append(events, e) /\ events \in Seq(SAEvent)
    BY <1>1, <1>4 DEF SATypes, e
  <1>6. ~Tells(events, p)
    BY <1>2, <1>4 DEF StageInv, Finals, UserReplies
  <1>7. /\ \A q : Asks(events', q) <=> Asks(events, q)
        /\ \A q : Tells(events', q) <=> Tells(events, q) \/ q = p
        /\ Changes(events') <=> Changes(events)
    BY <1>3, <1>5, QueueAppended
  <1>8. reply'[p] = r /\ \A q \in Prompts \ {p} : reply'[q] = reply[q]
    BY <1>1, <1>4 DEF SATypes
  <1>9. SATypes'
    <2>1. events' \in Seq(SAEvent) /\ \A i \in 1..Len(events') : events'[i].type # "updated" => events'[i].id \in Prompts
      BY <1>3, <1>4, <1>5, IdsGrow
    <2>2. reply' \in [Prompts -> {"none", "hook", "asked"} \cup Finals]
      BY <1>1, <1>4 DEF SATypes, Finals
    <2>. QED
      BY <1>2, <1>4, <2>1, <2>2 DEF SATypes
  <1>10. QueueInv'
    <2>1. \A i \in 1..Len(events) : events[i].type = "replied" => reply'[events[i].id] = reply[events[i].id]
      BY <1>1, <1>4, <1>6, ToldStays
    <2>2. reply'[e.id] \in Finals /\ e.reply = Spoken(reply'[e.id])
      BY <1>3, <1>8 DEF Finals, Spoken, UserReplies
    <2>. QED
      BY <1>2, <1>3, <1>4, <1>5, <1>6, <2>1, <2>2, QueueGrows
  <1>11. PendingInv'
    BY <1>2, <1>4 DEF PendingInv, Once
  <1>12. RulesInv'
    BY <1>2, <1>4, <1>7, RulesStay
  <1>13. StageInv(p)'
    <2>1. /\ Asks(events', p) <=> Asks(events, p)
          /\ Tells(events', p)
          /\ InQueue(pending', p) <=> Remembered(p)
          /\ handler'[p].pc = handler[p].pc /\ reply'[p] = r
      BY <1>2, <1>7, <1>8 DEF Remembered
    <2>2. /\ Asks(events, p) => handler[p].pc = "none" /\ ~Remembered(p)
          /\ handler[p].pc # "answered"
          /\ Asks(events, p) \/ Remembered(p) \/ Cardinality(Prompts) > MaxOutstanding
      BY <1>2, <1>4 DEF StageInv, UserReplies
    <2>3. r \notin {"none", "hook", "auto", "asked"} /\ r \in Finals
      BY DEF UserReplies, Finals
    <2>. QED
      BY <2>1, <2>2, <2>3, StageNext
  <1>14. AnswerInv(p)'
    <2>1. Tells(events', p) /\ r # "auto" /\ r # "asked" /\ r \in Finals /\ reply'[p] = r
      BY <1>7, <1>8 DEF UserReplies, Finals
    <2>2. (p \in autoReplied' \cup ledger' => p \in tried') /\ p \notin savedFor'
      BY <1>2, <1>4 DEF AnswerInv
    <2>. QED
      BY <2>1, <2>2, AnswerNext
  <1>15. \A q \in Prompts \ {p} : Same(q)
    BY <1>2, <1>7, <1>8 DEF Same
  <1>. QED
    BY <1>9, <1>10, <1>11, <1>12, <1>13, <1>14, <1>15, OfOnePrompt

\* A step that touches no prompt.
LEMMA OfNoPrompt ==
    ASSUME SAInv, SATypes', QueueInv', PendingInv', RulesInv', \A q \in Prompts : Same(q)
    PROVE  SAInv'
  <1>1. ASSUME NEW q \in Prompts PROVE StageInv(q)' /\ AnswerInv(q)'
    <2>1. StageInv(q) /\ AnswerInv(q) /\ Same(q)
      BY DEF SAInv
    <2>. QED
      BY <2>1, SameStays
  <1>. QED
    BY <1>1 DEF SAInv

LEMMA EditSessionKeeps ==
    ASSUME SAInv, EditSession
    PROVE  SAInv'
  <1>1. /\ override' = ~override /\ events' = Append(events, Updated(~override))
        /\ reply' = reply /\ allowed' = allowed /\ handler' = handler /\ pending' = pending
        /\ autoReplied' = autoReplied /\ ledger' = ledger /\ sessionRules' = sessionRules
        /\ lastTold' = lastTold /\ tried' = tried /\ savedFor' = savedFor /\ users' = users /\ lost' = lost
    BY DEF EditSession, Publish, plugin
  <1>2. SATypes /\ QueueInv /\ PendingInv /\ RulesInv
    BY DEF SAInv
  <1>3. (~override) \in BOOLEAN /\ events \in Seq(SAEvent)
    <2>1. (~override) \in BOOLEAN
      OBVIOUS
    <2>2. events \in Seq(SAEvent)
      BY <1>2 DEF SATypes
    <2>. QED
      BY <2>1, <2>2
  <1>. DEFINE e == Updated(~override)
  <1>4. e \in SAEvent /\ e.type = "updated" /\ e.override = ~override
    <2>. DEFINE o == ~override
    <2>1. o \in BOOLEAN
      BY <1>3
    <2>. HIDE DEF o
    <2>2. Updated(o) \in SAEvent /\ Updated(o).type = "updated" /\ Updated(o).override = o
      BY <2>1 DEF Updated, SAEvent
    <2>. QED
      BY <2>2 DEF o
  <1>5. events' = Append(events, e)
    BY <1>1
  <1>. HIDE DEF e
  <1>6. /\ \A q : Asks(events', q) <=> Asks(events, q)
        /\ \A q : Tells(events', q) <=> Tells(events, q)
        /\ Changes(events')
    BY <1>3, <1>4, <1>5, QueueAppended
  <1>7. SATypes'
    <2>1. events' \in Seq(SAEvent) /\ \A i \in 1..Len(events') : events'[i].type # "updated" => events'[i].id \in Prompts
      BY <1>2, <1>4, <1>5, IdsGrow
    <2>2. override' \in BOOLEAN
      BY <1>1, <1>3
    <2>. QED
      BY <1>1, <1>2, <2>1, <2>2 DEF SATypes
  <1>8. QueueInv'
    <2>1. IF e.type = "updated" THEN override' = e.override ELSE override' = override
      BY <1>1, <1>4
    <2>. QED
      BY <1>1, <1>2, <1>3, <1>4, <1>5, <2>1, QueueGrows
  <1>9. PendingInv'
    BY <1>1, <1>2 DEF PendingInv, Once
  <1>10. RulesInv'
    BY <1>1, <1>2, <1>6, RulesStay
  <1>11. \A q \in Prompts : Same(q)
    BY <1>1, <1>6 DEF Same
  <1>. QED
    BY <1>7, <1>8, <1>9, <1>10, <1>11, OfNoPrompt

LEMMA EditStoreKeeps ==
    ASSUME SAInv, EditStore
    PROVE  SAInv'
  <1>1. /\ allowed' = ~allowed /\ override' = override /\ events' = events
        /\ reply' = reply /\ handler' = handler /\ pending' = pending
        /\ autoReplied' = autoReplied /\ ledger' = ledger /\ sessionRules' = sessionRules
        /\ lastTold' = lastTold /\ tried' = tried /\ savedFor' = savedFor /\ users' = users /\ lost' = lost
    BY DEF EditStore, plugin
  <1>2. SATypes /\ QueueInv /\ PendingInv /\ RulesInv
    BY DEF SAInv
  <1>3. allowed' \in BOOLEAN
    BY <1>1
  <1>4. SATypes'
    BY <1>1, <1>2, <1>3 DEF SATypes
  <1>5. QueueInv'
    BY <1>1, <1>2, QueueStays
  <1>6. PendingInv'
    BY <1>1, <1>2 DEF PendingInv, Once
  <1>7. RulesInv'
    BY <1>1, <1>2, RulesStay
  <1>8. \A q \in Prompts : Same(q)
    BY <1>1 DEF Same
  <1>. QED
    BY <1>4, <1>5, <1>6, <1>7, <1>8, OfNoPrompt

LEMMA CallHookKeeps ==
    ASSUME SAInv, NEW p \in Prompts, CallHook(p)
    PROVE  SAInv'
  <1>1. /\ reply[p] = "none" /\ reply' = [reply EXCEPT ![p] = "hook"]
        /\ handler' = [handler EXCEPT ![p].pc = "store"]
        /\ events' = events /\ override' = override /\ allowed' = allowed /\ pending' = pending
        /\ autoReplied' = autoReplied /\ ledger' = ledger /\ sessionRules' = sessionRules
        /\ lastTold' = lastTold /\ tried' = tried /\ savedFor' = savedFor /\ users' = users /\ lost' = lost
    BY DEF CallHook, plugin
  <1>2. SATypes /\ QueueInv /\ PendingInv /\ RulesInv /\ StageInv(p) /\ AnswerInv(p)
    BY DEF SAInv
  <1>3. ~Asks(events, p) /\ ~Tells(events, p) /\ ~InQueue(pending, p)
    BY <1>1, <1>2 DEF StageInv, Finals, UserReplies, Remembered
  <1>4. /\ reply'[p] = "hook" /\ handler'[p].pc = "store"
        /\ \A q \in Prompts \ {p} : reply'[q] = reply[q] /\ handler'[q] = handler[q]
    BY <1>1, <1>2 DEF SATypes, SAHandler
  <1>5. SATypes'
    <2>1. handler' \in [Prompts -> SAHandler]
      BY <1>1, <1>2 DEF SATypes, SAHandler, LookUps
    <2>2. reply' \in [Prompts -> {"none", "hook", "asked"} \cup Finals]
      BY <1>1, <1>2 DEF SATypes
    <2>. QED
      BY <1>1, <1>2, <2>1, <2>2 DEF SATypes
  <1>6. QueueInv'
    <2>1. \A i \in 1..Len(events) : events[i].type = "replied" => reply'[events[i].id] = reply[events[i].id]
      BY <1>1, <1>2, <1>3, ToldStays
    <2>. QED
      BY <1>1, <1>2, <2>1, QueueStays
  <1>7. PendingInv'
    BY <1>1, <1>2 DEF PendingInv, Once
  <1>8. RulesInv'
    <2>1. \A q \in Prompts : handler'[q].pc = "got" => handler'[q] = handler[q]
      BY <1>4
    <2>. QED
      BY <1>1, <1>2, <2>1, RulesStay
  <1>9. StageInv(p)'
    <2>1. ~Asks(events', p) /\ ~Tells(events', p) /\ ~InQueue(pending', p)
      BY <1>1, <1>3
    <2>. QED
      BY <1>4, <2>1, StageNext DEF LookUps
  <1>10. AnswerInv(p)'
    <2>1. ~Tells(events', p)
      BY <1>1, <1>3
    <2>2. p \in autoReplied' \cup ledger' => p \in tried'
      BY <1>1, <1>2 DEF AnswerInv
    <2>3. p \notin users' /\ p \notin savedFor'
      BY <1>1, <1>2 DEF AnswerInv, Finals, UserReplies
    <2>. QED
      BY <1>4, <2>1, <2>2, <2>3, AnswerNext DEF UserReplies
  <1>11. \A q \in Prompts \ {p} : Same(q)
    BY <1>1, <1>4 DEF Same
  <1>. QED
    BY <1>5, <1>6, <1>7, <1>8, <1>9, <1>10, <1>11, OfOnePrompt

LEMMA SessionIsReadKeeps ==
    ASSUME SAInv, NEW p \in Prompts, SessionIsRead(p)
    PROVE  SAInv'
  <1>1. /\ handler[p].pc = "get"
        /\ handler' = [handler EXCEPT ![p].pc = "got", ![p].saw = override]
        /\ reply' = reply /\ events' = events /\ override' = override /\ allowed' = allowed
        /\ pending' = pending /\ autoReplied' = autoReplied /\ ledger' = ledger
        /\ sessionRules' = sessionRules /\ lastTold' = lastTold /\ tried' = tried
        /\ savedFor' = savedFor /\ users' = users /\ lost' = lost
    BY DEF SessionIsRead, plugin
  <1>2. SATypes /\ QueueInv /\ PendingInv /\ RulesInv /\ StageInv(p) /\ AnswerInv(p)
    BY DEF SAInv
  <1>3. /\ handler'[p].pc = "got" /\ handler'[p].saw = override
        /\ \A q \in Prompts \ {p} : handler'[q] = handler[q]
    BY <1>1, <1>2 DEF SATypes, SAHandler
  <1>4. SATypes'
    <2>1. handler' \in [Prompts -> SAHandler]
      BY <1>1, <1>2 DEF SATypes, SAHandler, LookUps
    <2>. QED
      BY <1>1, <1>2, <2>1 DEF SATypes
  <1>5. QueueInv'
    BY <1>1, <1>2, QueueStays
  <1>6. PendingInv'
    BY <1>1, <1>2 DEF PendingInv, Once
  <1>7. RulesInv'
    <2>1. ~override => ~lastTold \/ Changes(events)
      BY <1>2 DEF QueueInv
    <2>2. ASSUME NEW q \in Prompts, handler'[q].pc = "got", ~handler'[q].stale, ~handler'[q].saw
          PROVE  ~lastTold \/ Changes(events)
      <3>1. CASE q = p
        BY <1>3, <2>1, <2>2, <3>1
      <3>2. CASE q # p
        BY <1>2, <1>3, <2>2, <3>2 DEF RulesInv
      <3>. QED
        BY <3>1, <3>2
    <2>3. sessionRules = "silent" => ~lastTold \/ Changes(events)
      BY <1>2 DEF RulesInv
    <2>. QED
      BY <1>1, <2>2, <2>3 DEF RulesInv, Changes
  <1>8. StageInv(p)'
    <2>1. /\ Asks(events', p) <=> Asks(events, p)
          /\ Tells(events', p) <=> Tells(events, p)
          /\ InQueue(pending', p) <=> Remembered(p)
          /\ reply'[p] = reply[p]
      BY <1>1 DEF Remembered
    <2>. QED
      BY <1>1, <1>2, <1>3, <2>1, StageNext DEF StageInv, LookUps
  <1>9. AnswerInv(p)'
    <2>1. Tells(events', p) <=> Tells(events, p)
      BY <1>1
    <2>. QED
      BY <1>1, <1>2, <1>3, <2>1, AnswerNext DEF AnswerInv
  <1>10. \A q \in Prompts \ {p} : Same(q)
    BY <1>1, <1>3 DEF Same
  <1>. QED
    BY <1>4, <1>5, <1>6, <1>7, <1>8, <1>9, <1>10, OfOnePrompt

-----------------------------------------------------------------------------
\* What a look-up comes to, with or without what it brought being cached.
LEMMA LeavesKeeps ==
    ASSUME SAInv, NEW p \in Prompts, handler[p].pc \in LookUps, Leaves(p),
           override' = override, allowed' = allowed, pending' = pending, lastTold' = lastTold,
           savedFor' = savedFor, users' = users, lost' = lost,
           sessionRules' \in {"unknown", "asks", "silent"},
           sessionRules' = "silent" => sessionRules = "silent" \/ ~lastTold \/ Changes(events)
    PROVE  SAInv'
  <1>1. /\ handler' = [handler EXCEPT ![p] = NoHandler]
        /\ autoReplied' = autoReplied /\ ledger' = ledger /\ tried' = tried
    BY DEF Leaves
  <1>2. SATypes /\ QueueInv /\ PendingInv /\ RulesInv /\ StageInv(p) /\ AnswerInv(p)
    BY DEF SAInv
  <1>3. /\ handler'[p].pc = "none"
        /\ \A q \in Prompts \ {p} : handler'[q] = handler[q]
        /\ handler' \in [Prompts -> SAHandler]
    BY <1>1, <1>2 DEF SATypes, SAHandler, NoHandler
  <1>4. PendingInv'
    BY <1>2 DEF PendingInv, Once
  <1>5. CASE reply[p] = "hook"
    <2>. DEFINE e == AskedEvent(p)
    <2>1. e \in SAEvent /\ e.type = "asked" /\ e.id = p
      BY EventTypes
    <2>2. reply' = [reply EXCEPT ![p] = "asked"] /\ events' = Append(events, e) /\ events \in Seq(SAEvent)
      BY <1>2, <1>5 DEF Leaves, SATypes
    <2>. HIDE DEF e
    <2>3. ~Asks(events, p) /\ ~Tells(events, p) /\ ~InQueue(pending, p)
      BY <1>2, <1>5 DEF StageInv, Finals, UserReplies, Remembered
    <2>4. /\ \A q : Asks(events', q) <=> Asks(events, q) \/ q = p
          /\ \A q : Tells(events', q) <=> Tells(events, q)
          /\ Changes(events') <=> Changes(events)
      BY <2>1, <2>2, QueueAppended
    <2>5. reply'[p] = "asked" /\ \A q \in Prompts \ {p} : reply'[q] = reply[q]
      BY <2>2, <1>2 DEF SATypes
    <2>6. SATypes'
      <3>1. events' \in Seq(SAEvent) /\ \A i \in 1..Len(events') : events'[i].type # "updated" => events'[i].id \in Prompts
        BY <1>2, <2>1, <2>2, IdsGrow
      <3>2. reply' \in [Prompts -> {"none", "hook", "asked"} \cup Finals]
        BY <1>2, <2>2 DEF SATypes
      <3>. QED
        BY <1>1, <1>2, <1>3, <3>1, <3>2 DEF SATypes
    <2>7. QueueInv'
      <3>1. \A i \in 1..Len(events) : events[i].type = "replied" => reply'[events[i].id] = reply[events[i].id]
        BY <1>2, <2>2, <2>3, ToldStays
      <3>. QED
        BY <1>2, <2>1, <2>2, <2>3, <3>1, QueueGrows
    <2>8. RulesInv'
      <3>1. \A q \in Prompts : handler'[q].pc = "got" => handler'[q] = handler[q]
        BY <1>3
      <3>. QED
        BY <1>2, <2>4, <3>1, RulesStay
    <2>9. StageInv(p)'
      <3>1. Asks(events', p) /\ ~Tells(events', p) /\ ~InQueue(pending', p)
        BY <2>3, <2>4
      <3>. QED
        BY <1>3, <2>5, <3>1, StageNext DEF LookUps
    <2>10. AnswerInv(p)'
      <3>1. ~Tells(events', p)
        BY <2>3, <2>4
      <3>2. (p \in autoReplied' \cup ledger' => p \in tried') /\ p \notin users' /\ p \notin savedFor'
        BY <1>1, <1>2, <1>5 DEF AnswerInv, Finals, UserReplies
      <3>. QED
        BY <1>3, <2>5, <3>1, <3>2, AnswerNext DEF UserReplies
    <2>11. \A q \in Prompts \ {p} : Same(q)
      BY <1>1, <1>3, <2>4, <2>5 DEF Same
    <2>. QED
      BY <1>4, <2>6, <2>7, <2>8, <2>9, <2>10, <2>11, OfOnePrompt
  <1>6. CASE reply[p] # "hook"
    <2>1. events' = events /\ reply' = reply
      BY <1>2, <1>6 DEF Leaves, SATypes
    <2>2. SATypes'
      BY <1>1, <1>2, <1>3, <2>1 DEF SATypes
    <2>3. QueueInv'
      BY <1>2, <2>1, QueueStays
    <2>4. RulesInv'
      <3>1. \A q \in Prompts : handler'[q].pc = "got" => handler'[q] = handler[q]
        BY <1>3
      <3>. QED
        BY <1>2, <2>1, <3>1, RulesStay
    <2>5. StageInv(p)'
      <3>1. /\ Asks(events', p) <=> Asks(events, p)
            /\ Tells(events', p) <=> Tells(events, p)
            /\ InQueue(pending', p) <=> Remembered(p)
            /\ reply'[p] = reply[p]
        BY <2>1 DEF Remembered
      <3>. QED
        BY <1>2, <1>3, <1>6, <3>1, StageMoves DEF LookUps
    <2>6. AnswerInv(p)'
      <3>1. Tells(events', p) <=> Tells(events, p)
        BY <2>1
      <3>. QED
        BY <1>1, <1>2, <1>3, <2>1, <3>1, AnswerNext DEF AnswerInv
    <2>7. \A q \in Prompts \ {p} : Same(q)
      BY <1>1, <1>3, <2>1 DEF Same
    <2>. QED
      BY <1>4, <2>2, <2>3, <2>4, <2>5, <2>6, <2>7, OfOnePrompt
  <1>. QED
    BY <1>5, <1>6

LEMMA ApprovesKeeps ==
    ASSUME SAInv, NEW p \in Prompts, handler[p].pc \in LookUps, Approves(p),
           override' = override, allowed' = allowed, pending' = pending, lastTold' = lastTold,
           savedFor' = savedFor, users' = users, lost' = lost,
           sessionRules' \in {"unknown", "asks", "silent"},
           sessionRules' = "silent" => sessionRules = "silent" \/ ~lastTold \/ Changes(events)
    PROVE  SAInv'
  <1>1. SATypes /\ QueueInv /\ PendingInv /\ RulesInv /\ StageInv(p) /\ AnswerInv(p)
    BY DEF SAInv
  <1>2. PendingInv'
    BY <1>1 DEF PendingInv, Once
  <1>3. events' = events
    BY DEF Approves
  <1>4. /\ Asks(events', p) <=> Asks(events, p)
        /\ Tells(events', p) <=> Tells(events, p)
        /\ InQueue(pending', p) <=> Remembered(p)
    BY <1>3 DEF Remembered
  <1>5. CASE reply[p] = "hook"
    <2>1. /\ handler' = [handler EXCEPT ![p] = NoHandler] /\ reply' = [reply EXCEPT ![p] = "auto"]
          /\ autoReplied' = autoReplied /\ ledger' = ledger /\ tried' = tried
      BY <1>5 DEF Approves
    <2>2. /\ handler'[p].pc = "none"
          /\ \A q \in Prompts \ {p} : handler'[q] = handler[q] /\ reply'[q] = reply[q]
          /\ handler' \in [Prompts -> SAHandler] /\ reply'[p] = "auto"
      BY <1>1, <2>1 DEF SATypes, SAHandler, NoHandler
    <2>3. ~Asks(events, p) /\ ~Tells(events, p) /\ ~Remembered(p)
      BY <1>1, <1>5 DEF StageInv, Finals, UserReplies
    <2>4. SATypes'
      <3>1. reply' \in [Prompts -> {"none", "hook", "asked"} \cup Finals]
        BY <1>1, <2>1 DEF SATypes, Finals
      <3>. QED
        BY <1>1, <1>3, <2>1, <2>2, <3>1 DEF SATypes
    <2>5. QueueInv'
      <3>1. \A i \in 1..Len(events) : events[i].type = "replied" => reply'[events[i].id] = reply[events[i].id]
        BY <1>1, <2>1, <2>3, ToldStays
      <3>. QED
        BY <1>1, <1>3, <3>1, QueueStays
    <2>6. RulesInv'
      <3>1. \A q \in Prompts : handler'[q].pc = "got" => handler'[q] = handler[q]
        BY <2>2
      <3>. QED
        BY <1>1, <1>3, <3>1, RulesStay
    <2>7. StageInv(p)'
      BY <1>4, <2>2, <2>3, StageNext DEF LookUps, Finals
    <2>8. AnswerInv(p)'
      <3>1. (p \in autoReplied' \cup ledger' => p \in tried') /\ p \notin users' /\ p \notin savedFor'
        BY <1>1, <1>5, <2>1 DEF AnswerInv, Finals, UserReplies
      <3>. QED
        BY <1>4, <2>2, <2>3, <3>1, AnswerNext DEF UserReplies
    <2>9. \A q \in Prompts \ {p} : Same(q)
      BY <1>3, <2>1, <2>2 DEF Same
    <2>. QED
      BY <1>2, <2>4, <2>5, <2>6, <2>7, <2>8, <2>9, OfOnePrompt
  <1>6. CASE reply[p] # "hook"
    <2>1. /\ handler' = [handler EXCEPT ![p] = [NoHandler EXCEPT !.pc = "post"]] /\ reply' = reply
          /\ autoReplied' = autoReplied \cup {p} /\ ledger' = ledger \cup {p} /\ tried' = tried \cup {p}
      BY <1>6 DEF Approves
    <2>2. /\ handler'[p].pc = "post"
          /\ \A q \in Prompts \ {p} : handler'[q] = handler[q] /\ reply'[q] = reply[q]
          /\ handler' \in [Prompts -> SAHandler] /\ reply'[p] = reply[p]
      BY <1>1, <2>1 DEF SATypes, SAHandler, NoHandler
    <2>3. /\ ~Asks(events, p) /\ reply[p] \notin {"none", "hook", "auto"}
          /\ Tells(events, p) => reply[p] \in Finals
          /\ reply[p] = "asked" \/ Tells(events, p) => Remembered(p) \/ Cardinality(Prompts) > MaxOutstanding
      BY <1>1, <1>6 DEF StageInv, LookUps
    <2>4. SATypes'
      <3>1. autoReplied' \in SUBSET Prompts /\ ledger' \in SUBSET Prompts /\ tried' \in SUBSET Prompts
        BY <1>1, <2>1 DEF SATypes
      <3>. QED
        BY <1>1, <1>3, <2>1, <2>2, <3>1 DEF SATypes
    <2>5. QueueInv'
      BY <1>1, <1>3, <2>1, QueueStays
    <2>6. RulesInv'
      <3>1. \A q \in Prompts : handler'[q].pc = "got" => handler'[q] = handler[q]
        <4>. SUFFICES ASSUME NEW q \in Prompts, handler'[q].pc = "got" PROVE handler'[q] = handler[q]
          OBVIOUS
        <4>1. q # p
          BY <2>2
        <4>. QED
          BY <2>2, <4>1
      <3>. QED
        BY <1>1, <1>3, <3>1, RulesStay
    <2>7. StageInv(p)'
      BY <1>1, <1>4, <2>2, <2>3, StageMoves DEF LookUps
    <2>8. AnswerInv(p)'
      <3>1. p \in tried' /\ p \in ledger' /\ savedFor' = savedFor /\ users' = users /\ lost' = lost
        BY <2>1
      <3>. QED
        BY <1>1, <1>4, <2>2, <3>1, AnswerNext DEF AnswerInv
    <2>9. \A q \in Prompts \ {p} : Same(q)
      BY <1>3, <2>1, <2>2 DEF Same
    <2>. QED
      BY <1>2, <2>4, <2>5, <2>6, <2>7, <2>8, <2>9, OfOnePrompt
  <1>. QED
    BY <1>5, <1>6

LEMMA ReadActiveStoreKeeps ==
    ASSUME SAInv, NEW p \in Prompts, ReadActiveStore(p)
    PROVE  SAInv'
  <1>1. /\ handler[p].pc = "store" /\ handler[p].pc \in LookUps
        /\ override' = override /\ allowed' = allowed /\ pending' = pending
        /\ sessionRules' = sessionRules /\ lastTold' = lastTold
        /\ savedFor' = savedFor /\ users' = users /\ lost' = lost
    BY DEF ReadActiveStore, LookUps
  <1>2. sessionRules' \in {"unknown", "asks", "silent"}
    BY <1>1 DEF SAInv, SATypes
  <1>3. \/ Leaves(p) \/ Approves(p)
        \/ /\ handler' = [handler EXCEPT ![p].pc = "get"]
           /\ UNCHANGED <<reply, events, autoReplied, ledger, tried>>
    BY DEF ReadActiveStore
  <1>4. CASE Leaves(p)
    BY <1>1, <1>2, <1>4, LeavesKeeps
  <1>5. CASE Approves(p)
    BY <1>1, <1>2, <1>5, ApprovesKeeps
  <1>6. CASE /\ handler' = [handler EXCEPT ![p].pc = "get"]
             /\ UNCHANGED <<reply, events, autoReplied, ledger, tried>>
    <2>1. /\ reply' = reply /\ events' = events /\ autoReplied' = autoReplied /\ ledger' = ledger
          /\ tried' = tried
      BY <1>6
    <2>2. SATypes /\ QueueInv /\ PendingInv /\ RulesInv /\ StageInv(p) /\ AnswerInv(p)
      BY DEF SAInv
    <2>3. /\ handler'[p].pc = "get"
          /\ \A q \in Prompts \ {p} : handler'[q] = handler[q]
          /\ handler' \in [Prompts -> SAHandler]
      BY <1>6, <2>2 DEF SATypes, SAHandler, LookUps
    <2>4. SATypes'
      BY <1>1, <2>1, <2>2, <2>3 DEF SATypes
    <2>5. QueueInv'
      BY <1>1, <2>1, <2>2, QueueStays
    <2>6. PendingInv'
      BY <1>1, <2>2 DEF PendingInv, Once
    <2>7. RulesInv'
      <3>1. \A q \in Prompts : handler'[q].pc = "got" => handler'[q] = handler[q]
        BY <2>3
      <3>. QED
        BY <1>1, <2>1, <2>2, <3>1, RulesStay
    <2>8. StageInv(p)'
      <3>1. /\ Asks(events', p) <=> Asks(events, p)
            /\ Tells(events', p) <=> Tells(events, p)
            /\ InQueue(pending', p) <=> Remembered(p)
            /\ reply'[p] = reply[p]
        BY <1>1, <2>1 DEF Remembered
      <3>. QED
        <4>1. ~Asks(events, p) /\ reply[p] \notin {"none", "auto"}
          BY <1>1, <2>2 DEF StageInv
        <4>. QED
          BY <2>2, <2>3, <3>1, <4>1, StageMoves DEF LookUps
    <2>9. AnswerInv(p)'
      <3>1. Tells(events', p) <=> Tells(events, p)
        BY <2>1
      <3>. QED
        BY <1>1, <2>1, <2>2, <2>3, <3>1, AnswerNext DEF AnswerInv
    <2>10. \A q \in Prompts \ {p} : Same(q)
      BY <1>1, <2>1, <2>3 DEF Same
    <2>. QED
      BY <2>4, <2>5, <2>6, <2>7, <2>8, <2>9, <2>10, OfOnePrompt
  <1>. QED
    BY <1>3, <1>4, <1>5, <1>6

LEMMA ResolveSessionRulesKeeps ==
    ASSUME SAInv, NEW p \in Prompts, ResolveSessionRules(p)
    PROVE  SAInv'
  <1>1. /\ handler[p].pc = "got" /\ handler[p].pc \in LookUps
        /\ override' = override /\ allowed' = allowed /\ pending' = pending
        /\ lastTold' = lastTold /\ savedFor' = savedFor /\ users' = users /\ lost' = lost
    BY DEF ResolveSessionRules, LookUps
  <1>2. /\ sessionRules \in {"unknown", "asks", "silent"}
        /\ ~handler[p].stale /\ ~handler[p].saw => ~lastTold \/ Changes(events)
    BY <1>1 DEF SAInv, SATypes, RulesInv
  <1>3. \/ /\ ~handler[p].stale
           /\ sessionRules' = IF handler[p].saw THEN "asks" ELSE "silent"
           /\ IF handler[p].saw THEN Leaves(p) ELSE Approves(p)
        \/ sessionRules' = sessionRules /\ Leaves(p)
    BY DEF ResolveSessionRules
  <1>4. CASE sessionRules' = sessionRules /\ Leaves(p)
    BY <1>1, <1>2, <1>4, LeavesKeeps
  <1>5. CASE ~handler[p].stale /\ handler[p].saw /\ sessionRules' = "asks" /\ Leaves(p)
    BY <1>1, <1>5, LeavesKeeps
  <1>6. CASE ~handler[p].stale /\ ~handler[p].saw /\ sessionRules' = "silent" /\ Approves(p)
    BY <1>1, <1>2, <1>6, ApprovesKeeps
  <1>. QED
    BY <1>3, <1>4, <1>5, <1>6

LEMMA AnswerArrivesKeeps ==
    ASSUME SAInv, NEW p \in Prompts, AnswerArrives(p)
    PROVE  SAInv'
  <1>1. /\ handler[p].pc = "post"
        /\ override' = override /\ allowed' = allowed /\ pending' = pending
        /\ autoReplied' = autoReplied /\ ledger' = ledger /\ sessionRules' = sessionRules
        /\ lastTold' = lastTold /\ tried' = tried /\ savedFor' = savedFor /\ users' = users /\ lost' = lost
    BY DEF AnswerArrives, plugin
  <1>2. SATypes /\ QueueInv /\ PendingInv /\ RulesInv /\ StageInv(p) /\ AnswerInv(p)
    BY DEF SAInv
  <1>3. PendingInv'
    BY <1>1, <1>2 DEF PendingInv, Once
  <1>4. CASE reply[p] = "asked"
    <2>. DEFINE e == Replied(p, "once")
    <2>1. e \in SAEvent /\ e.type = "replied" /\ e.id = p /\ e.reply = "once"
      BY EventTypes DEF UserReplies
    <2>2. /\ reply' = [reply EXCEPT ![p] = "auto"] /\ events' = Append(events, e)
          /\ handler' = [handler EXCEPT ![p].pc = "answered"] /\ events \in Seq(SAEvent)
      BY <1>2, <1>4 DEF AnswerArrives, Publish, SATypes
    <2>. HIDE DEF e
    <2>3. ~Tells(events, p) /\ ~Asks(events, p)
      BY <1>1, <1>2, <1>4 DEF StageInv, Finals, UserReplies
    <2>4. /\ \A q : Asks(events', q) <=> Asks(events, q)
          /\ \A q : Tells(events', q) <=> Tells(events, q) \/ q = p
          /\ Changes(events') <=> Changes(events)
      BY <2>1, <2>2, QueueAppended
    <2>5. /\ reply'[p] = "auto" /\ handler'[p].pc = "answered"
          /\ \A q \in Prompts \ {p} : reply'[q] = reply[q] /\ handler'[q] = handler[q]
          /\ handler' \in [Prompts -> SAHandler]
      BY <2>2, <1>2 DEF SATypes, SAHandler
    <2>6. SATypes'
      <3>1. events' \in Seq(SAEvent) /\ \A i \in 1..Len(events') : events'[i].type # "updated" => events'[i].id \in Prompts
        BY <1>2, <2>1, <2>2, IdsGrow
      <3>2. reply' \in [Prompts -> {"none", "hook", "asked"} \cup Finals]
        BY <1>2, <2>2 DEF SATypes, Finals
      <3>. QED
        BY <1>1, <1>2, <2>5, <3>1, <3>2 DEF SATypes
    <2>7. QueueInv'
      <3>1. \A i \in 1..Len(events) : events[i].type = "replied" => reply'[events[i].id] = reply[events[i].id]
        BY <1>2, <2>2, <2>3, ToldStays
      <3>2. reply'[e.id] \in Finals /\ e.reply = Spoken(reply'[e.id])
        BY <2>1, <2>5 DEF Finals, Spoken
      <3>. QED
        BY <1>1, <1>2, <2>1, <2>2, <2>3, <3>1, <3>2, QueueGrows
    <2>8. RulesInv'
      <3>1. \A q \in Prompts : handler'[q].pc = "got" => handler'[q] = handler[q]
        <4>. SUFFICES ASSUME NEW q \in Prompts, handler'[q].pc = "got" PROVE handler'[q] = handler[q]
          OBVIOUS
        <4>1. q # p
          BY <2>5
        <4>. QED
          BY <2>5, <4>1
      <3>. QED
        BY <1>1, <1>2, <2>4, <3>1, RulesStay
    <2>9. StageInv(p)'
      <3>1. ~Asks(events', p) /\ Tells(events', p) /\ (InQueue(pending', p) <=> Remembered(p))
        BY <1>1, <2>3, <2>4 DEF Remembered
      <3>2. Remembered(p) \/ Cardinality(Prompts) > MaxOutstanding
        BY <1>2, <1>4, <2>3 DEF StageInv
      <3>. QED
        BY <2>5, <3>1, <3>2, StageNext DEF LookUps, Finals
    <2>10. AnswerInv(p)'
      <3>1. Tells(events', p)
        BY <2>4
      <3>2. /\ p \in autoReplied' \cup ledger' => p \in tried'
            /\ p \notin users' /\ p \notin savedFor' /\ p \in ledger'
        BY <1>1, <1>2, <1>4 DEF AnswerInv, Finals, UserReplies
      <3>. QED
        BY <2>5, <3>1, <3>2, AnswerNext DEF UserReplies
    <2>11. \A q \in Prompts \ {p} : Same(q)
      BY <1>1, <2>4, <2>5 DEF Same
    <2>. QED
      BY <1>3, <2>6, <2>7, <2>8, <2>9, <2>10, <2>11, OfOnePrompt
  <1>5. CASE reply[p] # "asked"
    <2>1. handler' = [handler EXCEPT ![p].pc = "refused"] /\ reply' = reply /\ events' = events
      BY <1>5 DEF AnswerArrives
    <2>2. /\ handler'[p].pc = "refused" /\ reply'[p] = reply[p]
          /\ \A q \in Prompts \ {p} : reply'[q] = reply[q] /\ handler'[q] = handler[q]
          /\ handler' \in [Prompts -> SAHandler]
      BY <1>2, <2>1 DEF SATypes, SAHandler
    <2>3. reply[p] \in UserReplies
      BY <1>1, <1>2, <1>5 DEF StageInv, SATypes, Finals
    <2>4. SATypes'
      BY <1>1, <1>2, <2>1, <2>2 DEF SATypes
    <2>5. QueueInv'
      BY <1>1, <1>2, <2>1, QueueStays
    <2>6. RulesInv'
      <3>1. \A q \in Prompts : handler'[q].pc = "got" => handler'[q] = handler[q]
        <4>. SUFFICES ASSUME NEW q \in Prompts, handler'[q].pc = "got" PROVE handler'[q] = handler[q]
          OBVIOUS
        <4>1. q # p
          BY <2>2
        <4>. QED
          BY <2>2, <4>1
      <3>. QED
        BY <1>1, <1>2, <2>1, <3>1, RulesStay
    <2>7. /\ Asks(events', p) <=> Asks(events, p)
          /\ Tells(events', p) <=> Tells(events, p)
          /\ InQueue(pending', p) <=> Remembered(p)
      BY <1>1, <2>1 DEF Remembered
    <2>8. StageInv(p)'
      <3>1. ~Asks(events, p) /\ (Tells(events, p) => Remembered(p) \/ Cardinality(Prompts) > MaxOutstanding)
        BY <1>1, <1>2 DEF StageInv
      <3>2. reply[p] \notin {"none", "hook", "asked", "auto"} /\ reply[p] \in Finals
        BY <2>3 DEF UserReplies, Finals
      <3>. QED
        BY <2>2, <2>3, <2>7, <3>1, <3>2, StageNext DEF LookUps
    <2>9. AnswerInv(p)'
      BY <1>1, <1>2, <2>2, <2>7, AnswerNext DEF AnswerInv
    <2>10. \A q \in Prompts \ {p} : Same(q)
      BY <1>1, <2>1, <2>2 DEF Same
    <2>. QED
      BY <1>3, <2>4, <2>5, <2>6, <2>8, <2>9, <2>10, OfOnePrompt
  <1>. QED
    BY <1>4, <1>5

LEMMA AutoReplyKeeps ==
    ASSUME SAInv, NEW p \in Prompts, AutoReply(p)
    PROVE  SAInv'
  <1>1. PICK fails \in BOOLEAN :
            /\ handler[p].pc = "refused" => fails
            /\ lost' = IF handler[p].pc = "answered" /\ fails THEN lost \cup {p} ELSE lost
            /\ autoReplied' = IF fails THEN autoReplied \ {p} ELSE autoReplied
            /\ ledger' = IF fails THEN ledger \ {p} ELSE ledger
    BY DEF AutoReply
  <1>2. /\ handler[p].pc \in {"answered", "refused"}
        /\ handler' = [handler EXCEPT ![p] = NoHandler]
        /\ reply' = reply /\ override' = override /\ events' = events /\ allowed' = allowed
        /\ pending' = pending /\ sessionRules' = sessionRules /\ lastTold' = lastTold
        /\ tried' = tried /\ savedFor' = savedFor /\ users' = users
    BY DEF AutoReply
  <1>3. SATypes /\ QueueInv /\ PendingInv /\ RulesInv /\ StageInv(p) /\ AnswerInv(p)
    BY DEF SAInv
  <1>4. /\ handler'[p].pc = "none" /\ reply'[p] = reply[p]
        /\ \A q \in Prompts \ {p} : handler'[q] = handler[q]
        /\ handler' \in [Prompts -> SAHandler]
    BY <1>2, <1>3 DEF SATypes, SAHandler, NoHandler
  <1>5. autoReplied' \subseteq autoReplied /\ ledger' \subseteq ledger /\ lost \subseteq lost'
    BY <1>1
  <1>6. SATypes'
    <2>1. autoReplied' \in SUBSET Prompts /\ ledger' \in SUBSET Prompts /\ lost' \in SUBSET Prompts
      BY <1>1, <1>3 DEF SATypes
    <2>. QED
      BY <1>2, <1>3, <1>4, <2>1 DEF SATypes
  <1>7. QueueInv'
    BY <1>2, <1>3, QueueStays
  <1>8. PendingInv'
    BY <1>2, <1>3 DEF PendingInv, Once
  <1>9. RulesInv'
    <2>1. \A q \in Prompts : handler'[q].pc = "got" => handler'[q] = handler[q]
      BY <1>4
    <2>. QED
      BY <1>2, <1>3, <2>1, RulesStay
  <1>10. /\ Asks(events', p) <=> Asks(events, p)
         /\ Tells(events', p) <=> Tells(events, p)
         /\ InQueue(pending', p) <=> Remembered(p)
    BY <1>2 DEF Remembered
  <1>11. StageInv(p)'
    <2>1. reply[p] \notin {"none", "hook"}
      BY <1>2, <1>3 DEF StageInv, LookUps
    <2>. QED
      BY <1>3, <1>4, <1>10, <2>1, StageNext DEF StageInv, LookUps
  <1>12. AnswerInv(p)'
    <2>1. reply[p] = "auto" /\ Tells(events, p) => p \in ledger' \cup lost'
      <3>1. CASE handler[p].pc = "answered"
        BY <1>1, <1>3, <3>1 DEF AnswerInv
      <3>2. CASE handler[p].pc = "refused"
        BY <1>3, <3>2 DEF StageInv, UserReplies
      <3>. QED
        BY <1>2, <3>1, <3>2
    <2>. QED
      BY <1>2, <1>3, <1>4, <1>5, <1>10, <2>1, AnswerNext DEF AnswerInv
  <1>13. \A q \in Prompts \ {p} : Same(q)
    <2>. SUFFICES ASSUME NEW q \in Prompts \ {p} PROVE Same(q)
      OBVIOUS
    <2>1. (q \in ledger' <=> q \in ledger) /\ (q \in lost' <=> q \in lost)
      BY <1>1
    <2>. QED
      BY <1>2, <1>4, <1>5, <2>1 DEF Same
  <1>. QED
    BY <1>6, <1>7, <1>8, <1>9, <1>11, <1>12, <1>13, OfOnePrompt

-----------------------------------------------------------------------------
\* The events, in the order they were published.
LEMMA HandleUpdatedKeeps ==
    ASSUME SAInv, HandleUpdated
    PROVE  SAInv'
  <1>1. /\ events # <<>> /\ events[1].type = "updated" /\ events' = Tail(events)
        /\ sessionRules' = "unknown" /\ handler' = Invalidated /\ lastTold' = events[1].override
        /\ reply' = reply /\ override' = override /\ allowed' = allowed /\ pending' = pending
        /\ autoReplied' = autoReplied /\ ledger' = ledger /\ tried' = tried
        /\ savedFor' = savedFor /\ users' = users /\ lost' = lost
    BY DEF HandleUpdated
  <1>2. SATypes /\ QueueInv /\ PendingInv /\ RulesInv /\ events \in Seq(SAEvent)
    BY DEF SAInv, SATypes
  <1>3. /\ \A q : Asks(events', q) <=> Asks(events, q)
        /\ \A q : Tells(events', q) <=> Tells(events, q)
    BY <1>1, <1>2, QueuePopped
  <1>4. /\ handler' \in [Prompts -> SAHandler]
        /\ \A q \in Prompts : handler'[q].pc = handler[q].pc /\ (handler'[q].pc = "got" => handler'[q].stale)
    <2>. SUFFICES ASSUME NEW q \in Prompts
                  PROVE  /\ Invalidated[q] \in SAHandler /\ Invalidated[q].pc = handler[q].pc
                         /\ Invalidated[q].pc = "got" => Invalidated[q].stale
      BY <1>1 DEF Invalidated
    <2>1. handler[q] \in SAHandler
      BY <1>2 DEF SATypes
    <2>2. Invalidated[q] = IF handler[q].pc \in {"get", "got"} THEN [handler[q] EXCEPT !.stale = TRUE] ELSE handler[q]
      BY DEF Invalidated
    <2>. QED
      BY <2>1, <2>2 DEF SAHandler
  <1>5. SATypes'
    <2>1. /\ events' \in Seq(SAEvent) /\ \A i \in 1..Len(events') : events'[i].type # "updated" => events'[i].id \in Prompts
          /\ events[1] \in SAEvent
      BY <1>1, <1>2, IdsShrink
    <2>2. lastTold' \in BOOLEAN
      BY <1>1, <2>1 DEF SAEvent
    <2>. QED
      BY <1>1, <1>2, <1>4, <2>1, <2>2 DEF SATypes
  <1>6. QueueInv'
    BY <1>1, <1>2, QueueShrinks
  <1>7. PendingInv'
    BY <1>1, <1>2 DEF PendingInv, Once
  <1>8. RulesInv'
    BY <1>1, <1>4 DEF RulesInv
  <1>9. \A q \in Prompts : Same(q)
    BY <1>1, <1>3, <1>4 DEF Same
  <1>. QED
    BY <1>5, <1>6, <1>7, <1>8, <1>9, OfNoPrompt

LEMMA HandleAskedKeeps ==
    ASSUME SAInv, HandleAsked
    PROVE  SAInv'
  <1>0. events[1].id \in Prompts
    BY IdsShrink DEF HandleAsked, SAInv
  <1>p. PICK p \in Prompts : p = events[1].id
    BY <1>0
  <1>1. /\ events # <<>> /\ events[1].type = "asked" /\ events' = Tail(events)
        /\ pending' = Trimmed(Append(pending, p))
        /\ handler' = IF p \in autoReplied THEN handler ELSE [handler EXCEPT ![p].pc = "store"]
        /\ reply' = reply /\ override' = override /\ allowed' = allowed
        /\ autoReplied' = autoReplied /\ ledger' = ledger /\ sessionRules' = sessionRules
        /\ lastTold' = lastTold /\ tried' = tried /\ savedFor' = savedFor /\ users' = users /\ lost' = lost
    BY <1>p DEF HandleAsked
  <1>2. SATypes /\ QueueInv /\ PendingInv /\ RulesInv /\ events \in Seq(SAEvent) /\ Orderly(events)
    BY DEF SAInv, SATypes, QueueInv
  <1>3. /\ events' \in Seq(SAEvent) /\ \A i \in 1..Len(events') : events'[i].type # "updated" => events'[i].id \in Prompts
        /\ p \in Prompts
    BY <1>p, <1>1, <1>2, IdsShrink
  <1>4. /\ \A q : Asks(events, q) <=> Asks(events', q) \/ q = p
        /\ \A q : Tells(events, q) <=> Tells(events', q)
        /\ Changes(events) <=> Changes(events')
        /\ ~Asks(events', p)
    <2>1. events[1].type = "asked" => ~Asks(Tail(events), events[1].id)
      BY <1>1, <1>2, OrderPopped
    <2>. QED
      BY <1>p, <1>1, <1>2, <2>1, QueuePopped
  <1>5. QueueInv'
    BY <1>1, <1>2, QueueShrinks
  <1>6. StageInv(p) /\ AnswerInv(p)
    BY <1>3 DEF SAInv
  <1>7. /\ handler[p].pc = "none" /\ ~Remembered(p) /\ reply[p] \in {"asked"} \cup UserReplies
    BY <1>4, <1>6 DEF StageInv
  <1>8. /\ pending' \in Seq(Prompts) /\ Len(pending') <= MaxOutstanding /\ Once(pending')
        /\ \A x : InQueue(pending', x) => InQueue(pending, x) \/ x = p
        /\ \/ Cardinality(Prompts) > MaxOutstanding
           \/ \A x : InQueue(pending, x) \/ x = p => InQueue(pending', x)
    <2>1. pending \in Seq(Prompts) /\ Len(pending) <= MaxOutstanding /\ Once(pending) /\ ~InQueue(pending, p)
      BY <1>2, <1>7 DEF SATypes, PendingInv, Remembered
    <2>. QED
      BY <1>1, <1>3, <2>1, TrimmedFacts
  <1>9. /\ handler'[p].pc \in {"none", "store"}
        /\ \A q \in Prompts \ {p} : handler'[q] = handler[q]
        /\ handler' \in [Prompts -> SAHandler]
    <2>1. CASE p \in autoReplied
      BY <1>1, <1>2, <1>7, <2>1 DEF SATypes
    <2>2. CASE p \notin autoReplied
      BY <1>1, <1>2, <1>3, <2>2 DEF SATypes, SAHandler, LookUps
    <2>. QED
      BY <2>1, <2>2
  <1>10. SATypes'
    BY <1>1, <1>2, <1>3, <1>8, <1>9 DEF SATypes
  <1>11. PendingInv'
    BY <1>8 DEF PendingInv, Once
  <1>12. RulesInv'
    <2>1. \A q \in Prompts : handler'[q].pc = "got" => handler'[q] = handler[q]
      <3>. SUFFICES ASSUME NEW q \in Prompts, handler'[q].pc = "got" PROVE handler'[q] = handler[q]
        OBVIOUS
      <3>1. q # p
        BY <1>9
      <3>. QED
        BY <1>9, <3>1
    <2>. QED
      BY <1>1, <1>2, <1>4, <2>1, RulesStay
  <1>13. StageInv(p)'
    <2>1. /\ ~Asks(events', p)
          /\ Tells(events', p) <=> Tells(events, p)
          /\ InQueue(pending', p) \/ Cardinality(Prompts) > MaxOutstanding
          /\ reply'[p] = reply[p]
      BY <1>1, <1>4, <1>8
    <2>2. /\ reply[p] \notin {"none", "hook", "auto"}
          /\ Tells(events, p) => reply[p] \in Finals
      BY <1>6, <1>7 DEF StageInv, UserReplies
    <2>. QED
      BY <1>3, <1>9, <2>1, <2>2, StageNext, ZenonT(60) DEF LookUps
  <1>14. AnswerInv(p)'
    <2>1. Tells(events', p) <=> Tells(events, p)
      BY <1>4
    <2>2. handler'[p].pc # "post"
      BY <1>9
    <2>. QED
      BY <1>1, <1>3, <1>6, <2>1, <2>2, AnswerNext DEF AnswerInv
  <1>15. \A q \in Prompts \ {p} : Same(q)
    <2>. SUFFICES ASSUME NEW q \in Prompts \ {p} PROVE Same(q)
      OBVIOUS
    <2>1. /\ Asks(events', q) <=> Asks(events, q)
          /\ Tells(events', q) <=> Tells(events, q)
          /\ InQueue(pending', q) => InQueue(pending, q)
          /\ InQueue(pending, q) => InQueue(pending', q) \/ Cardinality(Prompts) > MaxOutstanding
      BY <1>4, <1>8
    <2>. QED
      BY <1>1, <1>9, <2>1 DEF Same
  <1>. QED
    BY <1>3, <1>5, <1>10, <1>11, <1>12, <1>13, <1>14, <1>15, OfOnePrompt

LEMMA HandleRepliedKeeps ==
    ASSUME SAInv, HandleReplied
    PROVE  SAInv'
  <1>0. events[1].id \in Prompts
    BY IdsShrink DEF HandleReplied, SAInv
  <1>p. PICK p \in Prompts : p = events[1].id
    BY <1>0
  <1>. DEFINE saves == /\ events[1].reply = "always"
                       /\ p \notin autoReplied
                       /\ \E i \in DOMAIN pending : pending[i] = p
  <1>1. /\ events # <<>> /\ events[1].type = "replied" /\ events' = Tail(events)
        /\ pending' = RemoveFirst(pending, p)
        /\ autoReplied' = autoReplied \ {p} /\ ledger' = ledger \ {p}
        /\ allowed' = (allowed \/ saves)
        /\ savedFor' = IF saves THEN savedFor \cup {p} ELSE savedFor
        /\ users' = IF p \in ledger THEN users ELSE users \cup {p}
        /\ reply' = reply /\ override' = override /\ handler' = handler /\ sessionRules' = sessionRules
        /\ lastTold' = lastTold /\ tried' = tried /\ lost' = lost
    BY <1>p DEF HandleReplied
  <1>2. /\ SATypes /\ QueueInv /\ PendingInv /\ RulesInv /\ events \in Seq(SAEvent)
        /\ Orderly(events) /\ RepliesAreTrue(events, reply) /\ LastIs(events, override)
    BY DEF SAInv, SATypes, QueueInv
  <1>3. /\ events' \in Seq(SAEvent) /\ \A i \in 1..Len(events') : events'[i].type # "updated" => events'[i].id \in Prompts
        /\ p \in Prompts
    BY <1>p, <1>1, <1>2, IdsShrink
  <1>4. /\ \A q : Asks(events, q) <=> Asks(events', q)
        /\ \A q : Tells(events, q) <=> Tells(events', q) \/ q = p
        /\ Changes(events) <=> Changes(events')
        /\ ~Tells(events', p) /\ ~Asks(events, p)
    <2>1. events[1].type = "replied" => ~Tells(Tail(events), events[1].id) /\ ~Asks(events, events[1].id)
      BY <1>1, <1>2, OrderPopped
    <2>. QED
      BY <1>p, <1>1, <1>2, <2>1, QueuePopped
  <1>5. reply[p] \in Finals /\ events[1].reply = Spoken(reply[p])
    BY <1>p, <1>1, <1>2, RestIsTrue
  <1>6. QueueInv'
    BY <1>1, <1>2, QueueShrinks
  <1>7. /\ pending' \in Seq(Prompts) /\ Len(pending') <= MaxOutstanding /\ Once(pending')
        /\ \A x : InQueue(pending', x) <=> InQueue(pending, x) /\ x # p
    <2>1. pending \in Seq(Prompts) /\ Len(pending) <= MaxOutstanding /\ Once(pending) /\ Len(pending) \in Nat
      BY <1>2, LenProperties DEF SATypes, PendingInv
    <2>2. /\ pending' \in Seq(Prompts) /\ Len(pending') <= Len(pending) /\ Once(pending')
          /\ \A x : InQueue(pending', x) <=> InQueue(pending, x) /\ x # p
      BY <1>1, <2>1, RemoveFirstFacts
    <2>3. MaxOutstanding \in Nat /\ Len(pending') \in Nat
      BY <2>2, SAAssumption, LenProperties
    <2>. QED
      BY <2>1, <2>2, <2>3
  <1>8. saves <=> reply[p] = "always" /\ p \notin autoReplied /\ Remembered(p)
    <2>1. events[1].reply = "always" <=> reply[p] = "always"
      BY <1>5 DEF Spoken
    <2>2. DOMAIN pending = 1..Len(pending)
      BY <1>2, LenProperties DEF SATypes
    <2>. QED
      BY <2>1, <2>2 DEF Remembered, InQueue
  <1>9. allowed' \in BOOLEAN
    BY <1>1
  <1>. HIDE DEF saves
  <1>10. StageInv(p) /\ AnswerInv(p) /\ Tells(events, p)
    BY <1>3, <1>4 DEF SAInv
  <1>11. SATypes'
    <2>1. /\ autoReplied' \in SUBSET Prompts /\ ledger' \in SUBSET Prompts
          /\ savedFor' \in SUBSET Prompts /\ users' \in SUBSET Prompts
      BY <1>1, <1>2, <1>3 DEF SATypes
    <2>. QED
      BY <1>1, <1>2, <1>3, <1>7, <1>9, <2>1 DEF SATypes
  <1>12. PendingInv'
    BY <1>7 DEF PendingInv, Once
  <1>13. RulesInv'
    BY <1>1, <1>2, <1>4, RulesStay
  <1>14. reply'[p] = reply[p] /\ handler'[p].pc = handler[p].pc /\ reply[p] \notin {"none", "hook", "asked"}
    BY <1>1, <1>5 DEF Finals, UserReplies
  <1>15. StageInv(p)'
    <2>1. ~Asks(events', p) /\ ~Tells(events', p) /\ ~InQueue(pending', p)
      BY <1>4, <1>7
    <2>2. /\ handler[p].pc \in {"post"} \cup LookUps => reply[p] # "auto"
          /\ handler[p].pc = "answered" => reply[p] = "auto"
          /\ handler[p].pc = "refused" => reply[p] \in UserReplies
      BY <1>10 DEF StageInv
    <2>. QED
      BY <1>3, <1>14, <2>1, <2>2, StageNext
  <1>16. AnswerInv(p)'
    <2>1. ~Tells(events', p)
      BY <1>4
    <2>2. p \in autoReplied' \cup ledger' => p \in tried'
      BY <1>1
    <2>3. p \in users' /\ reply[p] = "auto" => p \in lost'
      BY <1>1, <1>10 DEF AnswerInv
    <2>4. p \in savedFor' => reply[p] = "always"
      BY <1>1, <1>8, <1>10 DEF AnswerInv
    <2>5. p \in users' \cup tried'
      BY <1>1, <1>10 DEF AnswerInv
    <2>6. reply[p] = "always" => p \in savedFor' \cup tried' \/ Cardinality(Prompts) > MaxOutstanding
      <3>1. Remembered(p) \/ Cardinality(Prompts) > MaxOutstanding
        BY <1>4, <1>10 DEF StageInv
      <3>2. p \in autoReplied => p \in tried
        BY <1>10 DEF AnswerInv
      <3>. QED
        BY <1>1, <1>8, <3>1, <3>2
    <2>. QED
      BY <1>3, <1>5, <1>14, <2>1, <2>2, <2>3, <2>4, <2>5, <2>6, AnswerNext
  <1>17. \A q \in Prompts \ {p} : Same(q)
    <2>. SUFFICES ASSUME NEW q \in Prompts \ {p} PROVE Same(q)
      OBVIOUS
    <2>1. /\ Asks(events', q) <=> Asks(events, q)
          /\ Tells(events', q) <=> Tells(events, q)
          /\ InQueue(pending', q) <=> InQueue(pending, q)
      BY <1>4, <1>7
    <2>2. /\ q \in autoReplied' => q \in autoReplied
          /\ q \in ledger' <=> q \in ledger
          /\ q \in savedFor' <=> q \in savedFor
          /\ q \in users' <=> q \in users
      BY <1>1
    <2>. QED
      BY <1>1, <2>1, <2>2 DEF Same
  <1>. QED
    BY <1>3, <1>6, <1>11, <1>12, <1>13, <1>15, <1>16, <1>17, OfOnePrompt

-----------------------------------------------------------------------------
LEMMA RestHolds ==
    ASSUME SAInit
    PROVE  SAInv
  <1>1. /\ reply = [p \in Prompts |-> "none"] /\ override = FALSE /\ events = <<>> /\ pending = <<>>
        /\ autoReplied = {} /\ ledger = {} /\ sessionRules = "unknown"
        /\ handler = [p \in Prompts |-> NoHandler]
        /\ lastTold = FALSE /\ tried = {} /\ savedFor = {} /\ users = {} /\ lost = {}
        /\ allowed \in BOOLEAN
    BY DEF SAInit, SARest
  <1>2. Len(events) = 0 /\ Len(pending) = 0 /\ events \in Seq(SAEvent) /\ pending \in Seq(Prompts)
    BY <1>1, EmptySeq
  <1>3. 1..0 = {}
    OBVIOUS
  <1>4. SATypes
    <2>1. handler \in [Prompts -> SAHandler]
      BY <1>1 DEF NoHandler, SAHandler
    <2>2. reply \in [Prompts -> {"none", "hook", "asked"} \cup Finals]
      BY <1>1
    <2>3. Len(pending) <= MaxOutstanding
      BY <1>2, SAAssumption
    <2>4. \A i \in 1..Len(events) : events[i].type # "updated" => events[i].id \in Prompts
      BY <1>2, <1>3
    <2>. QED
      BY <1>1, <1>2, <2>1, <2>2, <2>3, <2>4 DEF SATypes
  <1>5. QueueInv
    BY <1>1, <1>2, <1>3 DEF QueueInv, Orderly, RepliesAreTrue, LastIs
  <1>6. PendingInv /\ RulesInv
    BY <1>1, <1>2, <1>3 DEF PendingInv, Once, RulesInv
  <1>7. ASSUME NEW p \in Prompts PROVE StageInv(p) /\ AnswerInv(p)
    <2>1. ~Asks(events, p) /\ ~Tells(events, p) /\ ~Remembered(p)
      BY <1>2, <1>3 DEF Asks, Tells, Remembered, InQueue
    <2>2. reply[p] = "none" /\ handler[p].pc = "none"
      BY <1>1 DEF NoHandler
    <2>3. StageInv(p)
      BY <2>1, <2>2 DEF StageInv, LookUps
    <2>4. AnswerInv(p)
      BY <1>1, <2>1, <2>2 DEF AnswerInv, UserReplies
    <2>. QED
      BY <2>3, <2>4
  <1>. QED
    BY <1>4, <1>5, <1>6, <1>7 DEF SAInv

LEMMA SAStepKeeps ==
    ASSUME SAInv, [SANext]_saVars
    PROVE  SAInv'
  <1>1. ASSUME NEW p \in Prompts, AskUser(p) PROVE SAInv'
    BY <1>1, AskUserKeeps
  <1>2. ASSUME NEW p \in Prompts, Answer(p) PROVE SAInv'
    BY <1>2, AnswerKeeps
  <1>3. ASSUME NEW p \in Prompts, CallHook(p) PROVE SAInv'
    BY <1>3, CallHookKeeps
  <1>4. ASSUME NEW p \in Prompts, ReadActiveStore(p) PROVE SAInv'
    BY <1>4, ReadActiveStoreKeeps
  <1>5. ASSUME NEW p \in Prompts, SessionIsRead(p) PROVE SAInv'
    BY <1>5, SessionIsReadKeeps
  <1>6. ASSUME NEW p \in Prompts, ResolveSessionRules(p) PROVE SAInv'
    BY <1>6, ResolveSessionRulesKeeps
  <1>7. ASSUME NEW p \in Prompts, AnswerArrives(p) PROVE SAInv'
    BY <1>7, AnswerArrivesKeeps
  <1>8. ASSUME NEW p \in Prompts, AutoReply(p) PROVE SAInv'
    BY <1>8, AutoReplyKeeps
  <1>9. CASE EditSession
    BY <1>9, EditSessionKeeps
  <1>10. CASE EditStore
    BY <1>10, EditStoreKeeps
  <1>11. CASE HandleAsked
    BY <1>11, HandleAskedKeeps
  <1>12. CASE HandleUpdated
    BY <1>12, HandleUpdatedKeeps
  <1>13. CASE HandleReplied
    BY <1>13, HandleRepliedKeeps
  <1>14. CASE UNCHANGED saVars
    <2>1. /\ reply' = reply /\ override' = override /\ events' = events /\ allowed' = allowed
          /\ pending' = pending /\ autoReplied' = autoReplied /\ ledger' = ledger
          /\ sessionRules' = sessionRules /\ handler' = handler /\ lastTold' = lastTold
          /\ tried' = tried /\ savedFor' = savedFor /\ users' = users /\ lost' = lost
      BY <1>14 DEF saVars
    <2>2. SATypes /\ QueueInv /\ PendingInv /\ RulesInv
      BY DEF SAInv
    <2>3. SATypes'
      BY <2>1, <2>2 DEF SATypes
    <2>4. QueueInv'
      BY <2>1, <2>2, QueueStays
    <2>5. PendingInv'
      BY <2>1, <2>2 DEF PendingInv, Once
    <2>6. RulesInv'
      BY <2>1, <2>2, RulesStay
    <2>7. \A q \in Prompts : Same(q)
      BY <2>1 DEF Same
    <2>. QED
      BY <2>3, <2>4, <2>5, <2>6, <2>7, OfNoPrompt
  <1>. QED
    BY <1>1, <1>2, <1>3, <1>4, <1>5, <1>6, <1>7, <1>8, <1>9, <1>10, <1>11, <1>12, <1>13, <1>14 DEF SANext

\* What the invariant says of the states.
LEMMA SAInvSays ==
    ASSUME SAInv
    PROVE  SATypeOK /\ AlwaysIsSaved /\ AnswersAreAttributed
  <1>1. SATypes /\ \A p \in Prompts : StageInv(p) /\ AnswerInv(p)
    BY DEF SAInv
  <1>2. DOMAIN pending = 1..Len(pending) /\ DOMAIN events = 1..Len(events)
    BY <1>1, LenProperties DEF SATypes
  <1>3. SATypeOK
    <2>1. \A i \in 1..Len(pending) : pending[i] \in Prompts
      BY <1>1, ElementOfSeq DEF SATypes
    <2>. QED
      BY <1>1, <1>2, <2>1 DEF SATypes, SATypeOK
  <1>4. ASSUME NEW p \in Prompts, Handled(p)
        PROVE  reply[p] \in UserReplies /\ ~Tells(events, p)
    BY <1>2, <1>4 DEF Handled, Tells
  <1>5. AlwaysIsSaved
    <2>1. savedFor \subseteq {p \in Prompts : reply[p] = "always"}
      BY <1>1 DEF SATypes, AnswerInv
    <2>2. ASSUME NEW p \in Prompts, reply[p] = "always", Handled(p)
          PROVE  p \in savedFor \cup tried \/ Cardinality(Prompts) > MaxOutstanding
      BY <1>1, <1>4, <2>2 DEF AnswerInv
    <2>. QED
      BY <2>1, <2>2 DEF AlwaysIsSaved
  <1>6. AnswersAreAttributed
    <2>1. ASSUME NEW p \in users, reply[p] = "auto" PROVE p \in lost
      BY <1>1, <2>1 DEF SATypes, AnswerInv
    <2>2. ASSUME NEW p \in Prompts, Handled(p) PROVE p \in users \cup tried
      BY <1>1, <1>4, <2>2 DEF AnswerInv
    <2>. QED
      BY <2>1, <2>2 DEF AnswersAreAttributed
  <1>. QED
    BY <1>3, <1>5, <1>6

\* A look-up approves only by rules that are silent.
LEMMA SilenceApproves ==
    ASSUME SAInv, lastTold, ~Changes(events), NEW p \in Prompts
    PROVE  /\ ReadActiveStore(p) => \/ Leaves(p)
                                    \/ handler' = [handler EXCEPT ![p].pc = "get"] /\ reply' = reply
           /\ ResolveSessionRules(p) => Leaves(p)
  <1>1. /\ sessionRules # "silent"
        /\ handler[p].pc = "got" => handler[p].stale \/ handler[p].saw
    BY DEF SAInv, RulesInv
  <1>2. ASSUME ReadActiveStore(p)
        PROVE  Leaves(p) \/ (handler' = [handler EXCEPT ![p].pc = "get"] /\ reply' = reply)
    BY <1>1, <1>2 DEF ReadActiveStore
  <1>3. ASSUME ResolveSessionRules(p) PROVE Leaves(p)
    BY <1>1, <1>3 DEF ResolveSessionRules
  <1>. QED
    BY <1>2, <1>3

LEMMA NoneIsApproved ==
    ASSUME SAInv, [SANext]_saVars, lastTold, ~Changes(events), NEW p \in Prompts
    PROVE  /\ handler'[p].pc = "post" => handler[p].pc = "post"
           /\ reply[p] = "hook" => reply'[p] # "auto"
  <1>. DEFINE Own == /\ handler'[p].pc = "post" => handler[p].pc = "post"
                     /\ reply[p] = "hook" => reply'[p] # "auto"
  <1>1. SATypes
    BY DEF SAInv
  <1>2. CASE handler' = handler /\ reply' = reply
    BY <1>2
  <1>3. ASSUME NEW q \in Prompts, NEW r, handler' = handler, reply' = [reply EXCEPT ![q] = r], r # "auto"
        PROVE  Own
    BY <1>1, <1>3 DEF SATypes
  <1>4. ASSUME NEW q \in Prompts, reply' = reply, NEW h, h.pc # "post", handler' = [handler EXCEPT ![q] = h]
        PROVE  Own
    BY <1>1, <1>4 DEF SATypes
  <1>5. ASSUME NEW q \in Prompts, AskUser(q) PROVE Own
    BY <1>3, <1>5 DEF AskUser
  <1>6. ASSUME NEW q \in Prompts, Answer(q) PROVE Own
    BY <1>3, <1>6 DEF Answer, UserReplies
  <1>7. ASSUME NEW q \in Prompts, CallHook(q) PROVE Own
    BY <1>1, <1>7 DEF CallHook, SATypes, SAHandler
  <1>8. ASSUME NEW q \in Prompts, Leaves(q) PROVE Own
    BY <1>1, <1>8 DEF Leaves, SATypes, NoHandler
  <1>9. ASSUME NEW q \in Prompts, handler' = [handler EXCEPT ![q].pc = "get"], reply' = reply PROVE Own
    BY <1>1, <1>9 DEF SATypes, SAHandler
  <1>10. ASSUME NEW q \in Prompts, ReadActiveStore(q) PROVE Own
    BY <1>8, <1>9, <1>10, SilenceApproves
  <1>11. ASSUME NEW q \in Prompts, ResolveSessionRules(q) PROVE Own
    BY <1>8, <1>11, SilenceApproves
  <1>12. ASSUME NEW q \in Prompts, SessionIsRead(q) PROVE Own
    BY <1>1, <1>12 DEF SessionIsRead, SATypes, SAHandler
  <1>13. ASSUME NEW q \in Prompts, AnswerArrives(q) PROVE Own
    BY <1>1, <1>13 DEF AnswerArrives, SATypes, SAHandler
  <1>14. ASSUME NEW q \in Prompts, AutoReply(q) PROVE Own
    BY <1>1, <1>14 DEF AutoReply, SATypes, NoHandler
  <1>15. CASE EditSession \/ EditStore
    BY <1>15 DEF EditSession, EditStore
  <1>16. CASE HandleReplied
    BY <1>16 DEF HandleReplied
  <1>17. CASE HandleAsked
    <2>1. handler' = IF events[1].id \in autoReplied THEN handler ELSE [handler EXCEPT ![events[1].id].pc = "store"]
      BY <1>17 DEF HandleAsked
    <2>2. reply' = reply
      BY <1>17 DEF HandleAsked
    <2>. QED
      BY <1>1, <2>1, <2>2 DEF SATypes, SAHandler
  <1>18. CASE HandleUpdated
    <2>1. Changes(events)
      <3>1. events # <<>> /\ events[1].type = "updated"
        BY <1>18 DEF HandleUpdated
      <3>. QED
        BY <1>1, <3>1, QueuePopped DEF SATypes
    <2>. QED
      BY <2>1
  <1>19. CASE UNCHANGED saVars
    BY <1>19 DEF saVars
  <1>. QED
    BY <1>5, <1>6, <1>7, <1>10, <1>11, <1>12, <1>13, <1>14, <1>15, <1>16, <1>17, <1>18, <1>19 DEF SANext

\* What the server half of persist-permissions does with a stored rule is what was
\* meant: no prompt is approved by it once the session is known to ask, what the
\* user answers for always is saved and nothing else is, and the plugin's own
\* answers and the user's are told apart; for any prompts and any interleaving of
\* handlers, events and lost responses.
THEOREM StoredRulesAreMeantHolds == SASpec => StoredRulesAreMeant
  <1>1. SAInit => SAInv
    BY RestHolds
  <1>2. SAInv /\ [SANext]_saVars => SAInv'
    BY SAStepKeeps
  <1>3. SAInv => SATypeOK /\ AlwaysIsSaved /\ AnswersAreAttributed
    BY SAInvSays
  <1>4. SAInv /\ [SANext]_saVars
        => [lastTold /\ ~(\E i \in DOMAIN events : events[i].type = "updated") =>
              \A p \in Prompts :
              /\ handler'[p].pc = "post" => handler[p].pc = "post"
              /\ reply[p] = "hook" => reply'[p] # "auto"]_saVars
    <2>. SUFFICES ASSUME SAInv, [SANext]_saVars,
                         lastTold, ~(\E i \in DOMAIN events : events[i].type = "updated"), NEW p \in Prompts
                  PROVE  /\ handler'[p].pc = "post" => handler[p].pc = "post"
                         /\ reply[p] = "hook" => reply'[p] # "auto"
      OBVIOUS
    <2>1. DOMAIN events = 1..Len(events)
      BY LenProperties DEF SAInv, SATypes
    <2>2. ~Changes(events)
      BY <2>1 DEF Changes
    <2>. QED
      BY <2>2, NoneIsApproved
  <1>. QED
    BY <1>1, <1>2, <1>3, <1>4, PTL DEF SASpec, StoredRulesAreMeant, OwnRulesWin
-----------------------------------------------------------------------------
(* The keying of a store                                                   *)

SKNames == Roots \cup {"none"}
SKKeys == [key : SKNames, root : SKNames, stale : SUBSET Roots, unkeyed : BOOLEAN, final : BOOLEAN]
SKTodos == {<<>>, <<"old">>, <<"dir", "old">>, <<"tree", "old">>, <<"tree", "dir", "old">>}
SKAccess == [pc : {"ready", "asks", "gate", "folds", "joins", "opened", "done"}, keys : SKKeys,
             todo : SKTodos, with : Accesses \cup {0}, owed : SUBSET Saves, steady : BOOLEAN]

\* Everything has its type.
SKTypes ==
    /\ setting \in [scope : {"repository", "worktree"}, named : BOOLEAN, repo : BOOLEAN]
    /\ git \in BOOLEAN
    /\ keying \in [root : SKNames, confirmed : BOOLEAN, verified : BOOLEAN, keyed : SUBSET Roots,
                   settled : SKKeys, refused : BOOLEAN, last : SKKeys]
    /\ attempt \in [pc : {"none", "tree", "primary", "confirm", "resolve"}, by : Accesses \cup {0},
                    key : {"none", "main"}, unkeyed : BOOLEAN]
    /\ due \in BOOLEAN /\ joined \in SUBSET Accesses
    /\ access \in [Accesses -> SKAccess]
    /\ memo \in [store : SKNames, by : Accesses \cup {0}]
    /\ file \in [Roots -> SUBSET (Saves \cup {CarveOut})]
    /\ legacy \in BOOLEAN /\ saved \in SUBSET Saves

\* The root is the directory until a work tree is confirmed, and the work tree from
\* then on; an attempt is under way only while nothing is settled.
SKRooted ==
    /\ keying.confirmed <=> keying.root = "tree"
    /\ keying.root # "main" /\ "main" \notin keying.keyed
    /\ "tree" \in keying.keyed => keying.root = "tree"
    /\ keying.verified => keying.confirmed /\ ~setting.named

\* How far an attempt has got.
SKAttempt ==
    /\ attempt.pc = "none" => attempt = NoAttempt
    /\ attempt.pc # "none" => /\ attempt.by \in Accesses /\ Unsettled
                              /\ setting.named => keying.confirmed
    /\ attempt.pc = "tree" => ~keying.confirmed
    /\ attempt.pc \in {"primary", "confirm"} => keying.confirmed /\ setting.scope = "repository"
    /\ attempt.pc = "confirm" => ~keying.verified
    /\ attempt.pc # "resolve" => attempt.key = "none"
    /\ attempt.key = "main" => keying.confirmed /\ setting.scope = "repository"
    /\ attempt.pc = "resolve" => keying.root # "none"
    /\ attempt.pc = "resolve" /\ keying.verified /\ setting.scope = "repository"
           => attempt.key = "main" \/ attempt.unkeyed

\* Those that wait for it.
SKWaiting ==
    /\ attempt.by \notin joined /\ (attempt = NoAttempt => joined = {})
    /\ \A a \in Accesses : access[a].pc = "asks" <=> a \in joined \/ a = attempt.by

\* Keys name every root that was used, and the shared store only if it was settled.
SKNamed(k) ==
    k # NoKeys =>
        /\ k.root \in keying.keyed /\ k.key \in {k.root, "main"} /\ k.key # "none"
        /\ k.key = "main" => keying.settled.key = "main" /\ k.root = "tree"
        /\ k.stale \subseteq {"dir"}
        /\ k.root = "tree" => keying.keyed \ {"tree"} \subseteq k.stale
        /\ k.root # "tree" => k.stale = {}

SKAnswers ==
    /\ keying.settled # NoKeys => /\ keying.settled = keying.last /\ keying.settled.final
                                  /\ ~keying.refused
    /\ SKNamed(keying.last)
    /\ keying.last # NoKeys /\ "tree" \in keying.keyed => keying.last.root = "tree"
    /\ \A a \in Accesses : SKNamed(access[a].keys)

Listed(todo) == {r \in Roots : \E i \in DOMAIN todo : todo[i] = r}

\* What an access holds at each stage, and what a pass still has to fold.
SKStage(a) ==
    /\ access[a].keys # NoKeys <=> access[a].pc \in {"gate", "folds", "joins", "opened"}
    /\ access[a].pc = "folds" => /\ access[a].todo # <<>>
                                 /\ access[a].keys.key # "main" => "tree" \notin Listed(access[a].todo)
                                 /\ access[a].keys.key \notin Listed(access[a].todo)
    /\ access[a].pc = "joins" => /\ access[a].with \in Accesses
                                 /\ access[access[a].with].pc = "folds"
                                 /\ access[access[a].with].keys.key = access[a].keys.key
                                 /\ access[access[a].with].owed = access[a].owed

SKStages ==
    /\ \A a \in Accesses : SKStage(a)
    /\ memo.by # 0 => /\ access[memo.by].pc = "folds"
                      /\ access[memo.by].keys.key = memo.store

\* Where saves are.
SKFiles ==
    /\ \A r \in Roots : file[r] \cap Saves # {} =>
           r \in keying.keyed \/ (r = "main" /\ keying.settled.key = "main")
    /\ file["main"] # {} => keying.settled.key = "main"
    /\ \A s \in saved : \E r \in Roots : s \in file[r]

\* A key that no newer one has replaced.
Current(k) ==
    /\ keying.settled # NoKeys => k = keying.settled.key
    /\ k = "dir" => "tree" \notin keying.keyed

\* What a pass owes is in its store or in what it has still to fold.
SKCovers(a) ==
    Current(access[a].keys.key) =>
        \A s \in access[a].owed :
           /\ access[a].pc = "folds" =>
                \E r \in {access[a].keys.key} \cup Listed(access[a].todo) : s \in file[r]
           /\ access[a].pc = "opened" => s \in file[access[a].keys.key]

SKCovered == \A a \in Accesses : SKCovers(a)

\* Beside an unreviewed store, a pass runs only for a store that exists.
SKReviewed ==
    legacy => /\ file["main"] = {}
              /\ \A a \in Accesses : access[a].pc \in {"folds", "joins", "opened"} =>
                    access[a].keys.key # "main" /\ (access[a].keys.key = "tree" => file["tree"] # {})

\* While git answers an attempt gets what it asks for.
SKSteady ==
    /\ \A a \in Accesses : access[a].pc = "asks" /\ access[a].steady => git
    /\ attempt.pc # "none" /\ access[attempt.by].steady /\ setting.repo =>
           /\ attempt.pc # "confirm"
           /\ attempt.pc = "resolve" => /\ keying.confirmed
                                        /\ setting.scope = "worktree" \/ attempt.key = "main"

SKInv == /\ SKTypes /\ SKRooted /\ SKAttempt /\ SKWaiting /\ SKAnswers /\ SKStages /\ SKFiles
         /\ SKCovered /\ SKReviewed /\ SKSteady /\ FallbacksAreMarked

SKParts == /\ SKRooted /\ SKAttempt /\ SKWaiting /\ SKAnswers /\ SKStages /\ SKFiles
           /\ SKCovered /\ SKReviewed /\ SKSteady /\ FallbacksAreMarked

LEMMA SKSplit == SKInv <=> SKTypes /\ SKParts
BY DEF SKInv, SKParts

\* What a list of candidates has still to fold, from its head on.
LEMMA TodoFacts ==
    /\ Listed(<<"old">>) = {} /\ Listed(<<"dir", "old">>) = {"dir"}
    /\ Listed(<<"tree", "old">>) = {"tree"} /\ Listed(<<"tree", "dir", "old">>) = {"tree", "dir"}
<1>1. DOMAIN <<"old">> = {1} /\ <<"old">>[1] = "old"
  OBVIOUS
<1>2. DOMAIN <<"dir", "old">> = {1, 2} /\ <<"dir", "old">>[1] = "dir" /\ <<"dir", "old">>[2] = "old"
  OBVIOUS
<1>3. DOMAIN <<"tree", "old">> = {1, 2} /\ <<"tree", "old">>[1] = "tree" /\ <<"tree", "old">>[2] = "old"
  OBVIOUS
<1>4. /\ DOMAIN <<"tree", "dir", "old">> = {1, 2, 3} /\ <<"tree", "dir", "old">>[1] = "tree"
      /\ <<"tree", "dir", "old">>[2] = "dir" /\ <<"tree", "dir", "old">>[3] = "old"
  OBVIOUS
<1>5. Listed(<<"old">>) = {}
  BY <1>1 DEF Listed, Roots
<1>6. Listed(<<"dir", "old">>) = {"dir"}
  BY <1>2 DEF Listed, Roots
<1>7. Listed(<<"tree", "old">>) = {"tree"}
  BY <1>3 DEF Listed, Roots
<1>8. Listed(<<"tree", "dir", "old">>) = {"tree", "dir"}
  BY <1>4 DEF Listed, Roots
<1>9. QED
  BY <1>5, <1>6, <1>7, <1>8

LEMMA TodoSteps ==
    ASSUME NEW t \in SKTodos, t # <<>>
    PROVE  /\ Head(t) = "old" => Listed(t) = {}
           /\ Head(t) # "old" => /\ Head(t) \in {"dir", "tree"}
                                 /\ Tail(t) \in SKTodos /\ Tail(t) # <<>>
                                 /\ Listed(t) = {Head(t)} \cup Listed(Tail(t))
<1>1. CASE t = <<"old">>
  BY <1>1, TodoFacts
<1>2. CASE t = <<"dir", "old">>
  <2>1. Head(t) = "dir" /\ Tail(t) = <<"old">>
    BY <1>2
  <2>2. QED
    BY <1>2, <2>1, TodoFacts DEF SKTodos
<1>3. CASE t = <<"tree", "old">>
  <2>1. Head(t) = "tree" /\ Tail(t) = <<"old">>
    BY <1>3
  <2>2. QED
    BY <1>3, <2>1, TodoFacts DEF SKTodos
<1>4. CASE t = <<"tree", "dir", "old">>
  <2>1. Head(t) = "tree" /\ Tail(t) = <<"dir", "old">>
    BY <1>4
  <2>2. QED
    BY <1>4, <2>1, TodoFacts DEF SKTodos
<1>5. QED
  BY <1>1, <1>2, <1>3, <1>4 DEF SKTodos

LEMMA ConcatNames ==
    /\ <<>> \o <<>> = <<>> /\ <<>> \o <<"dir">> = <<"dir">> /\ <<"tree">> \o <<>> = <<"tree">>
    /\ <<>> \o <<"old">> = <<"old">>
    /\ <<"dir">> \o <<"old">> = <<"dir", "old">> /\ <<"tree">> \o <<"old">> = <<"tree", "old">>
    /\ (<<"tree">> \o <<"dir">>) \o <<"old">> = <<"tree", "dir", "old">>
<1> DEFINE N == {"dir", "tree", "old"}
<1>1. /\ <<>> \in Seq(N) /\ <<"dir">> \in Seq(N) /\ <<"tree">> \in Seq(N) /\ <<"old">> \in Seq(N)
      /\ <<"dir", "old">> \in Seq(N) /\ <<"tree", "old">> \in Seq(N) /\ <<"tree", "dir">> \in Seq(N)
      /\ <<"tree", "dir", "old">> \in Seq(N)
  OBVIOUS
<1>2. ASSUME NEW x \in N, NEW y \in N PROVE <<x>> \o <<y>> = <<x, y>>
  <2>1. /\ <<x>> \in Seq(N) /\ <<y>> \in Seq(N) /\ <<x, y>> \in Seq(N) /\ Len(<<x>>) = 1 /\ Len(<<y>>) = 1
        /\ Len(<<x, y>>) = 2 /\ <<x>>[1] = x /\ <<y>>[1] = y /\ <<x, y>>[1] = x /\ <<x, y>>[2] = y
    OBVIOUS
  <2>2. /\ <<x>> \o <<y>> \in Seq(N) /\ Len(<<x>> \o <<y>>) = 2
        /\ \A i \in 1..2 : (<<x>> \o <<y>>)[i] = IF i <= 1 THEN <<x>>[i] ELSE <<y>>[i - 1]
    BY <2>1, ConcatProperties
  <2>3. \A i \in 1..2 : (<<x>> \o <<y>>)[i] = <<x, y>>[i]
    BY <2>1, <2>2
  <2>4. QED
    BY <2>1, <2>2, <2>3, SeqEqual
<1>3. <<"tree", "dir">> \o <<"old">> = <<"tree", "dir", "old">>
  <2> DEFINE s == <<"tree", "dir">> \o <<"old">>
  <2>1. s \in Seq(N) /\ Len(s) = 3
        /\ \A i \in 1..3 : s[i] = IF i <= 2 THEN <<"tree", "dir">>[i] ELSE <<"old">>[i - 2]
    <3>1. Len(<<"tree", "dir">>) = 2 /\ Len(<<"old">>) = 1
      OBVIOUS
    <3>2. QED
      BY <1>1, <3>1, ConcatProperties
  <2>2. Len(<<"tree", "dir", "old">>) = 3 /\ \A i \in 1..3 : s[i] = <<"tree", "dir", "old">>[i]
    BY <2>1
  <2>3. QED
    BY <1>1, <2>1, <2>2, SeqEqual
<1>4. QED
  BY <1>1, <1>2, <1>3, ConcatEmptySeq

LEMMA CandidateFacts ==
    ASSUME NEW k \in SKKeys,
           \/ k.root = "tree" /\ k.key \in {"tree", "main"}
           \/ k.root = "dir" /\ k.key = "dir" /\ "dir" \notin k.stale
    PROVE  /\ Candidates(k) \in SKTodos /\ Candidates(k) # <<>>
           /\ Listed(Candidates(k)) = ({k.root} \ {k.key}) \cup ({"dir"} \cap k.stale)
<1>a. (<<>> \o <<"dir">>) \o <<"old">> = <<"dir", "old">>
  BY ConcatNames
<1>b. (<<"tree">> \o <<"dir">>) \o <<"old">> = <<"tree", "dir", "old">>
  BY ConcatNames
<1>c. (<<"tree">> \o <<>>) \o <<"old">> = <<"tree", "old">>
  BY ConcatNames
<1>d. (<<>> \o <<>>) \o <<"old">> = <<"old">>
  BY ConcatNames
<1>1. CASE k.root = "tree" /\ k.key = "tree" /\ "dir" \in k.stale
  <2>1. Candidates(k) = <<"dir", "old">>
    BY <1>1, <1>a DEF Candidates
  <2>2. QED
    BY <1>1, <2>1, TodoFacts DEF SKTodos
<1>2. CASE k.root = k.key /\ "dir" \notin k.stale
  <2>1. Candidates(k) = <<"old">>
    BY <1>2, <1>d DEF Candidates
  <2>2. QED
    BY <1>2, <2>1, TodoFacts DEF SKTodos
<1>3. CASE k.root = "tree" /\ k.key # "tree" /\ "dir" \in k.stale
  <2>1. Candidates(k) = <<"tree", "dir", "old">>
    BY <1>3, <1>b DEF Candidates
  <2>2. QED
    BY <1>3, <2>1, TodoFacts DEF SKTodos
<1>4. CASE k.root = "tree" /\ k.key # "tree" /\ "dir" \notin k.stale
  <2>1. Candidates(k) = <<"tree", "old">>
    BY <1>4, <1>c DEF Candidates
  <2>2. QED
    BY <1>4, <2>1, TodoFacts DEF SKTodos
<1>5. QED
  BY <1>1, <1>2, <1>3, <1>4

\* What no access has, and what is fixed.
LEMMA SKFixed == /\ NoKeys \in SKKeys /\ Unmade \in SKAccess /\ Made \in SKAccess
                 /\ NoKeys.key = "none" /\ NoKeys.root = "none"
                 /\ Made.pc = "done" /\ Made.keys = NoKeys /\ Unmade.pc = "ready" /\ Unmade.keys = NoKeys
BY DEF SKKeys, SKNames, NoKeys, Unmade, Made, SKAccess, SKTodos

LEMMA SKInitially == SKInit => SKInv
<1> SUFFICES ASSUME SKInit PROVE SKInv
  OBVIOUS
<1> USE SKFixed
<1>1. SKTypes
  <2>1. access \in [Accesses -> SKAccess]
    BY DEF SKInit
  <2>2. keying \in [root : SKNames, confirmed : BOOLEAN, verified : BOOLEAN, keyed : SUBSET Roots,
                    settled : SKKeys, refused : BOOLEAN, last : SKKeys]
    BY DEF SKInit, SKNames
  <2>3. file \in [Roots -> SUBSET (Saves \cup {CarveOut})]
    BY DEF SKInit
  <2>4. QED
    BY <2>1, <2>2, <2>3 DEF SKInit, SKTypes, SKNames, NoAttempt, NoFold
<1>2. SKRooted /\ SKAttempt /\ FallbacksAreMarked
  BY DEF SKInit, SKRooted, SKAttempt, NoAttempt, FallbacksAreMarked
<1>3. SKWaiting
  BY SKAssumption DEF SKInit, SKWaiting, NoAttempt, Accesses
<1>4. SKAnswers
  BY DEF SKInit, SKAnswers, SKNamed
<1>5. SKStages
  BY DEF SKInit, SKStages, SKStage, NoFold
<1>6. SKFiles
  BY SKAssumption DEF SKInit, SKFiles, Roots, CarveOut
<1>7. SKCovered /\ SKReviewed /\ SKSteady
  BY DEF SKInit, SKCovered, SKCovers, SKReviewed, SKSteady, NoAttempt, Roots, Unmade
<1>8. QED
  BY <1>1, <1>2, <1>3, <1>4, <1>5, <1>6, <1>7 DEF SKInv

-----------------------------------------------------------------------------
\* What is known once answers and files are as they were, and the accesses that
\* moved were in no pass and are in none.
SKSame == /\ keying'.settled = keying.settled /\ keying'.last = keying.last
          /\ keying'.keyed = keying.keyed /\ keying'.refused = keying.refused

SKMoved(b) == \/ access'[b] = access[b]
              \/ /\ access[b].pc # "folds" /\ access'[b].pc \in {"asks", "gate", "done"}
                 /\ access'[b].keys # NoKeys <=> access'[b].pc = "gate"
                 /\ SKNamed(access'[b].keys)

LEMMA SKFrame ==
    ASSUME SKInv, SKSame, UNCHANGED <<memo, file, saved, legacy>>,
           \A b \in Accesses : SKMoved(b)
    PROVE  SKAnswers' /\ SKStages' /\ SKFiles' /\ SKCovered' /\ SKReviewed'
<1>1. ASSUME NEW k, SKNamed(k) PROVE SKNamed(k)'
  BY <1>1 DEF SKNamed, SKSame
<1>2. SKAnswers'
  <2>1. ASSUME NEW b \in Accesses PROVE SKNamed(access[b].keys)'
    <3>1. SKNamed(access'[b].keys)
      BY DEF SKMoved, SKInv, SKAnswers
    <3>2. QED
      BY <3>1 DEF SKNamed, SKSame
  <2>2. SKNamed(keying.last)'
    BY DEF SKInv, SKAnswers, SKNamed, SKSame
  <2>3. QED
    BY <2>1, <2>2 DEF SKInv, SKAnswers, SKSame
<1>3. SKStages'
  <2>1. ASSUME NEW b \in Accesses PROVE SKStage(b)'
    <3>1. CASE access'[b] = access[b]
      <4>1. access[b].pc = "joins" => access'[access[b].with] = access[access[b].with]
        BY DEF SKInv, SKStages, SKStage, SKMoved
      <4>2. QED
        BY <3>1, <4>1 DEF SKInv, SKStages, SKStage
    <3>2. CASE access'[b] # access[b]
      BY <3>2 DEF SKMoved, SKStage
    <3>3. QED
      BY <3>1, <3>2
  <2>2. memo.by # 0 => access'[memo.by] = access[memo.by]
    BY DEF SKInv, SKTypes, SKStages, SKMoved
  <2>3. QED
    BY <2>1, <2>2 DEF SKInv, SKStages
<1>4. SKFiles'
  BY DEF SKInv, SKFiles, SKSame
<1>5. SKCovered'
  <2>1. ASSUME NEW b \in Accesses PROVE SKCovers(b)'
    BY DEF SKInv, SKCovered, SKCovers, Current, SKSame, SKMoved
  <2>2. QED
    BY <2>1 DEF SKCovered
<1>6. SKReviewed'
  BY DEF SKInv, SKReviewed, SKMoved
<1>7. QED
  BY <1>2, <1>3, <1>4, <1>5, <1>6

\* What is known once the resolver is as it was.
LEMMA SKCore ==
    ASSUME SKInv, UNCHANGED <<setting, git, keying, attempt, joined>>,
           \A b \in Accesses : /\ access'[b].pc = "asks" <=> access[b].pc = "asks"
                               /\ access[b].pc = "asks" => access'[b].steady = access[b].steady
    PROVE  SKRooted' /\ SKAttempt' /\ SKWaiting' /\ SKSteady' /\ FallbacksAreMarked'
<1>1. SKRooted' /\ SKAttempt' /\ FallbacksAreMarked'
  BY DEF SKInv, SKRooted, SKAttempt, FallbacksAreMarked, Unsettled
<1>2. SKWaiting'
  BY DEF SKInv, SKWaiting
<1>3. attempt.pc # "none" => access'[attempt.by].steady = access[attempt.by].steady
  BY DEF SKInv, SKAttempt, SKWaiting
<1>4. SKSteady'
  BY <1>3 DEF SKInv, SKSteady
<1>5. QED
  BY <1>1, <1>2, <1>4

-----------------------------------------------------------------------------
\* The probes.
LEMMA SKProbeTree == SKInv /\ ProbeTree => SKInv'
<1> SUFFICES ASSUME SKInv, ProbeTree PROVE SKInv'
  OBVIOUS
<1>1. /\ attempt.pc = "tree" /\ ~keying.confirmed /\ ~setting.named /\ keying.root # "tree"
      /\ Unsettled /\ attempt.key = "none" /\ attempt.by \in Accesses
      /\ "tree" \notin keying.keyed /\ ~keying.verified
  BY DEF ProbeTree, SKInv, SKAttempt, SKRooted
<1>2. SKTypes'
  BY ZenonT(60) DEF ProbeTree, SKInv, SKTypes, SKNames, Roots
<1>3. /\ UNCHANGED <<setting, git, joined, access, memo, file, legacy, saved>> /\ SKSame
      /\ attempt'.by = attempt.by /\ attempt'.key = "none" /\ attempt'.unkeyed = attempt.unkeyed
      /\ attempt'.pc = IF Answers /\ setting.scope = "repository" THEN "primary" ELSE "resolve"
      /\ keying'.confirmed = Answers /\ keying'.verified = Answers
      /\ keying'.root = IF Answers THEN "tree" ELSE "dir"
  BY <1>1 DEF ProbeTree, SKInv, SKTypes, SKSame, Answers
<1>4. SKAnswers' /\ SKStages' /\ SKFiles' /\ SKCovered' /\ SKReviewed'
  BY <1>3, SKFrame DEF SKMoved
<1>5. SKRooted'
  BY <1>1, <1>3 DEF SKInv, SKRooted, SKSame
<1>6. Unsettled'
  BY <1>1, <1>3 DEF Unsettled, SKSame
<1>7. SKAttempt'
  BY <1>1, <1>3, <1>6 DEF SKInv, SKTypes, SKAttempt
<1>8. SKWaiting'
  <2>1. attempt # NoAttempt /\ attempt' # NoAttempt
    BY <1>1, <1>3 DEF NoAttempt
  <2>2. QED
    BY <1>3, <2>1 DEF SKInv, SKWaiting
<1>9. FallbacksAreMarked'
  <2>1. keying.last # NoKeys => keying.last.root # "tree"
    BY <1>1 DEF SKInv, SKAnswers, SKNamed
  <2>2. keying'.last.root # "tree"
    BY <1>3, <2>1, SKFixed DEF SKSame
  <2>3. QED
    BY <2>2 DEF FallbacksAreMarked
<1>10. SKSteady'
  <2>1. access[attempt.by].steady => git
    BY <1>1 DEF SKInv, SKSteady, SKWaiting
  <2>2. QED
    BY <1>1, <1>3, <2>1 DEF SKInv, SKTypes, SKSteady, Answers
<1>11. QED
  BY <1>2, <1>4, <1>5, <1>7, <1>8, <1>9, <1>10 DEF SKInv

LEMMA SKProbePrimary == SKInv /\ ProbePrimary => SKInv'
<1> SUFFICES ASSUME SKInv, ProbePrimary PROVE SKInv'
  OBVIOUS
<1>1. /\ attempt.pc = "primary" /\ keying.confirmed /\ setting.scope = "repository"
      /\ Unsettled /\ attempt.key = "none" /\ attempt.by \in Accesses /\ keying.root = "tree"
  BY DEF ProbePrimary, SKInv, SKAttempt, SKRooted
<1>2. SKTypes'
  BY ZenonT(60) DEF ProbePrimary, SKInv, SKTypes
<1>3. /\ UNCHANGED <<setting, git, keying, joined, access, memo, file, legacy, saved>> /\ SKSame
      /\ attempt'.by = attempt.by
      /\ \/ Answers /\ attempt'.pc = "resolve" /\ attempt'.key = "main"
         \/ ~Answers /\ keying.verified /\ attempt'.pc = "resolve" /\ attempt'.key = "none" /\ attempt'.unkeyed
         \/ ~Answers /\ ~keying.verified /\ attempt'.pc = "confirm" /\ attempt'.key = "none"
  BY <1>1 DEF ProbePrimary, SKInv, SKTypes, SKSame, KnownTree
<1>4. SKAnswers' /\ SKStages' /\ SKFiles' /\ SKCovered' /\ SKReviewed'
  BY <1>3, SKFrame DEF SKMoved
<1>5. SKRooted' /\ FallbacksAreMarked' /\ Unsettled'
  BY <1>1, <1>3 DEF SKInv, SKRooted, FallbacksAreMarked, Unsettled
<1>6. SKAttempt'
  BY <1>1, <1>3, <1>5 DEF SKInv, SKTypes, SKAttempt
<1>7. SKWaiting'
  <2>1. attempt # NoAttempt /\ attempt' # NoAttempt
    BY <1>1, <1>3 DEF NoAttempt
  <2>2. QED
    BY <1>3, <2>1 DEF SKInv, SKWaiting
<1>8. SKSteady'
  <2>1. access[attempt.by].steady => git
    BY <1>1 DEF SKInv, SKSteady, SKWaiting
  <2>2. QED
    BY <1>1, <1>3, <2>1 DEF SKInv, SKTypes, SKSteady, Answers
<1>9. QED
  BY <1>2, <1>4, <1>5, <1>6, <1>7, <1>8 DEF SKInv

LEMMA SKProbeAgain == SKInv /\ ProbeAgain => SKInv'
<1> SUFFICES ASSUME SKInv, ProbeAgain PROVE SKInv'
  OBVIOUS
<1>1. /\ attempt.pc = "confirm" /\ keying.confirmed /\ setting.scope = "repository"
      /\ Unsettled /\ attempt.key = "none" /\ attempt.by \in Accesses /\ keying.root = "tree"
      /\ ~keying.verified
  BY DEF ProbeAgain, SKInv, SKAttempt, SKRooted
<1>2. SKTypes'
  BY ZenonT(60) DEF ProbeAgain, SKInv, SKTypes, Answers
<1>3. /\ UNCHANGED <<setting, git, keying, joined, access, memo, file, legacy, saved>> /\ SKSame
      /\ attempt'.by = attempt.by /\ attempt'.pc = "resolve" /\ attempt'.key = "none"
  BY <1>1 DEF ProbeAgain, SKInv, SKTypes, SKSame
<1>4. SKAnswers' /\ SKStages' /\ SKFiles' /\ SKCovered' /\ SKReviewed'
  BY <1>3, SKFrame DEF SKMoved
<1>5. SKRooted' /\ FallbacksAreMarked' /\ Unsettled'
  BY <1>1, <1>3 DEF SKInv, SKRooted, FallbacksAreMarked, Unsettled
<1>6. SKAttempt'
  BY <1>1, <1>3, <1>5 DEF SKInv, SKTypes, SKAttempt
<1>7. SKWaiting'
  <2>1. attempt # NoAttempt /\ attempt' # NoAttempt
    BY <1>1, <1>3 DEF NoAttempt
  <2>2. QED
    BY <1>3, <2>1 DEF SKInv, SKWaiting
<1>8. SKSteady'
  BY <1>1, <1>3 DEF SKInv, SKSteady
<1>9. QED
  BY <1>2, <1>4, <1>5, <1>6, <1>7, <1>8 DEF SKInv

-----------------------------------------------------------------------------
\* Asking, and what an answer makes of an access.
LEMMA SKTakes ==
    ASSUME SKInv, NEW a \in Accesses, NEW k \in SKKeys, SKNamed(k), access[a].pc \in {"ready", "asks"}
    PROVE  /\ Answered(a, k) \in SKAccess
           /\ Answered(a, k).pc \in {"gate", "done"}
           /\ Answered(a, k).keys # NoKeys <=> Answered(a, k).pc = "gate"
           /\ Answered(a, k).keys = NoKeys \/ Answered(a, k).keys = k
           /\ Answered(a, k).pc = "gate" => Answered(a, k).keys = k
                                            /\ Answered(a, k).steady = access[a].steady
<1>1. access[a] \in SKAccess
  BY DEF SKInv, SKTypes
<1>2. CASE k = NoKeys \/ (k.unkeyed /\ a \in Reads)
  BY <1>2, SKFixed DEF Answered
<1>3. CASE ~(k = NoKeys \/ (k.unkeyed /\ a \in Reads))
  <2>1. Answered(a, k) = [access[a] EXCEPT !.pc = "gate", !.keys = k]
    BY <1>3 DEF Answered
  <2>2. QED
    BY <1>1, <1>3, <2>1 DEF SKAccess
<1>4. QED
  BY <1>2, <1>3

LEMMA SKSettles == SKInv => /\ SKNamed(keying.settled) /\ keying.settled \in SKKeys
                            /\ SKNamed(keying.last) /\ keying.last \in SKKeys
BY DEF SKInv, SKTypes, SKAnswers, SKNamed

LEMMA SKAsk == ASSUME SKInv, NEW a \in Accesses, Ask(a) PROVE SKInv'
<1>1. /\ access[a].pc = "ready" /\ access[a] \in SKAccess /\ access[a].keys = NoKeys /\ a # 0
      /\ UNCHANGED <<setting, git, memo, file, legacy, saved>>
  BY SKAssumption DEF Ask, SKInv, SKTypes, SKStages, SKStage, Accesses
<1> DEFINE asks == [Unmade EXCEPT !.pc = "asks", !.steady = git]
<1>2. asks \in SKAccess /\ asks.pc = "asks" /\ asks.keys = NoKeys /\ asks.steady = git
  BY SKFixed DEF SKInv, SKTypes, SKAccess, Unmade
<1>3. ASSUME NEW k \in SKKeys, SKNamed(k),
             access' = [access EXCEPT ![a] = [Answered(a, k) EXCEPT !.steady = git]],
             UNCHANGED <<keying, attempt, due, joined>>
      PROVE  SKInv'
  <2>1. /\ access'[a] \in SKAccess /\ access'[a].pc \in {"gate", "done"}
        /\ access'[a].keys # NoKeys <=> access'[a].pc = "gate"
        /\ access'[a].keys = NoKeys \/ access'[a].keys = k
    <3>1. Answered(a, k) \in SKAccess /\ git \in BOOLEAN
      BY <1>1, <1>3, SKTakes DEF SKInv, SKTypes
    <3>2. access'[a] = [Answered(a, k) EXCEPT !.steady = git]
      BY <1>3 DEF SKInv, SKTypes
    <3>3. QED
      BY <1>1, <1>3, <3>1, <3>2, SKTakes DEF SKAccess
  <2>2. \A b \in Accesses : b # a => access'[b] = access[b]
    BY <1>3 DEF SKInv, SKTypes
  <2>3. SKTypes'
    BY <1>1, <1>3, <2>1 DEF SKInv, SKTypes
  <2>4. \A b \in Accesses : SKMoved(b)
    BY <1>1, <1>3, <2>1, <2>2 DEF SKMoved, SKNamed
  <2>5. SKAnswers' /\ SKStages' /\ SKFiles' /\ SKCovered' /\ SKReviewed'
    BY <1>1, <1>3, <2>4, SKFrame DEF SKSame
  <2>6. SKRooted' /\ SKAttempt' /\ SKWaiting' /\ SKSteady' /\ FallbacksAreMarked'
    BY <1>1, <1>3, <2>1, <2>2, SKCore
  <2>7. QED
    BY <2>3, <2>5, <2>6 DEF SKInv
<1>4. ASSUME access' = [access EXCEPT ![a] = asks], SKSame
      PROVE  /\ SKAnswers' /\ SKStages' /\ SKFiles' /\ SKCovered' /\ SKReviewed'
             /\ access' \in [Accesses -> SKAccess] /\ access'[a] = asks
             /\ \A b \in Accesses : b # a => access'[b] = access[b]
  <2>1. /\ access'[a] = asks /\ access' \in [Accesses -> SKAccess]
        /\ \A b \in Accesses : b # a => access'[b] = access[b]
    BY <1>2, <1>4 DEF SKInv, SKTypes
  <2>2. \A b \in Accesses : SKMoved(b)
    BY <1>1, <1>2, <2>1 DEF SKMoved, SKNamed
  <2>3. QED
    BY <1>1, <1>4, <2>1, <2>2, SKFrame
<1>5. CASE ~Unsettled
  BY <1>3, <1>5, SKSettles DEF Ask
<1>6. CASE Unsettled /\ attempt # NoAttempt
  <2>1. /\ access' = [access EXCEPT ![a] = asks] /\ joined' = joined \cup {a}
        /\ UNCHANGED <<keying, attempt, due>>
    BY <1>6 DEF Ask
  <2>2. SKSame
    BY <2>1 DEF SKSame
  <2>3. SKTypes'
    BY <1>1, <1>4, <2>1, <2>2 DEF SKInv, SKTypes
  <2>4. SKRooted' /\ SKAttempt' /\ FallbacksAreMarked'
    BY <1>1, <2>1 DEF SKInv, SKRooted, SKAttempt, FallbacksAreMarked, Unsettled
  <2>5. attempt.by # a /\ attempt.pc # "none" /\ attempt.by \in Accesses
    BY <1>1, <1>6 DEF SKInv, SKAttempt, SKWaiting
  <2>6. SKWaiting'
    BY <1>2, <1>4, <1>6, <2>1, <2>2, <2>5 DEF SKInv, SKWaiting
  <2>7. SKSteady'
    BY <1>1, <1>2, <1>4, <2>1, <2>2, <2>5 DEF SKInv, SKSteady
  <2>8. QED
    BY <1>4, <2>1, <2>2, <2>3, <2>4, <2>6, <2>7 DEF SKInv
<1>7. CASE Unsettled /\ attempt = NoAttempt /\ (a \in Saves \/ due)
  <2>1. /\ access' = [access EXCEPT ![a] = asks] /\ UNCHANGED joined
        /\ attempt' = [NoAttempt EXCEPT !.pc = FirstProbe, !.by = a] /\ keying' = Named /\ due' = FALSE
    BY <1>7 DEF Ask, StartAttempt
  <2>2. /\ attempt'.pc = FirstProbe /\ attempt'.by = a /\ attempt'.key = "none"
        /\ attempt'.unkeyed = FALSE
        /\ FirstProbe \in {"primary", "resolve", "tree"}
    BY <2>1 DEF NoAttempt, FirstProbe
  <2>3. /\ SKSame /\ keying'.verified = keying.verified
        /\ keying'.confirmed = (keying.confirmed \/ setting.named)
        /\ keying'.root = IF ~keying.confirmed /\ setting.named THEN "tree" ELSE keying.root
    BY <2>1 DEF Named, SKSame, SKInv, SKTypes
  <2>4. SKTypes'
    <3>1. keying' \in [root : SKNames, confirmed : BOOLEAN, verified : BOOLEAN, keyed : SUBSET Roots,
                       settled : SKKeys, refused : BOOLEAN, last : SKKeys]
      BY <2>1 DEF Named, SKInv, SKTypes, SKNames, Roots
    <3>2. attempt' \in [pc : {"none", "tree", "primary", "confirm", "resolve"}, by : Accesses \cup {0},
                        key : {"none", "main"}, unkeyed : BOOLEAN]
      BY <2>1, <2>2 DEF NoAttempt
    <3>3. QED
      BY <1>1, <1>4, <2>1, <2>3, <3>1, <3>2 DEF SKInv, SKTypes
  <2>5. SKRooted'
    BY <1>1, <2>3 DEF SKInv, SKRooted, SKSame
  <2>6. Unsettled'
    BY <1>7, <2>3 DEF Unsettled, SKSame
  <2>7. SKAttempt'
    <3>1. FirstProbe = "tree" => ~keying.confirmed /\ ~setting.named
      BY DEF FirstProbe
    <3>2. FirstProbe = "primary" => /\ setting.scope = "repository"
                                    /\ keying.confirmed \/ setting.named
      BY DEF FirstProbe
    <3>3. FirstProbe = "resolve" => /\ setting.scope # "repository"
                                    /\ keying.confirmed \/ setting.named
      BY DEF FirstProbe
    <3>4. FirstProbe = "resolve" => keying'.root = "tree"
      BY <2>3, <3>3 DEF SKInv, SKRooted
    <3>5. QED
      BY <1>1, <2>2, <2>3, <2>6, <3>1, <3>2, <3>3, <3>4 DEF SKInv, SKTypes, SKAttempt
  <2>8. SKWaiting'
    <3>1. joined = {}
      BY <1>7 DEF SKInv, SKWaiting
    <3>2. attempt.by = 0 /\ \A b \in Accesses : b # 0
      BY <1>7, SKAssumption DEF NoAttempt, Accesses
    <3>3. \A b \in Accesses : access[b].pc # "asks"
      BY <3>1, <3>2 DEF SKInv, SKWaiting
    <3>4. QED
      BY <1>2, <1>4, <2>1, <2>2, <2>3, <3>1, <3>3 DEF SKWaiting
  <2>9. SKSteady'
    <3>1. FirstProbe = "resolve" => /\ setting.scope = "worktree"
                                    /\ keying.confirmed \/ setting.named
      BY DEF FirstProbe, SKInv, SKTypes
    <3>2. QED
      BY <1>1, <1>2, <1>4, <2>1, <2>2, <2>3, <3>1 DEF SKInv, SKSteady
  <2>10. FallbacksAreMarked'
    BY <1>1, <2>3 DEF SKInv, FallbacksAreMarked, SKSame
  <2>11. QED
    BY <1>4, <2>1, <2>3, <2>4, <2>5, <2>7, <2>8, <2>9, <2>10 DEF SKInv
<1>8. CASE Unsettled /\ attempt = NoAttempt /\ ~(a \in Saves \/ due)
  <2>1. /\ access' = [access EXCEPT ![a] = [Answered(a, keying.last) EXCEPT !.steady = git]]
        /\ UNCHANGED <<keying, attempt, due, joined>>
    BY <1>8 DEF Ask
  <2>2. QED
    BY <1>3, <2>1, SKSettles
<1>9. QED
  BY <1>5, <1>6, <1>7, <1>8

LEMMA SKLapse == SKInv /\ Lapse => SKInv'
<1> SUFFICES ASSUME SKInv, Lapse PROVE SKInv'
  OBVIOUS
<1>1. SKTypes'
  BY DEF Lapse, SKInv, SKTypes
<1>2. SKAnswers' /\ SKStages' /\ SKFiles' /\ SKCovered' /\ SKReviewed'
  BY SKFrame DEF Lapse, SKMoved, SKSame
<1>3. SKRooted' /\ SKAttempt' /\ SKWaiting' /\ SKSteady' /\ FallbacksAreMarked'
  BY SKCore DEF Lapse
<1>4. QED
  BY <1>1, <1>2, <1>3 DEF SKInv

-----------------------------------------------------------------------------
\* The end of an attempt.
LEMMA SKFinish == SKInv /\ Finish => SKInv'
<1> SUFFICES ASSUME SKInv, Finish PROVE SKInv'
  OBVIOUS
<1> DEFINE again == {a \in joined : Rejoins(a, Resolved.final)}
           given == {attempt.by} \cup (joined \ again)
<1>1. PICK trusted \in BOOLEAN, answer \in {Resolved, NoKeys} :
        /\ answer = IF trusted THEN Resolved ELSE NoKeys
        /\ access' = [a \in Accesses |-> IF a \in given THEN Answered(a, answer) ELSE access[a]]
        /\ keying' = [keying EXCEPT !.keyed = KeyedRoots, !.last = answer,
                          !.settled = IF Resolved.final THEN answer ELSE @,
                          !.refused = Resolved.final /\ ~trusted]
        /\ due' = FALSE
        /\ \/ again = {} /\ attempt' = NoAttempt /\ joined' = {}
           \/ \E a \in again : /\ attempt' = [NoAttempt EXCEPT !.pc = FirstProbe, !.by = a]
                               /\ joined' = again \ {a}
  BY DEF Finish
<1>2. attempt.pc = "resolve" /\ UNCHANGED <<setting, git, memo, file, legacy, saved>>
  BY DEF Finish
<1> HIDE DEF again, given
<1>3. /\ attempt.by \in Accesses /\ Unsettled /\ keying.root \in {"dir", "tree"}
      /\ setting.named => keying.confirmed
      /\ attempt.key = "main" => keying.root = "tree" /\ setting.scope = "repository"
      /\ keying.settled = NoKeys /\ keying.settled.key = "none"
  BY <1>2, SKFixed DEF SKInv, SKTypes, SKNames, Roots, SKAttempt, SKRooted, Unsettled
<1>4. /\ Resolved \in SKKeys /\ Resolved # NoKeys /\ Resolved.root = keying.root
      /\ Resolved.key = IF attempt.key = "main" THEN "main" ELSE keying.root
      /\ Resolved.stale = KeyedRoots \ {Resolved.root, Resolved.key}
      /\ Resolved.unkeyed = attempt.unkeyed
      /\ Resolved.final = (keying.confirmed /\ (setting.scope = "worktree" \/ attempt.key = "main"))
  <2>1. KeyedRoots \subseteq Roots
    BY <1>3 DEF KeyedRoots, SKInv, SKTypes, Roots
  <2>2. QED
    BY <1>3, <2>1 DEF Resolved, SKInv, SKTypes, SKKeys, SKNames, NoKeys, Roots
<1>5. answer \in SKKeys
  BY <1>4, SKFixed
<1>6. /\ keying'.keyed = keying.keyed \cup {keying.root} /\ keying'.last = answer
      /\ keying'.settled = (IF Resolved.final THEN answer ELSE NoKeys)
      /\ keying'.refused = (Resolved.final /\ ~trusted)
      /\ keying'.root = keying.root /\ keying'.confirmed = keying.confirmed
      /\ keying'.verified = keying.verified
  BY <1>1, <1>3 DEF SKInv, SKTypes, KeyedRoots
<1>7. given \subseteq Accesses /\ again \subseteq joined /\ again \cap given = {}
      /\ \A a \in Accesses : access[a].pc = "asks" <=> a \in given \/ a \in again
  BY <1>3 DEF SKInv, SKTypes, SKWaiting, given, again
<1>8. ASSUME NEW k, SKNamed(k) PROVE SKNamed(k)' /\ k.key # "main"
  <2>1. k.key # "main" 
    BY <1>3, <1>8, SKFixed DEF SKNamed
  <2>2. k # NoKeys /\ k.root = "tree" => keying.root = "tree"
    BY <1>8 DEF SKNamed, SKInv, SKRooted
  <2>3. QED
    BY <1>6, <1>8, <2>1, <2>2 DEF SKNamed
<1>9. SKNamed(answer)'
  <2>1. CASE ~trusted
    BY <1>1, <2>1 DEF SKNamed
  <2>2. CASE trusted
    <3>1. answer = Resolved
      BY <1>1, <2>2
    <3>2. KeyedRoots = keying.keyed \cup {keying.root} /\ keying.keyed \subseteq {"dir", "tree"}
      BY DEF KeyedRoots, SKInv, SKRooted, SKTypes, Roots
    <3>3. Resolved.key = "main" => keying'.settled.key = "main" /\ Resolved.root = "tree"
      BY <1>3, <1>4, <1>6, <3>1 DEF SKInv, SKRooted
    <3>4. Resolved.stale \subseteq {"dir"}
      BY <1>3, <1>4, <3>2 DEF SKInv, SKRooted
    <3>5. Resolved.root = "tree" => keying'.keyed \ {"tree"} \subseteq Resolved.stale
      BY <1>3, <1>4, <1>6, <3>2
    <3>6. Resolved.root # "tree" => Resolved.stale = {}
      BY <1>3, <1>4, <3>2 DEF SKInv, SKRooted
    <3>7. QED
      BY <1>3, <1>4, <1>6, <3>1, <3>3, <3>4, <3>5, <3>6 DEF SKNamed
  <2>3. QED
    BY <2>1, <2>2
<1>10. ASSUME NEW a \in Accesses
       PROVE  /\ access'[a] \in SKAccess
              /\ \/ access'[a] = access[a] /\ a \notin given
                 \/ /\ a \in given /\ access'[a].pc \in {"gate", "done"} /\ access[a].pc = "asks"
                    /\ access'[a].keys # NoKeys <=> access'[a].pc = "gate"
                    /\ access'[a].keys = NoKeys \/ access'[a].keys = answer
  <2>1. CASE a \notin given
    BY <1>1, <2>1 DEF SKInv, SKTypes
  <2>2. CASE a \in given
    <3>1. access'[a] = Answered(a, answer) /\ access[a].pc = "asks"
      BY <1>1, <1>7, <2>2
    <3>2. access[a] \in SKAccess
      BY DEF SKInv, SKTypes
    <3>3. CASE answer = NoKeys \/ (answer.unkeyed /\ a \in Reads)
      BY <2>2, <3>1, <3>3, SKFixed DEF Answered
    <3>4. CASE ~(answer = NoKeys \/ (answer.unkeyed /\ a \in Reads))
      <4>1. access'[a] = [access[a] EXCEPT !.pc = "gate", !.keys = answer]
        BY <3>1, <3>4 DEF Answered
      <4>2. QED
        BY <1>5, <2>2, <3>1, <3>2, <3>4, <4>1 DEF SKAccess
    <3>5. QED
      BY <3>3, <3>4
  <2>3. QED
    BY <2>1, <2>2
<1>11. /\ attempt'.key = "none" /\ joined' \subseteq again /\ attempt'.by \notin joined'
       /\ \/ again = {} /\ attempt' = NoAttempt /\ attempt'.by = 0 /\ joined' = {} /\ attempt'.pc = "none"
          \/ /\ attempt'.by \in again /\ joined' = again \ {attempt'.by} /\ ~Resolved.final
             /\ attempt'.pc = FirstProbe /\ attempt'.pc # "none"
       /\ attempt' \in [pc : {"none", "tree", "primary", "confirm", "resolve"}, by : Accesses \cup {0},
                        key : {"none", "main"}, unkeyed : BOOLEAN]
  <2>1. CASE again = {} /\ attempt' = NoAttempt /\ joined' = {}
    BY <2>1 DEF NoAttempt
  <2>2. ASSUME NEW a \in again, attempt' = [NoAttempt EXCEPT !.pc = FirstProbe, !.by = a],
               joined' = again \ {a}
        PROVE  /\ attempt'.by = a /\ attempt'.pc = FirstProbe /\ attempt'.key = "none"
               /\ ~Resolved.final /\ FirstProbe # "none"
               /\ attempt' \in [pc : {"none", "tree", "primary", "confirm", "resolve"},
                                by : Accesses \cup {0}, key : {"none", "main"}, unkeyed : BOOLEAN]
    <3>1. a \in Accesses /\ ~Resolved.final
      BY <1>7, <2>2 DEF again, Rejoins, SKInv, SKTypes
    <3>2. FirstProbe \in {"primary", "resolve", "tree"}
      BY DEF FirstProbe
    <3>3. QED
      BY <2>2, <3>1, <3>2 DEF NoAttempt
  <2>3. QED
    BY <1>1, <2>1, <2>2
<1>12. SKTypes'
  <2>1. keying' \in [root : SKNames, confirmed : BOOLEAN, verified : BOOLEAN, keyed : SUBSET Roots,
                     settled : SKKeys, refused : BOOLEAN, last : SKKeys]
    <3>1. KeyedRoots \subseteq Roots
      BY <1>3 DEF KeyedRoots, SKInv, SKTypes, Roots
    <3>2. (Resolved.final /\ ~trusted) \in BOOLEAN
      OBVIOUS
    <3>3. QED
      BY <1>1, <1>5, <3>1, <3>2 DEF SKInv, SKTypes
  <2>2. access' \in [Accesses -> SKAccess]
    BY <1>1, <1>10
  <2>3. joined' \in SUBSET Accesses
    BY <1>7, <1>11 DEF SKInv, SKTypes
  <2>4. QED
    BY <1>1, <1>2, <1>11, <2>1, <2>2, <2>3 DEF SKInv, SKTypes
<1>13. SKRooted'
  BY <1>2, <1>3, <1>6 DEF SKInv, SKRooted
<1>14. SKAttempt'
  <2>1. CASE again = {}
    BY <1>11, <2>1, <1>3 DEF SKAttempt, NoAttempt
  <2>2. CASE attempt'.by \in again /\ attempt'.pc = FirstProbe /\ ~Resolved.final
    <3>1. Unsettled'
      BY <1>3, <1>6, <2>2 DEF Unsettled
    <3>2. FirstProbe = "tree" => ~keying.confirmed
      BY DEF FirstProbe
    <3>3. FirstProbe = "primary" => setting.scope = "repository" /\ keying.confirmed
      BY <1>3 DEF FirstProbe
    <3>4. FirstProbe = "resolve" => setting.scope # "repository" /\ keying.confirmed
      BY <1>3 DEF FirstProbe
    <3>5. FirstProbe \in {"primary", "resolve", "tree"}
      BY DEF FirstProbe
    <3>6. attempt'.by \in Accesses
      BY <1>7, <2>2 DEF SKInv, SKTypes
    <3>7. QED
      BY <1>2, <1>3, <1>6, <1>11, <2>2, <3>1, <3>2, <3>3, <3>4, <3>5, <3>6 DEF SKAttempt
  <2>3. QED
    BY <1>11, <2>1, <2>2
<1>15. \A a \in Accesses : access'[a].pc = "asks" <=> a \in again
  BY <1>7, <1>10
<1>16. SKWaiting'
  <2>1. \A a \in Accesses : a # 0
    BY SKAssumption DEF Accesses
  <2>2. again \subseteq Accesses
    BY <1>7 DEF SKInv, SKTypes
  <2>3. CASE again = {} /\ attempt' = NoAttempt /\ attempt'.by = 0 /\ joined' = {}
    BY <1>15, <2>1, <2>3 DEF SKWaiting
  <2>4. CASE attempt'.by \in again /\ joined' = again \ {attempt'.by}
    <3>1. attempt' # NoAttempt
      BY <2>1, <2>2, <2>4 DEF NoAttempt
    <3>2. QED
      BY <1>15, <2>4, <3>1 DEF SKWaiting
  <2>5. QED
    BY <1>11, <2>3, <2>4
<1>17. SKAnswers'
  <2>1. ASSUME NEW a \in Accesses PROVE SKNamed(access[a].keys)'
    <3>1. PICK k : k = access'[a].keys
      OBVIOUS
    <3>2. CASE access'[a] = access[a]
      <4>1. SKNamed(k)
        BY <3>1, <3>2 DEF SKInv, SKAnswers
      <4>2. SKNamed(k)'
        BY <4>1, <1>8
      <4>3. QED
        BY <3>1, <4>2 DEF SKNamed
    <3>3. CASE k = NoKeys
      BY <3>1, <3>3 DEF SKNamed
    <3>4. CASE k = answer
      BY <1>9, <3>1, <3>4 DEF SKNamed
    <3>5. QED
      BY <1>10, <3>1, <3>2, <3>3, <3>4
  <2>2. SKNamed(keying.last)'
    BY <1>6, <1>9 DEF SKNamed
  <2>3. keying'.settled # NoKeys =>
            keying'.settled = keying'.last /\ keying'.settled.final /\ ~keying'.refused
    BY <1>1, <1>4, <1>6
  <2>4. keying'.last # NoKeys /\ "tree" \in keying'.keyed => keying'.last.root = "tree"
    BY <1>1, <1>4, <1>6 DEF SKInv, SKRooted
  <2>5. QED
    BY <2>1, <2>2, <2>3, <2>4 DEF SKAnswers
<1>18. SKStages'
  <2>1. ASSUME NEW a \in Accesses PROVE SKStage(a)'
    <3>1. CASE access'[a] = access[a]
      <4>1. access[a].pc = "joins" => access'[access[a].with] = access[access[a].with]
        BY <1>10 DEF SKInv, SKStages, SKStage
      <4>2. QED
        BY <3>1, <4>1 DEF SKInv, SKStages, SKStage
    <3>2. CASE access'[a].pc \in {"gate", "done"} /\ (access'[a].keys # NoKeys <=> access'[a].pc = "gate")
      BY <3>2 DEF SKStage
    <3>3. QED
      BY <1>10, <3>1, <3>2
  <2>2. memo.by # 0 => access'[memo.by] = access[memo.by]
    BY <1>10 DEF SKInv, SKTypes, SKStages
  <2>3. QED
    BY <1>2, <2>1, <2>2 DEF SKInv, SKStages
<1>19. SKFiles'
  BY <1>2, <1>3, <1>6 DEF SKInv, SKFiles
<1>20. SKCovered'
  <2>1. ASSUME NEW k, Current(k)' PROVE Current(k)
    BY <1>3, <1>6, <2>1 DEF Current
  <2>2. ASSUME NEW a \in Accesses PROVE SKCovers(a)'
    <3>1. CASE access'[a] = access[a]
      <4>1. PICK k : k = access[a].keys.key
        OBVIOUS
      <4>2. Current(k)' => Current(k)
        BY <2>1
      <4>3. QED
        BY <1>2, <3>1, <4>1, <4>2 DEF SKInv, SKCovered, SKCovers, Current
    <3>2. CASE access'[a].pc \in {"gate", "done"}
      BY <3>2 DEF SKCovers
    <3>3. QED
      BY <1>10, <3>1, <3>2
  <2>3. QED
    BY <2>2 DEF SKCovered
<1>21. SKReviewed'
  BY <1>2, <1>10 DEF SKInv, SKReviewed
<1>22. SKSteady'
  <2>1. ASSUME NEW a \in Accesses, access'[a].pc = "asks" PROVE access'[a] = access[a]
    BY <1>10, <2>1
  <2>2. FirstProbe \in {"primary", "resolve", "tree"}
    BY DEF FirstProbe
  <2>3. FirstProbe = "resolve" => setting.scope = "worktree" /\ keying.confirmed
    BY <1>3 DEF FirstProbe, SKInv, SKTypes
  <2>4. QED
    BY <1>2, <1>6, <1>11, <2>1, <2>2, <2>3 DEF SKInv, SKSteady
<1>23. FallbacksAreMarked'
  <2>1. CASE ~trusted
    BY <1>1, <1>6, <2>1, SKFixed DEF FallbacksAreMarked
  <2>2. CASE trusted
    BY <1>1, <1>2, <1>4, <1>6, <2>2 DEF FallbacksAreMarked, SKInv, SKAttempt
  <2>3. QED
    BY <2>1, <2>2
<1>24. QED
  BY <1>12, <1>13, <1>14, <1>16, <1>17, <1>18, <1>19, <1>20, <1>21, <1>22, <1>23 DEF SKInv

-----------------------------------------------------------------------------
\* The pass.
LEMMA SKGate == ASSUME SKInv, NEW a \in Accesses, Gate(a) PROVE SKInv'
<1> DEFINE keys == access[a].keys
           by == IF memo.store = keys.key THEN memo.by ELSE 0
<1>1. /\ access[a].pc = "gate" /\ access[a] \in SKAccess /\ keys \in SKKeys /\ keys # NoKeys
      /\ SKNamed(keys) /\ a # 0
  BY SKAssumption DEF Gate, SKInv, SKTypes, SKAccess, SKStages, SKStage, SKAnswers, Accesses
<1>2. UNCHANGED <<setting, git, keying, attempt, due, joined, file, legacy, saved>> /\ SKSame
  BY DEF Gate, SKSame
<1>3. keys.root \in {"dir", "tree"} /\ keys.key \in Roots
  BY <1>1 DEF SKNamed, SKInv, SKTypes, SKRooted, Roots
<1>4. CASE ~GatePasses(keys)
  <2>1. access' = [access EXCEPT ![a] = Made] /\ memo' = memo
    BY <1>4 DEF Gate
  <2>2. /\ access' \in [Accesses -> SKAccess] /\ access'[a] = Made
        /\ \A b \in Accesses : b # a => access'[b] = access[b]
    BY <2>1, SKFixed DEF SKInv, SKTypes
  <2>3. SKTypes'
    BY <1>2, <2>1, <2>2 DEF SKInv, SKTypes
  <2>4. \A b \in Accesses : SKMoved(b)
    BY <1>1, <2>2, SKFixed DEF SKMoved, SKNamed
  <2>5. SKAnswers' /\ SKStages' /\ SKFiles' /\ SKCovered' /\ SKReviewed'
    BY <1>2, <2>1, <2>4, SKFrame
  <2>6. SKRooted' /\ SKAttempt' /\ SKWaiting' /\ SKSteady' /\ FallbacksAreMarked'
    BY <1>1, <1>2, <2>2, SKFixed, SKCore
  <2>7. QED
    BY <2>3, <2>5, <2>6 DEF SKInv
<1>5. CASE GatePasses(keys)
  <2>1. \/ /\ by = 0 /\ memo' = [store |-> keys.key, by |-> a]
           /\ access' = [access EXCEPT ![a].pc = "folds", ![a].owed = saved, ![a].todo = Candidates(keys)]
        \/ /\ by # 0 /\ memo' = memo
           /\ access' = [access EXCEPT ![a].pc = "joins", ![a].with = by, ![a].owed = access[by].owed]
    BY <1>5 DEF Gate
  <2>2. legacy => keys.key # "main" /\ (keys.key = "tree" => file["tree"] # {})
    BY <1>1, <1>3, <1>5 DEF GatePasses, Existing, SKNamed, SKInv, SKReviewed
  <2>3. /\ Candidates(keys) \in SKTodos /\ Candidates(keys) # <<>>
        /\ Listed(Candidates(keys)) = ({keys.root} \ {keys.key}) \cup ({"dir"} \cap keys.stale)
    BY <1>1, <1>3, CandidateFacts DEF SKNamed
  <2>4. ASSUME access'[a] \in SKAccess, access'[a].keys = keys, access'[a].pc \in {"folds", "joins"},
               \A b \in Accesses : b # a => access'[b] = access[b]
        PROVE  SKRooted' /\ SKAttempt' /\ SKWaiting' /\ SKSteady' /\ FallbacksAreMarked'
               /\ SKAnswers' /\ SKFiles' /\ SKReviewed'
    <3>1. SKRooted' /\ SKAttempt' /\ SKWaiting' /\ SKSteady' /\ FallbacksAreMarked'
      BY <1>1, <1>2, <2>4, SKCore
    <3>2. \A b \in Accesses : access'[b].keys = access[b].keys
      BY <2>4
    <3>3. SKAnswers'
      BY <1>2, <3>2 DEF SKInv, SKAnswers, SKNamed
    <3>4. SKFiles'
      BY <1>2 DEF SKInv, SKFiles
    <3>5. SKReviewed'
      BY <1>2, <2>2, <2>4 DEF SKInv, SKReviewed
    <3>6. QED
      BY <3>1, <3>3, <3>4, <3>5
  <2>5. CASE by = 0 /\ memo' = [store |-> keys.key, by |-> a]
             /\ access' = [access EXCEPT ![a].pc = "folds", ![a].owed = saved, ![a].todo = Candidates(keys)]
    <3>1. /\ access'[a].pc = "folds" /\ access'[a].owed = saved /\ access'[a].todo = Candidates(keys)
          /\ access'[a].keys = keys /\ access'[a] \in SKAccess
          /\ access' \in [Accesses -> SKAccess]
          /\ \A b \in Accesses : b # a => access'[b] = access[b]
      BY <1>1, <2>3, <2>5 DEF SKInv, SKTypes, SKAccess
    <3>2. SKTypes'
      BY <1>2, <1>3, <2>5, <3>1 DEF SKInv, SKTypes, SKNames
    <3>3. SKStages'
      <4>1. SKStage(a)'
        BY <1>1, <1>3, <2>3, <3>1 DEF SKStage, SKNamed
      <4>2. ASSUME NEW b \in Accesses, b # a PROVE SKStage(b)'
        <5>1. access[b].pc = "joins" => access[b].with # a
          BY <1>1 DEF SKInv, SKStages, SKStage
        <5>2. QED
          BY <3>1, <4>2, <5>1 DEF SKInv, SKStages, SKStage
      <4>3. memo'.by = a /\ memo'.store = keys.key
        BY <2>5
      <4>4. QED
        BY <3>1, <4>1, <4>2, <4>3 DEF SKStages
    <3>4. SKCovered'
      <4>1. ASSUME NEW b \in Accesses, b # a PROVE SKCovers(b)'
        BY <1>2, <3>1, <4>1 DEF SKInv, SKCovered, SKCovers, Current
      <4>2. ASSUME Current(keys.key), NEW s \in saved
            PROVE  \E r \in {keys.key} \cup Listed(Candidates(keys)) : s \in file[r]
        <5>1. PICK r \in Roots : s \in file[r]
          BY <4>2 DEF SKInv, SKFiles
        <5>2. s \in Saves
          BY <4>2 DEF SKInv, SKTypes
        <5>3. r \in keying.keyed \/ (r = "main" /\ keying.settled.key = "main")
          BY <5>1, <5>2 DEF SKInv, SKFiles
        <5>4. keying.settled.key = "main" => keying.settled # NoKeys
          BY SKFixed
        <5>5. r = "main" => keys.key = "main"
          BY <4>2, <5>3, <5>4 DEF Current, SKInv, SKRooted
        <5>6. r # "main" => r \in {keys.root} \cup ({"dir"} \cap keys.stale)
          <6>1. r # "main" => r \in {"dir", "tree"} /\ r \in keying.keyed
            BY <5>1, <5>3 DEF Roots
          <6>2. keys.root = "dir" => keys.key = "dir"
            BY <1>1, <1>3 DEF SKNamed
          <6>3. keys.root = "dir" => "tree" \notin keying.keyed
            BY <4>2, <6>2 DEF Current
          <6>4. keys.root = "tree" => keying.keyed \ {"tree"} \subseteq keys.stale
            BY <1>1 DEF SKNamed
          <6>5. QED
            BY <1>3, <6>1, <6>3, <6>4
        <5>7. r \in {keys.key} \cup Listed(Candidates(keys))
          BY <2>3, <5>5, <5>6
        <5>8. QED
          BY <5>1, <5>7
      <4>3. SKCovers(a)'
        BY <1>2, <3>1, <4>2 DEF SKCovers, Current
      <4>4. QED
        BY <4>1, <4>3 DEF SKCovered
    <3>5. QED
      BY <2>4, <3>1, <3>2, <3>3, <3>4 DEF SKInv
  <2>6. CASE by # 0 /\ memo' = memo
             /\ access' = [access EXCEPT ![a].pc = "joins", ![a].with = by, ![a].owed = access[by].owed]
    <3>1. memo.by = by /\ memo.store = keys.key /\ by \in Accesses /\ access[by].pc = "folds"
          /\ access[by].keys.key = keys.key /\ by # a
      BY <1>1, <2>6 DEF SKInv, SKTypes, SKStages
    <3>2. access[by].owed \subseteq Saves
      BY <3>1 DEF SKInv, SKTypes, SKAccess
    <3>3. /\ access'[a].pc = "joins" /\ access'[a].owed = access[by].owed /\ access'[a].with = by
          /\ access'[a].keys = keys /\ access'[a] \in SKAccess
          /\ access' \in [Accesses -> SKAccess]
          /\ \A b \in Accesses : b # a => access'[b] = access[b]
      BY <1>1, <2>6, <3>1, <3>2 DEF SKInv, SKTypes, SKAccess
    <3>4. SKTypes'
      BY <1>2, <2>6, <3>3 DEF SKInv, SKTypes
    <3>5. SKStages'
      <4>1. SKStage(a)'
        BY <1>1, <3>1, <3>3 DEF SKStage
      <4>2. ASSUME NEW b \in Accesses, b # a PROVE SKStage(b)'
        <5>1. access[b].pc = "joins" => access[b].with # a
          BY <1>1 DEF SKInv, SKStages, SKStage
        <5>2. QED
          BY <3>3, <4>2, <5>1 DEF SKInv, SKStages, SKStage
      <4>3. memo.by # 0 => access'[memo.by] = access[memo.by]
        BY <3>1, <3>3
      <4>4. QED
        BY <2>6, <3>3, <4>1, <4>2, <4>3 DEF SKInv, SKStages
    <3>6. SKCovered'
      BY <1>2, <3>3 DEF SKInv, SKCovered, SKCovers, Current
    <3>7. QED
      BY <2>4, <3>3, <3>4, <3>5, <3>6 DEF SKInv
  <2>7. QED
    BY <2>1, <2>5, <2>6
<1>6. QED
  BY <1>4, <1>5

\* A pass ends for the access that runs it and for those that wait for it.
SKEnding(a, how) ==
    access' = [b \in Accesses |-> IF b \notin Sharing(a) THEN access[b]
                                  ELSE IF how = "done" THEN Made
                                  ELSE [access[b] EXCEPT !.pc = how, !.todo = <<>>, !.with = 0]]

LEMMA SKEnds ==
    ASSUME SKInv, NEW a \in Accesses, access[a].pc = "folds", NEW how \in {"opened", "done"},
           how = "opened" => Listed(access[a].todo) = {}, SKEnding(a, how),
           memo' = Retired(access[a].keys.key, a),
           UNCHANGED <<setting, git, keying, attempt, due, joined, file, legacy, saved>>
    PROVE  SKInv'
<1>1. \A b \in Accesses : access[b] \in SKAccess
  BY DEF SKInv, SKTypes
<1>2. ASSUME NEW b \in Accesses
      PROVE  \/ b \notin Sharing(a) /\ access'[b] = access[b]
             \/ /\ b \in Sharing(a) /\ access'[b].pc = how /\ access'[b] \in SKAccess
                /\ how = "done" => access'[b].keys = NoKeys
                /\ how = "opened" => access'[b].keys = access[b].keys /\ access'[b].owed = access[b].owed
  <2>1. CASE b \notin Sharing(a)
    BY <2>1 DEF SKEnding
  <2>2. CASE b \in Sharing(a) /\ how = "done"
    BY <2>2, SKFixed DEF SKEnding
  <2>3. CASE b \in Sharing(a) /\ how = "opened"
    <3>1. access'[b] = [access[b] EXCEPT !.pc = how, !.todo = <<>>, !.with = 0]
      BY <2>3 DEF SKEnding
    <3>2. QED
      BY <1>1, <2>3, <3>1 DEF SKAccess, SKTodos
  <2>4. QED
    BY <2>1, <2>2, <2>3
<1>3. ASSUME NEW b \in Sharing(a)
      PROVE  /\ b \in Accesses /\ access[b].pc \in {"folds", "joins"} /\ access[b].keys # NoKeys
             /\ access[b].keys.key = access[a].keys.key /\ access[b].owed = access[a].owed
  BY DEF Sharing, SKInv, SKStages, SKStage
<1>4. a \in Sharing(a)
  BY DEF Sharing
<1>5. /\ memo' \in [store : SKNames, by : Accesses \cup {0}]
      /\ memo'.by # 0 => memo' = memo /\ memo.by # a
  <2>1. memo.by = a => memo = [store |-> access[a].keys.key, by |-> a]
    <3>1. memo.by = a /\ a # 0 => memo.store = access[a].keys.key
      BY DEF SKInv, SKStages
    <3>2. QED
      BY <3>1, SKAssumption DEF SKInv, SKTypes, Accesses
  <2>2. QED
    BY <2>1 DEF Retired, SKInv, SKTypes
<1>6. SKTypes'
  <2>1. access' \in [Accesses -> SKAccess]
    BY <1>1, <1>2 DEF SKEnding
  <2>2. QED
    BY <1>5, <2>1 DEF SKInv, SKTypes
<1>7. SKRooted' /\ SKAttempt' /\ SKWaiting' /\ SKSteady' /\ FallbacksAreMarked'
  BY <1>2, <1>3, SKCore
<1>8. SKAnswers'
  <2>1. ASSUME NEW b \in Accesses PROVE SKNamed(access[b].keys)'
    BY <1>2 DEF SKInv, SKAnswers, SKNamed
  <2>2. QED
    BY <2>1 DEF SKInv, SKAnswers, SKNamed
<1>9. SKStages'
  <2>1. ASSUME NEW b \in Accesses PROVE SKStage(b)'
    <3>1. CASE b \in Sharing(a)
      BY <1>2, <1>3, <3>1 DEF SKStage
    <3>2. CASE b \notin Sharing(a)
      <4>1. access[b].pc = "joins" => /\ access[b].with \in Accesses
                                      /\ access[b].with # a
                                      /\ access[access[b].with].pc = "folds"
        BY <3>2 DEF Sharing, SKInv, SKStages, SKStage
      <4>2. access[b].pc = "joins" => access[b].with \notin Sharing(a)
        BY <4>1 DEF Sharing
      <4>3. access[b].pc = "joins" => access'[access[b].with] = access[access[b].with]
        BY <1>2, <4>1, <4>2
      <4>4. access'[b] = access[b]
        BY <1>2, <3>2
      <4>5. QED
        BY <4>3, <4>4 DEF SKInv, SKStages, SKStage
    <3>3. QED
      BY <3>1, <3>2
  <2>2. ASSUME memo'.by # 0 PROVE access'[memo'.by] = access[memo'.by] /\ memo' = memo
    <3>1. memo' = memo /\ memo.by # a /\ memo.by \in Accesses /\ access[memo.by].pc = "folds"
      BY <1>5, <2>2 DEF SKInv, SKTypes, SKStages
    <3>2. memo.by \notin Sharing(a)
      BY <3>1 DEF Sharing
    <3>3. QED
      BY <1>2, <3>1, <3>2
  <2>3. QED
    BY <2>1, <2>2 DEF SKInv, SKStages
<1>10. SKFiles'
  BY DEF SKInv, SKFiles
<1>11. SKCovered'
  <2>1. ASSUME NEW b \in Accesses PROVE SKCovers(b)'
    <3>1. CASE b \notin Sharing(a)
      BY <1>2, <3>1 DEF SKInv, SKCovered, SKCovers, Current
    <3>2. CASE b \in Sharing(a) /\ how = "done"
      BY <1>2, <3>2 DEF SKCovers
    <3>3. CASE b \in Sharing(a) /\ how = "opened"
      <4>1. access'[b].pc = "opened" /\ access'[b].keys.key = access[a].keys.key /\ access'[b].owed = access[a].owed
        BY <1>2, <1>3, <3>3
      <4>2. Current(access[a].keys.key) => \A s \in access[a].owed : s \in file[access[a].keys.key]
        BY <3>3 DEF SKInv, SKCovered, SKCovers
      <4>3. QED
        BY <4>1, <4>2 DEF SKCovers, Current
    <3>4. QED
      BY <3>1, <3>2, <3>3
  <2>2. QED
    BY <2>1 DEF SKCovered
<1>12. SKReviewed'
  <2>1. ASSUME NEW b \in Accesses, access'[b].pc \in {"folds", "joins", "opened"}
        PROVE  access[b].pc \in {"folds", "joins", "opened"} /\ access'[b].keys = access[b].keys
    BY <1>2, <1>3, <2>1
  <2>2. QED
    BY <2>1 DEF SKInv, SKReviewed
<1>13. QED
  BY <1>6, <1>7, <1>8, <1>9, <1>10, <1>11, <1>12 DEF SKInv

LEMMA SKFold == ASSUME SKInv, NEW a \in Accesses, Fold(a) PROVE SKInv'
<1> DEFINE from == Head(access[a].todo)
           key == access[a].keys.key
<1>1. /\ access[a].pc = "folds" /\ access[a] \in SKAccess /\ access[a].todo \in SKTodos
      /\ access[a].todo # <<>> /\ access[a].keys # NoKeys /\ SKNamed(access[a].keys)
      /\ access[a].keys \in SKKeys /\ key \notin Listed(access[a].todo)
      /\ key # "main" => "tree" \notin Listed(access[a].todo)
  BY ZenonT(60) DEF Fold, SKInv, SKTypes, SKAccess, SKStages, SKStage, SKAnswers
<1>2. key \in Roots
  BY <1>1 DEF SKNamed, SKInv, SKTypes, Roots
<1>3. UNCHANGED <<setting, git, keying, attempt, due, joined, legacy, saved>>
  BY DEF Fold
<1>4. CASE from = "old"
  <2>1. Listed(access[a].todo) = {}
    BY <1>1, <1>4, TodoSteps
  <2>2. SKEnding(a, "opened") /\ memo' = Retired(key, a) /\ file' = file
    BY <1>4 DEF Fold, SKEnding
  <2>3. QED
    BY <1>1, <1>3, <2>1, <2>2, SKEnds
<1>5. CASE from # "old" /\ CarveOut \in file[from]
  <2>1. SKEnding(a, "done") /\ memo' = Retired(key, a) /\ file' = file
    BY <1>5 DEF Fold, SKEnding
  <2>2. QED
    BY <1>1, <1>3, <2>1, SKEnds
<1>6. CASE from # "old" /\ ~(CarveOut \in file[from])
  <2>1. /\ file' = [file EXCEPT ![key] = @ \cup file[from], ![from] = {}]
        /\ access' = [b \in Accesses |-> IF b = a THEN [access[a] EXCEPT !.todo = Tail(@)]
                                         ELSE IF access[b].keys.key = key THEN access[b]
                                         ELSE [access[b] EXCEPT !.owed = @ \ file[from]]]
        /\ memo' = memo
    BY <1>6 DEF Fold
  <2>2. /\ from \in {"dir", "tree"} /\ Tail(access[a].todo) \in SKTodos /\ Tail(access[a].todo) # <<>>
        /\ Listed(access[a].todo) = {from} \cup Listed(Tail(access[a].todo))
    BY <1>1, <1>6, TodoSteps
  <2>3. from # key /\ from \in Roots /\ (key # "main" => from # "tree")
    BY <1>1, <2>2 DEF Roots
  <2>4. /\ file'[key] = file[key] \cup file[from] /\ file'[from] = {}
        /\ \A r \in Roots : r # key /\ r # from => file'[r] = file[r]
        /\ file' \in [Roots -> SUBSET (Saves \cup {CarveOut})]
    BY <1>2, <2>1, <2>3 DEF SKInv, SKTypes
  <2> HIDE DEF from, key
  <2>5. ASSUME NEW b \in Accesses
        PROVE  /\ access'[b] \in SKAccess /\ access'[b].pc = access[b].pc /\ access'[b].keys = access[b].keys
               /\ access'[b].with = access[b].with /\ access'[b].steady = access[b].steady
               /\ access'[b].todo = IF b = a THEN Tail(access[a].todo) ELSE access[b].todo
               /\ access'[b].owed = IF access[b].keys.key = key THEN access[b].owed
                                    ELSE access[b].owed \ file[from]
    <3>1. access[b] \in SKAccess
      BY DEF SKInv, SKTypes
    <3>2. CASE b = a
      <4>1. access'[b] = [access[a] EXCEPT !.todo = Tail(@)]
        BY <2>1, <3>2
      <4>2. QED
        BY <1>1, <2>2, <3>2, <4>1 DEF SKAccess, key
    <3>3. CASE b # a /\ access[b].keys.key = key
      BY <2>1, <3>1, <3>3
    <3>4. CASE b # a /\ access[b].keys.key # key
      <4>1. access'[b] = [access[b] EXCEPT !.owed = @ \ file[from]]
        BY <2>1, <3>4
      <4>2. QED
        BY <3>1, <3>4, <4>1 DEF SKAccess
    <3>5. QED
      BY <3>2, <3>3, <3>4
  <2>6. SKTypes'
    <3>1. access' \in [Accesses -> SKAccess]
      BY <2>1, <2>5
    <3>2. memo' = memo
      BY <2>1
    <3>3. QED
      BY <1>3, <2>4, <3>1, <3>2 DEF SKInv, SKTypes
  <2>7. SKRooted' /\ SKAttempt' /\ SKWaiting' /\ SKSteady' /\ FallbacksAreMarked'
    BY <1>3, <2>5, SKCore
  <2>8. SKAnswers'
    <3>2. keying' = keying
      BY <1>3
    <3>1. ASSUME NEW b \in Accesses PROVE SKNamed(access[b].keys)'
      <4>1. SKNamed(access[b].keys) /\ access'[b].keys = access[b].keys
        BY <2>5 DEF SKInv, SKAnswers
      <4>2. QED
        BY <3>2, <4>1 DEF SKNamed
    <3>3. QED
      BY <3>1, <3>2 DEF SKInv, SKAnswers, SKNamed
  <2>9. SKStages'
    <3>1. ASSUME NEW b \in Accesses PROVE SKStage(b)'
      <4>1. SKStage(b)
        BY DEF SKInv, SKStages
      <4>2. access[b].pc = "joins" =>
               /\ access'[access[b].with].pc = "folds"
               /\ access'[access[b].with].keys.key = access[b].keys.key
               /\ access'[access[b].with].owed = access'[b].owed
        BY <2>5, <4>1 DEF SKStage
      <4>3. Listed(access'[b].todo) \subseteq Listed(access[b].todo)
        BY <2>2, <2>5
      <4>4. access[b].pc = "folds" => access'[b].todo # <<>>
        BY <2>2, <2>5, <4>1 DEF SKStage
      <4>5. QED
        BY <2>5, <4>1, <4>2, <4>3, <4>4 DEF SKStage
    <3>2. QED
      BY <2>1, <2>5, <3>1 DEF SKInv, SKTypes, SKStages
  <2>10. key = "main" => keying.settled.key = "main"
    BY <1>1 DEF SKNamed, key
  <2>11. key \in keying.keyed \/ key = "main"
    BY <1>1 DEF SKNamed, key
  <2>12. SKFiles'
    <3>1. \A r \in Roots : file'[r] \cap Saves # {} =>
              r \in keying.keyed \/ (r = "main" /\ keying.settled.key = "main")
      BY <2>4, <2>10, <2>11 DEF SKInv, SKFiles
    <3>2. file'["main"] # {} => keying.settled.key = "main"
      BY <2>2, <2>4, <2>10 DEF SKInv, SKFiles, Roots
    <3>3. ASSUME NEW s \in saved PROVE \E r \in Roots : s \in file'[r]
      <4>1. PICK r \in Roots : s \in file[r]
        BY DEF SKInv, SKFiles
      <4>2. s \in file'[r] \/ s \in file'[key]
        BY <2>4, <4>1
      <4>3. QED
        BY <1>2, <4>1, <4>2 DEF key
    <3>4. QED
      BY <1>3, <3>1, <3>2, <3>3 DEF SKFiles
  <2>13. SKCovered'
    <3>1. ASSUME NEW b \in Accesses, Current(access[b].keys.key), NEW s \in access'[b].owed
          PROVE  /\ access[b].pc = "folds" =>
                      \E r \in {access[b].keys.key} \cup Listed(access'[b].todo) : s \in file'[r]
                 /\ access[b].pc = "opened" => s \in file'[access[b].keys.key]
      <4>1. s \in access[b].owed
        BY <2>5, <3>1
      <4>2. /\ access[b].pc = "folds" =>
                      \E r \in {access[b].keys.key} \cup Listed(access[b].todo) : s \in file[r]
            /\ access[b].pc = "opened" => s \in file[access[b].keys.key]
        BY <3>1, <4>1 DEF SKInv, SKCovered, SKCovers
      <4>3. access[b].pc \in {"folds", "opened"} => access[b].keys.key \in Roots
        BY DEF SKInv, SKStages, SKStage, SKAnswers, SKNamed, SKTypes, Roots
      <4>4. Listed(access[b].todo) \subseteq Roots
        BY DEF Listed
      <4>5. CASE access[b].keys.key = key
        <5>1. ASSUME NEW r \in Roots, s \in file[r], r # from PROVE s \in file'[r]
          BY <2>4, <5>1
        <5>2. s \in file[from] => s \in file'[key]
          BY <2>4
        <5>3. Listed(access[b].todo) \ {from} \subseteq Listed(access'[b].todo)
          BY <2>2, <2>5
        <5>4. ASSUME access[b].pc = "folds"
              PROVE  \E r \in {access[b].keys.key} \cup Listed(access'[b].todo) : s \in file'[r]
          <6>1. PICK r \in {access[b].keys.key} \cup Listed(access[b].todo) : s \in file[r]
            BY <4>2, <5>4
          <6>2. CASE r = from
            BY <4>5, <5>2, <6>1, <6>2
          <6>3. CASE r # from
            <7>1. r \in {access[b].keys.key} \cup Listed(access'[b].todo) /\ r \in Roots
              BY <4>3, <4>4, <5>3, <5>4, <6>1, <6>3
            <7>2. QED
              BY <5>1, <6>1, <6>3, <7>1
          <6>4. QED
            BY <6>2, <6>3
        <5>5. access[b].pc = "opened" => s \in file'[access[b].keys.key]
          BY <2>3, <4>2, <4>3, <4>5, <5>1
        <5>6. QED
          BY <5>4, <5>5
      <4>6. CASE access[b].keys.key # key
        <5>1. s \notin file[from] /\ b # a
          BY <2>5, <3>1, <4>6 DEF key
        <5>2. ASSUME NEW r \in Roots, s \in file[r] PROVE s \in file'[r]
          BY <2>4, <5>1, <5>2
        <5>3. access'[b].todo = access[b].todo
          BY <2>5, <5>1
        <5>4. QED
          BY <4>2, <4>3, <4>4, <5>2, <5>3
      <4>7. QED
        BY <4>5, <4>6
    <3>2. ASSUME NEW b \in Accesses PROVE SKCovers(b)'
      <4>1. /\ access'[b].pc = access[b].pc /\ access'[b].keys = access[b].keys
            /\ keying' = keying
        BY <1>3, <2>5
      <4>2. Current(access[b].keys.key)' <=> Current(access[b].keys.key)
        BY <4>1 DEF Current
      <4>3. QED
        BY <3>1, <4>1, <4>2 DEF SKCovers
    <3>3. QED
      BY <3>2 DEF SKCovered
  <2>14. SKReviewed'
    <3>1. ASSUME legacy PROVE key # "main" /\ from = "dir" /\ (key = "tree" => file["tree"] # {})
      BY <1>1, <2>2, <2>3, <3>1 DEF SKInv, SKReviewed, key
    <3>2. ASSUME legacy PROVE file'["main"] = {} /\ (file["tree"] # {} => file'["tree"] # {})
      BY <2>4, <3>1, <3>2 DEF SKInv, SKReviewed, Roots
    <3>3. QED
      BY <1>3, <2>5, <3>2 DEF SKInv, SKReviewed
  <2>15. QED
    BY <2>6, <2>7, <2>8, <2>9, <2>12, <2>13, <2>14 DEF SKInv
<1>7. QED
  BY <1>4, <1>5, <1>6

-----------------------------------------------------------------------------
\* Saves and reads, and the world.
LEMMA SKSave == ASSUME SKInv, NEW a \in Accesses, Save(a) PROVE SKInv'
<1> DEFINE key == access[a].keys.key
<1>1. /\ a \in Saves /\ access[a].pc = "opened" /\ access[a].keys # NoKeys
      /\ SKNamed(access[a].keys) /\ key \in Roots
  BY DEF Save, SKInv, SKTypes, SKStages, SKStage, SKAnswers, SKNamed, Roots
<1>2. /\ access' = [access EXCEPT ![a] = Made] /\ saved' = saved \cup {a}
      /\ file' = [file EXCEPT ![key] = @ \cup {a}]
      /\ UNCHANGED <<setting, git, keying, attempt, due, joined, memo, legacy>>
  BY DEF Save
<1>3. /\ access' \in [Accesses -> SKAccess] /\ access'[a] = Made
      /\ \A b \in Accesses : b # a => access'[b] = access[b]
      /\ file' \in [Roots -> SUBSET (Saves \cup {CarveOut})] /\ file'[key] = file[key] \cup {a}
      /\ \A r \in Roots : r # key => file'[r] = file[r]
  BY <1>1, <1>2, SKFixed DEF SKInv, SKTypes
<1>4. SKTypes'
  BY <1>1, <1>2, <1>3 DEF SKInv, SKTypes
<1>5. SKRooted' /\ SKAttempt' /\ SKWaiting' /\ SKSteady' /\ FallbacksAreMarked'
  BY <1>1, <1>2, <1>3, SKFixed, SKCore
<1>6. SKAnswers'
  <2>1. ASSUME NEW b \in Accesses PROVE SKNamed(access[b].keys)'
    <3>1. access'[b].keys = access[b].keys \/ access'[b].keys = NoKeys
      BY <1>3, SKFixed
    <3>2. QED
      BY <1>2, <3>1 DEF SKInv, SKAnswers, SKNamed
  <2>2. SKNamed(keying.last)'
    BY <1>2 DEF SKInv, SKAnswers, SKNamed
  <2>3. QED
    BY <1>2, <2>1, <2>2 DEF SKInv, SKAnswers
<1>7. SKStages'
  <2>1. ASSUME NEW b \in Accesses PROVE SKStage(b)'
    <3>1. CASE b = a
      BY <1>3, <3>1, SKFixed DEF SKStage
    <3>2. CASE b # a
      <4>1. access[b].pc = "joins" => access[b].with # a
        BY <1>1 DEF SKInv, SKStages, SKStage
      <4>2. QED
        BY <1>3, <3>2, <4>1 DEF SKInv, SKStages, SKStage
    <3>3. QED
      BY <3>1, <3>2
  <2>2. memo.by # 0 => access'[memo.by] = access[memo.by]
    BY <1>1, <1>3 DEF SKInv, SKTypes, SKStages
  <2>3. QED
    BY <1>2, <2>1, <2>2 DEF SKInv, SKStages
<1>8. SKFiles'
  <2>1. key \in keying.keyed \/ (key = "main" /\ keying.settled.key = "main")
    BY <1>1 DEF SKNamed
  <2>2. ASSUME NEW r \in Roots, file'[r] \cap Saves # {}
        PROVE  r \in keying.keyed \/ (r = "main" /\ keying.settled.key = "main")
    BY <1>3, <2>1, <2>2 DEF SKInv, SKFiles
  <2>3. file'["main"] # {} => keying.settled.key = "main"
    BY <1>1, <1>3 DEF SKInv, SKFiles, SKNamed, Roots
  <2>4. ASSUME NEW s \in saved' PROVE \E r \in Roots : s \in file'[r]
    <3>1. CASE s = a
      BY <1>1, <1>3, <3>1
    <3>2. CASE s \in saved
      <4>1. PICK r \in Roots : s \in file[r]
        BY <3>2 DEF SKInv, SKFiles
      <4>2. s \in file'[r]
        BY <1>3, <4>1
      <4>3. QED
        BY <4>1, <4>2
    <3>3. QED
      BY <1>2, <2>4, <3>1, <3>2
  <2>5. QED
    BY <1>2, <2>2, <2>3, <2>4 DEF SKFiles
<1>9. SKCovered'
  <2>1. \A r \in Roots : file[r] \subseteq file'[r]
    BY <1>3
  <2>2. ASSUME NEW b \in Accesses PROVE SKCovers(b)'
    <3>1. CASE b = a
      BY <1>3, <3>1, SKFixed DEF SKCovers
    <3>2. CASE b # a
      <4>1. access[b].pc \in {"folds", "opened"} => access[b].keys.key \in Roots
        BY DEF SKInv, SKStages, SKStage, SKAnswers, SKNamed, SKTypes, Roots
      <4>2. Listed(access[b].todo) \subseteq Roots
        BY DEF Listed
      <4>3. SKCovers(b) /\ access'[b] = access[b]
        BY <1>3, <3>2 DEF SKInv, SKCovered
      <4>4. QED
        BY <1>2, <2>1, <4>1, <4>2, <4>3 DEF SKCovers, Current
    <3>3. QED
      BY <3>1, <3>2
  <2>3. QED
    BY <2>2 DEF SKCovered
<1>10. SKReviewed'
  <2>1. legacy => key # "main"
    BY <1>1 DEF SKInv, SKReviewed
  <2>2. legacy => file'["main"] = {} /\ (file["tree"] # {} => file'["tree"] # {})
    BY <1>3, <2>1 DEF SKInv, SKReviewed, Roots
  <2>3. QED
    BY <1>2, <1>3, <2>2, SKFixed DEF SKInv, SKReviewed
<1>11. QED
  BY <1>4, <1>5, <1>6, <1>7, <1>8, <1>9, <1>10 DEF SKInv

LEMMA SKRead == ASSUME SKInv, NEW a \in Accesses, ReadStore(a) PROVE SKInv'
<1>1. /\ access[a].pc = "opened" /\ access' = [access EXCEPT ![a] = Made]
      /\ UNCHANGED <<setting, git, keying, attempt, due, joined, memo, file, legacy, saved>> /\ SKSame
  BY DEF ReadStore, SKSame
<1>2. /\ access' \in [Accesses -> SKAccess] /\ access'[a] = Made
      /\ \A b \in Accesses : b # a => access'[b] = access[b]
  BY <1>1, SKFixed DEF SKInv, SKTypes
<1>3. SKTypes'
  BY <1>1, <1>2 DEF SKInv, SKTypes
<1>4. \A b \in Accesses : SKMoved(b)
  BY <1>1, <1>2, SKFixed DEF SKMoved, SKNamed
<1>5. SKAnswers' /\ SKStages' /\ SKFiles' /\ SKCovered' /\ SKReviewed'
  BY <1>1, <1>4, SKFrame
<1>6. SKRooted' /\ SKAttempt' /\ SKWaiting' /\ SKSteady' /\ FallbacksAreMarked'
  BY <1>1, <1>2, SKFixed, SKCore
<1>7. QED
  BY <1>3, <1>5, <1>6 DEF SKInv

LEMMA SKGitFlips == SKInv /\ GitFlips => SKInv'
<1> SUFFICES ASSUME SKInv, GitFlips PROVE SKInv'
  OBVIOUS
<1>1. /\ git' = ~git /\ access' = [a \in Accesses |-> [access[a] EXCEPT !.steady = FALSE]]
      /\ UNCHANGED <<setting, keying, attempt, due, joined, memo, file, legacy, saved>>
  BY DEF GitFlips
<1>2. ASSUME NEW a \in Accesses
      PROVE  /\ access'[a] \in SKAccess /\ access'[a].pc = access[a].pc /\ access'[a].keys = access[a].keys
             /\ access'[a].with = access[a].with /\ access'[a].owed = access[a].owed
             /\ access'[a].todo = access[a].todo /\ ~access'[a].steady
  <2>1. access[a] \in SKAccess /\ access'[a] = [access[a] EXCEPT !.steady = FALSE]
    BY <1>1 DEF SKInv, SKTypes
  <2>2. QED
    BY <2>1 DEF SKAccess
<1>3. access' \in [Accesses -> SKAccess] /\ git' \in BOOLEAN /\ keying' = keying /\ file' = file
  BY <1>1, <1>2
<1>4. SKTypes'
  BY <1>1, <1>3 DEF SKInv, SKTypes
<1>5. SKRooted' /\ SKAttempt' /\ FallbacksAreMarked'
  BY <1>1 DEF SKInv, SKRooted, SKAttempt, FallbacksAreMarked, Unsettled
<1>6. SKWaiting'
  BY <1>1, <1>2 DEF SKInv, SKWaiting
<1>7. SKSteady'
  <2>1. attempt.pc # "none" => ~access'[attempt.by].steady
    BY <1>2 DEF SKInv, SKAttempt
  <2>2. QED
    BY <1>1, <1>2, <2>1 DEF SKSteady
<1>8. SKAnswers'
  <2>1. ASSUME NEW b \in Accesses PROVE SKNamed(access[b].keys)'
    <3>1. SKNamed(access[b].keys) /\ access'[b].keys = access[b].keys
      BY <1>2 DEF SKInv, SKAnswers
    <3>2. QED
      BY <1>3, <3>1 DEF SKNamed
  <2>2. SKNamed(keying.last)'
    BY <1>3 DEF SKInv, SKAnswers, SKNamed
  <2>3. QED
    BY <1>3, <2>1, <2>2 DEF SKInv, SKAnswers
<1>9. SKStages'
  <2>1. ASSUME NEW b \in Accesses PROVE SKStage(b)'
    BY <1>2 DEF SKInv, SKStages, SKStage
  <2>2. QED
    BY <1>1, <1>2, <2>1 DEF SKInv, SKTypes, SKStages
<1>10. SKFiles' /\ SKReviewed'
  BY <1>1, <1>2 DEF SKInv, SKFiles, SKReviewed
<1>11. SKCovered'
  <2>1. ASSUME NEW b \in Accesses PROVE SKCovers(b)'
    <3>1. SKCovers(b)
      BY DEF SKInv, SKCovered
    <3>2. QED
      BY <1>2, <1>3, <3>1 DEF SKCovers, Current
  <2>2. QED
    BY <2>1 DEF SKCovered
<1>12. QED
  BY <1>4, <1>5, <1>6, <1>7, <1>8, <1>9, <1>10, <1>11 DEF SKInv

LEMMA SKReview == SKInv /\ Review => SKInv'
<1> SUFFICES ASSUME SKInv, Review PROVE SKInv'
  OBVIOUS
<1>1. /\ legacy' = FALSE
      /\ UNCHANGED <<setting, git, keying, attempt, due, joined, access, memo, file, saved>>
  BY DEF Review
<1>2. SKTypes'
  <2>1. legacy' \in BOOLEAN
    BY <1>1
  <2>2. QED
    BY <1>1, <2>1 DEF SKInv, SKTypes
<1>3. SKRooted' /\ SKAttempt' /\ SKWaiting' /\ SKSteady' /\ FallbacksAreMarked'
  BY <1>1, SKCore
<1>4. SKAnswers' /\ SKStages'
  BY <1>1 DEF SKInv, SKAnswers, SKNamed, SKStages, SKStage
<1>5. SKFiles' /\ SKCovered' /\ SKReviewed'
  BY <1>1 DEF SKInv, SKFiles, SKCovered, SKCovers, Current, SKReviewed
<1>6. QED
  BY <1>2, <1>3, <1>4, <1>5 DEF SKInv

LEMMA SKMergeByHand == SKInv /\ MergeByHand => SKInv'
<1> SUFFICES ASSUME SKInv, MergeByHand PROVE SKInv'
  OBVIOUS
<1>1. /\ ~legacy /\ keying.settled.key = "main"
      /\ UNCHANGED <<setting, git, keying, attempt, due, joined, access, memo, legacy, saved>>
      /\ file' \in [Roots -> SUBSET (Saves \cup {CarveOut})]
      /\ file'["main"] = file["main"] \cup file["tree"] /\ file'["tree"] = {} /\ file'["dir"] = file["dir"]
  BY DEF MergeByHand, SKInv, SKTypes, Roots
<1>2. SKTypes'
  <2>1. /\ file' \in [Roots -> SUBSET (Saves \cup {CarveOut})]
        /\ UNCHANGED <<setting, git, keying, attempt, due, joined, access, memo, legacy, saved>>
    BY <1>1
  <2>2. QED
    BY <2>1 DEF SKInv, SKTypes
<1>3. SKRooted' /\ SKAttempt' /\ SKWaiting' /\ SKSteady' /\ FallbacksAreMarked'
  BY <1>1, SKCore
<1>4. SKAnswers' /\ SKStages'
  BY <1>1 DEF SKInv, SKAnswers, SKNamed, SKStages, SKStage
<1>5. SKFiles' /\ SKReviewed'
  <2>1. \A r \in Roots : file'[r] \cap Saves # {} =>
            r \in keying.keyed \/ (r = "main" /\ keying.settled.key = "main")
    BY <1>1 DEF SKInv, SKFiles, Roots
  <2>2. ASSUME NEW s \in saved PROVE \E r \in Roots : s \in file'[r]
    <3>1. PICK r \in Roots : s \in file[r]
      BY DEF SKInv, SKFiles
    <3>2. s \in file'[r] \/ s \in file'["main"]
      BY <1>1, <3>1 DEF Roots
    <3>3. QED
      BY <3>1, <3>2 DEF Roots
  <2>3. QED
    BY <1>1, <2>1, <2>2 DEF SKFiles, SKReviewed
<1>6. SKCovered'
  <2>1. ASSUME NEW b \in Accesses, Current(access[b].keys.key), NEW s \in access[b].owed
        PROVE  /\ access[b].pc = "folds" =>
                    \E r \in {access[b].keys.key} \cup Listed(access[b].todo) : s \in file'[r]
               /\ access[b].pc = "opened" => s \in file'[access[b].keys.key]
    <3>1. access[b].keys.key = "main"
      BY <1>1, <2>1, SKFixed DEF Current
    <3>2. \A r \in Roots : s \in file[r] => s \in file'[r] \/ s \in file'["main"]
      BY <1>1 DEF Roots
    <3>3. Listed(access[b].todo) \subseteq Roots /\ "main" \in Roots
      BY DEF Listed, Roots
    <3>4. SKCovers(b)
      BY DEF SKInv, SKCovered
    <3>5. access[b].pc = "opened" => s \in file'["main"]
      BY <1>1, <2>1, <3>1, <3>4 DEF SKCovers
    <3>6. QED
      BY <2>1, <3>1, <3>2, <3>3, <3>4, <3>5 DEF SKCovers
  <2>2. ASSUME NEW b \in Accesses PROVE SKCovers(b)'
    BY <1>1, <2>1 DEF SKCovers, Current
  <2>3. QED
    BY <2>2 DEF SKCovered
<1>7. QED
  BY <1>2, <1>3, <1>4, <1>5, <1>6 DEF SKInv

LEMMA SKStepKeeps == SKInv /\ [SKNext]_skVars => SKInv'
<1> SUFFICES ASSUME SKInv, [SKNext]_skVars PROVE SKInv'
  OBVIOUS
<1>1. CASE ProbeTree \/ ProbePrimary \/ ProbeAgain \/ Finish \/ Lapse
  BY <1>1, SKProbeTree, SKProbePrimary, SKProbeAgain, SKFinish, SKLapse
<1>2. ASSUME NEW a \in Accesses, Ask(a) \/ Gate(a) \/ Fold(a) \/ Save(a) \/ ReadStore(a)
      PROVE  SKInv'
  BY <1>2, SKAsk, SKGate, SKFold, SKSave, SKRead
<1>3. CASE GitFlips \/ Review \/ MergeByHand
  BY <1>3, SKGitFlips, SKReview, SKMergeByHand
<1>4. CASE UNCHANGED skVars
  <2>1. SKTypes' /\ SKRooted' /\ SKAttempt' /\ SKWaiting' /\ SKSteady' /\ FallbacksAreMarked'
    BY <1>4, SKCore DEF skVars, SKInv, SKTypes
  <2>2. SKAnswers' /\ SKStages' /\ SKFiles' /\ SKCovered' /\ SKReviewed'
    BY <1>4, SKFrame DEF skVars, SKSame, SKMoved
  <2>3. QED
    BY <2>1, <2>2 DEF SKInv
<1>5. QED
  BY <1>1, <1>2, <1>3, <1>4 DEF SKNext

-----------------------------------------------------------------------------
\* What the invariant says of the keying, and what no step does.
LEMMA SKSound == SKInv => KeyingIsSound
<1> SUFFICES ASSUME SKInv PROVE KeyingIsSound
  OBVIOUS
<1>1. SKTypeOK
  <2>1. {a \in Accesses : access[a].pc = "asks"} = joined \cup ({attempt.by} \ {0})
    <3>1. joined \subseteq Accesses /\ attempt.by \in Accesses \cup {0}
      BY DEF SKInv, SKTypes
    <3>2. \A a \in Accesses : a # 0
      BY SKAssumption DEF Accesses
    <3>3. QED
      BY <3>1, <3>2 DEF SKInv, SKWaiting
  <2>2. UNION {file[r] : r \in Roots} \subseteq Saves \cup {CarveOut}
    BY DEF SKInv, SKTypes
  <2>3. keying.root \in Roots \cup {"none"} /\ keying.keyed \subseteq Roots
    BY DEF SKInv, SKTypes, SKNames
  <2>4. QED
    BY <2>1, <2>2, <2>3 DEF SKInv, SKWaiting, SKTypeOK
<1>2. SavesStayInReach
  <2>1. ASSUME keying.last # NoKeys, NEW r \in Roots,
               r \in keying.keyed \/ (r = "main" /\ keying.settled.key = "main")
        PROVE  r \in InReach(keying.last)
    <3>1. CASE r = "main" /\ keying.settled.key = "main"
      <4>1. keying.settled = keying.last
        BY <3>1, SKFixed DEF SKInv, SKAnswers
      <4>2. QED
        BY <3>1, <4>1 DEF InReach
    <3>2. CASE r \in keying.keyed
      <4>1. SKNamed(keying.last)
        BY DEF SKInv, SKAnswers
      <4>2. keying.last.root = "tree" => r \in {"tree"} \cup keying.last.stale
        BY <2>1, <3>2, <4>1 DEF SKNamed
      <4>3. keying.last.root # "tree" => r = keying.last.root
        <5>1. keying.last.root # "tree" => "tree" \notin keying.keyed
          BY <2>1 DEF SKInv, SKAnswers
        <5>2. keying.last.root \in keying.keyed /\ "main" \notin keying.keyed
          BY <2>1, <4>1 DEF SKNamed, SKInv, SKRooted
        <5>3. QED
          BY <3>2, <5>1, <5>2 DEF Roots, SKInv, SKTypes
      <4>4. QED
        BY <4>2, <4>3 DEF InReach
    <3>3. QED
      BY <2>1, <3>1, <3>2
  <2>2. ASSUME NEW a \in Accesses, NEW r \in Roots, access[a].keys.key = r
        PROVE  r \in keying.keyed \/ (r = "main" /\ keying.settled.key = "main")
    <3>1. access[a].keys # NoKeys
      BY <2>2, SKFixed DEF Roots
    <3>2. QED
      BY <2>2, <3>1 DEF SKInv, SKAnswers, SKNamed
  <2>3. Saves \subseteq Accesses
    BY DEF Accesses
  <2>4. QED
    BY <2>1, <2>2, <2>3 DEF SavesStayInReach, SKInv, SKFiles
<1>3. ReadsSeeSaves
  <2>1. ASSUME NEW a \in Reads, access[a].pc = "opened", access[a].keys.key = keying.last.key
        PROVE  access[a].owed \subseteq file[access[a].keys.key]
    <3>1. a \in Accesses
      BY DEF Accesses
    <3>2. access[a].keys # NoKeys /\ SKNamed(access[a].keys)
      BY <2>1, <3>1 DEF SKInv, SKStages, SKStage, SKAnswers
    <3>3. keying.last # NoKeys
      BY <2>1, <3>2, SKFixed DEF SKNamed
    <3>4. keying.last.key = "dir" => "tree" \notin keying.keyed
      BY <3>3 DEF SKInv, SKAnswers, SKNamed
    <3>5. Current(access[a].keys.key)
      BY <2>1, <3>4 DEF Current, SKInv, SKAnswers
    <3>6. QED
      BY <2>1, <3>1, <3>5 DEF SKInv, SKCovered, SKCovers
  <2>2. QED
    BY <2>1 DEF ReadsSeeSaves
<1>4. QED
  BY <1>1, <1>2, <1>3 DEF KeyingIsSound, SKInv

LEMMA SKSettledStep == SKInv /\ [SKNext]_skVars =>
                           [~Unsettled => UNCHANGED <<keying.settled, keying.refused>>]_skVars
<1> SUFFICES ASSUME SKInv, [SKNext]_skVars, ~Unsettled
             PROVE  UNCHANGED <<keying.settled, keying.refused>>
  OBVIOUS
<1>1. attempt.pc = "none"
  BY DEF SKInv, SKAttempt
<1>2. ~(ProbeTree \/ ProbePrimary \/ ProbeAgain \/ Finish \/ Lapse)
  BY <1>1 DEF ProbeTree, ProbePrimary, ProbeAgain, Finish, Lapse
<1>3. ASSUME NEW a \in Accesses, Ask(a) PROVE keying' = keying
  BY <1>3, SMTT(60) DEF Ask
<1>4. ASSUME NEW a \in Accesses, Gate(a) \/ Fold(a) \/ Save(a) \/ ReadStore(a) PROVE keying' = keying
  BY <1>4 DEF Gate, Fold, Save, ReadStore
<1>5. CASE GitFlips \/ Review \/ MergeByHand \/ UNCHANGED skVars
  BY <1>5 DEF GitFlips, Review, MergeByHand, skVars
<1>6. QED
  BY <1>2, <1>3, <1>4, <1>5 DEF SKNext

SKFollows == \A a \in Saves :
                access[a].pc # "gate" /\ access'[a].pc = "gate" /\ access'[a].steady /\ setting.repo
                => access'[a].keys.final

LEMMA SKFinishes ==
    ASSUME Finish
    PROVE  \E answer \in {Resolved, NoKeys} :
              access' = [a \in Accesses |-> IF a \in {attempt.by} \cup (joined \ {b \in joined : Rejoins(b, Resolved.final)})
                                            THEN Answered(a, answer) ELSE access[a]]
<1>1. PICK trusted \in BOOLEAN :
        access' = [a \in Accesses |-> IF a \in {attempt.by} \cup (joined \ {b \in joined : Rejoins(b, Resolved.final)})
                                      THEN Answered(a, IF trusted THEN Resolved ELSE NoKeys) ELSE access[a]]
  BY DEF Finish
<1>2. QED
  BY <1>1

LEMMA SKFollowsStep == SKInv /\ [SKNext]_skVars => SKFollows
<1> SUFFICES ASSUME SKInv, [SKNext]_skVars, NEW a \in Saves, access[a].pc # "gate",
                    access'[a].pc = "gate", access'[a].steady, setting.repo
             PROVE  access'[a].keys.final
  BY DEF SKFollows
<1>1. a \in Accesses /\ a \notin Reads /\ access[a] \in SKAccess
  BY SKAssumption DEF Accesses, SKInv, SKTypes
<1>2. access'[a] # access[a]
  OBVIOUS
<1>3. CASE ProbeTree \/ ProbePrimary \/ ProbeAgain \/ Lapse \/ Review \/ MergeByHand \/ UNCHANGED skVars
  BY <1>2, <1>3 DEF ProbeTree, ProbePrimary, ProbeAgain, Lapse, Review, MergeByHand, skVars
<1>4. CASE GitFlips
  <2>1. access'[a] = [access[a] EXCEPT !.steady = FALSE]
    BY <1>1, <1>4 DEF GitFlips
  <2>2. QED
    BY <1>1, <2>1 DEF SKAccess
<1>5. ASSUME NEW b \in Accesses, Ask(b) PROVE access'[a].keys.final
  <2>1. b = a
    BY <1>1, <1>2, <1>5 DEF Ask, SKInv, SKTypes, StartAttempt
  <2>2. access[a].pc = "ready"
    BY <1>5, <2>1 DEF Ask
  <2>3. ~Unsettled
    <3>1. ASSUME Unsettled PROVE access'[a].pc = "asks"
      <4>1. access' = [access EXCEPT ![a] = [Unmade EXCEPT !.pc = "asks", !.steady = git]]
        BY <1>5, <2>1, <3>1 DEF Ask, StartAttempt
      <4>2. QED
        BY <1>1, <4>1 DEF SKInv, SKTypes, Unmade
    <3>2. QED
      BY <3>1
  <2>4. access' = [access EXCEPT ![a] = [Answered(a, keying.settled) EXCEPT !.steady = git]]
    BY <1>5, <2>1, <2>3 DEF Ask
  <2>5. Answered(a, keying.settled) \in SKAccess
    BY <1>1, <2>2, SKTakes, SKSettles
  <2>6. access'[a] = [Answered(a, keying.settled) EXCEPT !.steady = git]
    BY <1>1, <2>4 DEF SKInv, SKTypes
  <2>7. access'[a].pc = Answered(a, keying.settled).pc /\ access'[a].keys = Answered(a, keying.settled).keys
    BY <2>5, <2>6 DEF SKAccess
  <2>8. access'[a].keys = keying.settled /\ keying.settled # NoKeys
    BY <1>1, <2>2, <2>7, SKTakes, SKSettles, SKFixed DEF Answered
  <2>9. QED
    BY <2>8 DEF SKInv, SKAnswers
<1>6. ASSUME NEW b \in Accesses, Gate(b) \/ Fold(b) \/ Save(b) \/ ReadStore(b) PROVE FALSE
  <2>1. CASE Gate(b)
    <3>1. b = a
      BY <1>1, <1>2, <2>1 DEF Gate, SKInv, SKTypes
    <3>2. QED
      BY <2>1, <3>1 DEF Gate
  <2>2. CASE Save(b) \/ ReadStore(b)
    <3>1. access' = [access EXCEPT ![b] = Made]
      BY <2>2 DEF Save, ReadStore
    <3>2. QED
      BY <1>1, <1>2, <3>1, SKFixed DEF SKInv, SKTypes
  <2>3. CASE Fold(b)
    <3>1. CASE SKEnding(b, "opened") \/ SKEnding(b, "done")
      <4>1. \/ access'[a] = access[a] \/ access'[a] = Made
            \/ access'[a] = [access[a] EXCEPT !.pc = "opened", !.todo = <<>>, !.with = 0]
        BY <1>1, <3>1 DEF SKEnding
      <4>2. QED
        BY <1>1, <1>2, <4>1, SKFixed DEF SKAccess
    <3>2. CASE access' = [c \in Accesses |-> IF c = b THEN [access[b] EXCEPT !.todo = Tail(@)]
                                ELSE IF access[c].keys.key = access[b].keys.key THEN access[c]
                                ELSE [access[c] EXCEPT !.owed = @ \ file[Head(access[b].todo)]]]
      BY <1>1, <3>2 DEF SKAccess
    <3>3. QED
      BY <2>3, <3>1, <3>2 DEF Fold, SKEnding
  <2>4. QED
    BY <1>6, <2>1, <2>2, <2>3
<1>7. CASE Finish
  <2> DEFINE again == {b \in joined : Rejoins(b, Resolved.final)}
             given == {attempt.by} \cup (joined \ again)
  <2>1. PICK answer \in {Resolved, NoKeys} :
            access' = [b \in Accesses |-> IF b \in given THEN Answered(b, answer) ELSE access[b]]
    BY <1>7, SKFinishes
  <2>2. a \in given /\ access'[a] = Answered(a, answer)
    BY <1>1, <1>2, <2>1
  <2>3. attempt.pc = "resolve"
    BY <1>7 DEF Finish
  <2>4. answer = Resolved /\ access'[a].keys = Resolved /\ access'[a].steady = access[a].steady
    <3>1. answer # NoKeys
      BY <2>2, SKFixed DEF Answered
    <3>2. access'[a] = [access[a] EXCEPT !.pc = "gate", !.keys = answer]
      BY <1>1, <2>2, <3>1 DEF Answered
    <3>3. QED
      BY <1>1, <3>1, <3>2 DEF SKAccess
  <2>5. Resolved.final = (keying.confirmed /\ (setting.scope = "worktree" \/ attempt.key = "main"))
    BY DEF Resolved
  <2>6. CASE a = attempt.by
    BY <2>3, <2>4, <2>5, <2>6 DEF SKInv, SKSteady
  <2>7. CASE a # attempt.by
    <3>1. a \notin again /\ a \in joined
      BY <2>2, <2>7
    <3>2. QED
      BY <2>4, <3>1 DEF Rejoins
  <2>8. QED
    BY <2>6, <2>7
<1>8. QED
  BY <1>3, <1>4, <1>5, <1>6, <1>7 DEF SKNext

SKPasses == legacy /\ access # access' => \A r \in {"tree", "main"} : file[r] = {} => file'[r] = {}

LEMMA SKPassesStep == SKInv /\ [SKNext]_skVars => SKPasses
<1> SUFFICES ASSUME SKInv, [SKNext]_skVars, legacy, access # access', NEW r \in {"tree", "main"},
                    file[r] = {}
             PROVE  file'[r] = {}
  BY DEF SKPasses
<1>0. r \in Roots
  BY DEF Roots
<1>1. CASE ProbeTree \/ ProbePrimary \/ ProbeAgain \/ Finish \/ Lapse \/ GitFlips \/ Review \/ UNCHANGED skVars
  BY <1>1 DEF ProbeTree, ProbePrimary, ProbeAgain, Finish, Lapse, GitFlips, Review, skVars
<1>2. CASE MergeByHand
  BY <1>2 DEF MergeByHand
<1>3. ASSUME NEW a \in Accesses, Ask(a) \/ Gate(a) \/ ReadStore(a) PROVE file' = file
  BY <1>3 DEF Ask, Gate, ReadStore
<1>4. ASSUME NEW a \in Accesses, access[a].pc \in {"folds", "opened"} PROVE access[a].keys.key # r
  BY <1>4 DEF SKInv, SKReviewed
<1>5. ASSUME NEW a \in Accesses, Save(a) PROVE file'[r] = {}
  <2>1. access[a].pc = "opened" /\ file' = [file EXCEPT ![access[a].keys.key] = @ \cup {a}]
    BY <1>5 DEF Save
  <2>2. QED
    BY <1>0, <1>4, <2>1 DEF SKInv, SKTypes
<1>6. ASSUME NEW a \in Accesses, Fold(a) PROVE file'[r] = {}
  <2>1. /\ access[a].pc = "folds"
        /\ \/ file' = file
           \/ file' = [file EXCEPT ![access[a].keys.key] = @ \cup file[Head(access[a].todo)],
                                   ![Head(access[a].todo)] = {}]
    BY <1>6 DEF Fold
  <2>2. ASSUME NEW k, NEW f, k # r, file' = [file EXCEPT ![k] = @ \cup file[f], ![f] = {}]
        PROVE  file'[r] = {}
    <3>1. file \in [Roots -> SUBSET (Saves \cup {CarveOut})]
      BY DEF SKInv, SKTypes
    <3>2. CASE f = r
      BY <1>0, <2>2, <3>1, <3>2
    <3>3. CASE f # r
      BY <1>0, <2>2, <3>1, <3>3
    <3>4. QED
      BY <3>2, <3>3
  <2>3. PICK k, f : k = access[a].keys.key /\ f = Head(access[a].todo)
    OBVIOUS
  <2>4. k # r
    BY <1>4, <2>1, <2>3
  <2>5. file' = file \/ file' = [file EXCEPT ![k] = @ \cup file[f], ![f] = {}]
    BY <2>1, <2>3
  <2>6. QED
    BY <2>2, <2>4, <2>5
<1>7. QED
  BY <1>1, <1>2, <1>3, <1>5, <1>6 DEF SKNext

\* Saves stay in reach of the store in use, a read sees what was on disk, fallbacks
\* are marked, a settled keying is final and goes with git, and nothing is folded
\* past an unreviewed store (createStoreKeyingResolver and createStoreOpener).
THEOREM KeysAreKeptHolds == SKSpec => KeysAreKept
<1>1. SKInit => SKInv
  BY SKInitially
<1>2. SKInv /\ [SKNext]_skVars => SKInv'
  BY SKStepKeeps
<1>3. SKInv => KeyingIsSound
  BY SKSound
<1>4. SKInv /\ [SKNext]_skVars => [~Unsettled => UNCHANGED <<keying.settled, keying.refused>>]_skVars
  BY SKSettledStep
<1>5. SKInv /\ [SKNext]_skVars => [SKFollows]_skVars
  BY SKFollowsStep
<1>6. SKInv /\ [SKNext]_skVars => [SKPasses]_skVars
  BY SKPassesStep
<1>7. QED
  BY <1>1, <1>2, <1>3, <1>4, <1>5, <1>6, PTL
     DEF SKSpec, KeysAreKept, SettledForGood, SavesFollowGit, NothingPassesLegacy, SKFollows, SKPasses
=============================================================================
