-------------------------- MODULE ConcurrencyPool --------------------------
(***************************************************************************)
(* The slot pool of the classifier                                         *)
(* (createConcurrencyPool in plugins/approve-for-me/src/server/pool.ts):   *)
(* up to "limit" verdicts in flight, a bounded queue of waiters in order   *)
(* of arrival, and waiters that leave when their prompt is answered.       *)
(*                                                                         *)
(* The limit comes with every acquire, because the settings are read anew  *)
(* for every prompt; it may go up and down while slots are held.           *)
(***************************************************************************)
EXTENDS Integers, Sequences, FiniteSets, SequencesExt

CONSTANTS
    Jobs,          \* the classifications that use the pool
    Limits,        \* the values maxConcurrent takes
    MaxQueued,     \* the bound of the queue
    MaxTickets     \* bound on the arrivals

ASSUME PoolAssumption ==
    /\ IsFiniteSet(Jobs)
    /\ Limits \subseteq Nat \ {0}
    /\ MaxQueued \in Nat
    /\ MaxTickets \in Nat

VARIABLES
    running,     \* slots taken
    limit,       \* the limit of the last acquire
    queue,       \* the waiting jobs
    pc,          \* what a job does: "out", "waiting" or "slot"
    aborted,     \* jobs whose signal is aborted
    ticket,      \* auxiliary: the arrival number of a job
    tickets      \* arrivals so far

cpVars == <<running, limit, queue, pc, aborted, ticket, tickets>>

CPInit ==
    /\ running = 0
    /\ limit = 0
    /\ queue = <<>>
    /\ pc = [j \in Jobs |-> "out"]
    /\ aborted = {}
    /\ ticket = [j \in Jobs |-> 0]
    /\ tickets = 0

\* Mutant of Drained: freed slots are left to the jobs that come next.
MutDrained(q, run, lim) == 0

\* How many waiters drain hands a slot to.
Drained(q, run, lim) == IF run >= lim THEN 0
                        ELSE IF Len(q) < lim - run THEN Len(q) ELSE lim - run

Granted(q, n) == {q[i] : i \in 1..n}

Behind(q, n) == SubSeq(q, n + 1, Len(q))

\* drain: each granted waiter goes on with a slot.
Served(g) == [k \in Jobs |-> IF k \in Granted(queue, g) THEN "slot" ELSE pc[k]]

\* Mutant of FreeSlot: one slot above the limit.
MutFreeSlot(q, run, lim) == run <= lim /\ q = <<>>

FreeSlot(q, run, lim) == run < lim /\ q = <<>>

Queued(q, j) == Append(q, j)

\* acquire: the new limit drains the queue first; then the job has a slot at
\* once, or is refused, or waits.
Acquire(j, n) ==
    LET g == Drained(queue, running, n)
        rest == Behind(queue, g)
        free == FreeSlot(rest, running + g, n)
        waits == ~free /\ j \notin aborted /\ Len(rest) < MaxQueued
    IN  /\ pc[j] = "out"
        /\ tickets < MaxTickets
        /\ tickets' = tickets + 1
        /\ ticket' = [ticket EXCEPT ![j] = tickets']
        /\ limit' = n
        /\ queue' = IF waits THEN Queued(rest, j) ELSE rest
        /\ running' = running + g + (IF free THEN 1 ELSE 0)
        /\ pc' = [Served(g) EXCEPT ![j] = IF free THEN "slot"
                                          ELSE IF waits THEN "waiting" ELSE "out"]
        /\ UNCHANGED aborted

\* The job is done, or it saw that its prompt was answered; either way the
\* slot goes back, and to the next waiters.
ReleaseSlot(j) ==
    LET g == Drained(queue, running - 1, limit)
    IN  /\ pc[j] = "slot"
        /\ running' = running - 1 + g
        /\ queue' = Behind(queue, g)
        /\ pc' = [Served(g) EXCEPT ![j] = "out"]
        /\ aborted' = aborted \ {j}
        /\ UNCHANGED <<limit, ticket, tickets>>

\* abandon: the waiter leaves its place in the queue.
Abandon(j) ==
    \E i \in DOMAIN queue :
        /\ queue[i] = j
        /\ queue' = RemoveAt(queue, i)
        /\ UNCHANGED running

\* The prompt is answered: a waiter leaves the queue, a job with a slot goes on
\* until it looks at its signal.
Abort(j) ==
    /\ j \notin aborted
    /\ pc[j] # "out"
    /\ IF pc[j] = "waiting"
       THEN /\ Abandon(j)
            /\ pc' = [pc EXCEPT ![j] = "out"]
            /\ UNCHANGED aborted
       ELSE aborted' = aborted \cup {j} /\ UNCHANGED <<queue, pc, running>>
    /\ UNCHANGED <<limit, ticket, tickets>>

\* The prompt is answered before the job asks for a slot.
AbortAtOnce(j) ==
    /\ pc[j] = "out"
    /\ aborted' \in {aborted \cup {j}, aborted \ {j}}
    /\ UNCHANGED <<running, limit, queue, pc, ticket, tickets>>

CPNext ==
    \E j \in Jobs :
        \/ \E n \in Limits : Acquire(j, n)
        \/ ReleaseSlot(j)
        \/ Abort(j)
        \/ AbortAtOnce(j)

\* A classification has a deadline, after which its slot is released.
CPFairness == \A j \in Jobs : WF_cpVars(ReleaseSlot(j))

CPSpec == CPInit /\ [][CPNext]_cpVars
CPFairSpec == CPSpec /\ CPFairness

-----------------------------------------------------------------------------
Holders == {j \in Jobs : pc[j] = "slot"}
Waiters == {queue[i] : i \in 1..Len(queue)}

PoolTypeOK ==
    /\ running \in Nat
    /\ limit \in Limits \cup {0}
    /\ queue \in Seq(Jobs)
    /\ pc \in [Jobs -> {"out", "waiting", "slot"}]
    /\ aborted \subseteq Jobs
    /\ tickets \in Nat
    /\ ticket \in [Jobs -> 0..tickets]

\* A slot is counted for exactly the jobs that hold one: none leaks when a
\* waiter is answered, refused or granted.
SlotsAreCounted == running = Cardinality(Holders)

\* The queue holds the waiting jobs, each once, in order of arrival, within its
\* bound: an answered prompt does not crowd out a live one.
QueueIsLive ==
    /\ Waiters = {j \in Jobs : pc[j] = "waiting"}
    /\ Waiters \cap aborted = {}
    /\ \A i, k \in 1..Len(queue) : i < k => ticket[queue[i]] < ticket[queue[k]]
    /\ Len(queue) <= MaxQueued

\* No slot idles while a job waits, however the limit moved.
NoIdleSlot == queue # <<>> => running >= limit

\* All of it together: an invariant that every step preserves by itself.
PoolInv == PoolTypeOK /\ SlotsAreCounted /\ QueueIsLive /\ NoIdleSlot

\* No job is given a slot while one that came before it goes on waiting.
NoOvertaking ==
    [][\A j, k \in Jobs :
          /\ pc[j] # "slot" /\ pc'[j] = "slot"
          /\ pc[k] = "waiting" /\ pc'[k] = "waiting"
          => ticket[k] > ticket'[j]]_cpVars

\* A slot is only given out below the limit of the moment: after a cut of the
\* limit the pool shrinks before it grants again.
GrantsWithinLimit == [][Holders' \ Holders # {} => running' <= limit']_cpVars

\* Every waiter gets a slot or leaves.
WaitersAreServed == \A j \in Jobs : pc[j] = "waiting" ~> pc[j] # "waiting"

\* The pool accounts for every slot, and slots are given in order and within the
\* limit.
PoolIsSound == []PoolInv /\ NoOvertaking /\ GrantsWithinLimit
=============================================================================
