----------------------------- MODULE MCKeeping -----------------------------
(***************************************************************************)
(* What must not be lost, checked side by side: the rules of stores that   *)
(* are saved, folded and adopted, and the notes of a child to its parent.  *)
(* A behaviour is one part's; the other stays at rest.                     *)
(***************************************************************************)
EXTENDS StoreLock, SubagentNotify, StoredApprovals

CONSTANTS
    f1, a1, s1, s2,     \* processes
    shared, w1,         \* stores
    r1, r2, r3          \* rules

VARIABLE part

TwoStores == {shared, w1}

\* Movers move w1, s1 saves to the shared store, s2 to w1.
StoreOfAll == [p \in Procs |-> IF p \in {f1, a1, s2} THEN w1 ELSE shared]
RuleOfAll == [p \in Savers |-> IF p = s1 THEN r2 ELSE r3]
BeforeAll == [s \in Stores |-> IF s = shared THEN {} ELSE {r1}]

SpawnWriteKill == {<<"spawn", kind>> : kind \in {"send", "post", "kill"}}

MCInit ==
    /\ part \in {"stores", "notes", "approvals"}
    \* the directory of w1 is read-only until it is made writable, if ever
    /\ Init /\ readonly = Unwritable
    \* one mishap: a broken run, or a failed request next to a send or a kill
    /\ SNRest /\ (\/ faults = MaxFaults /\ interrupts = 0
                  \/ faults = 0 /\ interrupts = MaxInterrupts)
    /\ (\E c \in Calls : call[c].kind = "post") => faults = MaxFaults
    /\ part # "notes" => \A c \in Calls : call[c].kind \in {"spawn", "post"}
    \* two of: an edit of the session's rules, one of the store, a failure
    /\ SARest
    /\ IF part = "approvals"
       THEN /\ allowed \in BOOLEAN
            /\ \/ sessionEdits = MaxSessionEdits /\ storeEdits = 0 /\ failures = 0
               \/ sessionEdits = 0 /\ storeEdits = MaxStoreEdits /\ failures = 0
               \/ sessionEdits = 0 /\ storeEdits = 0 /\ failures = MaxFailures
       ELSE SAFresh /\ allowed = FALSE

MCNext ==
    /\ UNCHANGED part
    /\ \/ part = "stores" /\ Next /\ UNCHANGED <<snVars, saVars>>
       \/ part = "notes" /\ SNNext /\ UNCHANGED <<vars, saVars>>
       \/ part = "approvals" /\ SANext /\ UNCHANGED <<vars, snVars>>

MCSpec == MCInit /\ [][MCNext]_<<part, vars, snVars, saVars>>
=============================================================================
