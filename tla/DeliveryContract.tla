------------------------- MODULE DeliveryContract -------------------------
(***************************************************************************)
(* What the cron scheduler may rely on when it calls deps.deliver          *)
(* (SchedulerDeps and DeliveryResult in plugins/cron/src/scheduler.ts):    *)
(*                                                                         *)
(*   delivered   the prompt is stored on the host, once;                   *)
(*   deferred    nothing was sent;                                         *)
(*   rejected    nothing was enqueued, and nothing of this attempt will    *)
(*               ever be: a retry cannot duplicate the prompt;             *)
(*   unknown     the prompt may have landed, may land later, or never.     *)
(*                                                                         *)
(* CronScheduler's Outcomes sums the landings of an attempt up in the step *)
(* that returns; here a landing is a step of the host's own.               *)
(***************************************************************************)
EXTENDS Naturals

CONSTANT Jobs

VARIABLES
    phase,    \* where the delivery of a job is: "none", "deliver", "dispatched"
    answer,   \* what its last delivery returned
    open,     \* the jobs whose last attempt may still land
    hit,      \* the jobs whose last attempt has landed
    landed    \* prompts of the job the host has stored

vars == <<phase, answer, open, hit, landed>>

Answers == {"none", "delivered", "deferred", "rejected", "unknown"}

Init ==
    /\ phase = [j \in Jobs |-> "none"]
    /\ answer = [j \in Jobs |-> "none"]
    /\ open = {}
    /\ hit = {}
    /\ landed = [j \in Jobs |-> 0]

\* The scheduler hands over a fire; a job whose last one is unknown is parked.
Call(j) ==
    /\ phase[j] = "none"
    /\ answer[j] # "unknown"
    /\ phase' = [phase EXCEPT ![j] = "deliver"]
    /\ UNCHANGED <<answer, open, hit, landed>>

\* beginAttempt answered with a message ID, and the prompt is sent under it.
Dispatch(j) ==
    /\ phase[j] = "deliver"
    /\ phase' = [phase EXCEPT ![j] = "dispatched"]
    /\ open' = open \cup {j}
    /\ hit' = hit \ {j}
    /\ UNCHANGED <<answer, landed>>

Land(j) ==
    /\ j \in open
    /\ open' = open \ {j}
    /\ hit' = hit \cup {j}
    /\ landed' = [landed EXCEPT ![j] = @ + 1]
    /\ UNCHANGED <<phase, answer>>

Return(j, outcome) ==
    /\ \/ phase[j] = "deliver" /\ outcome \in {"deferred", "rejected"}
       \/ phase[j] = "dispatched" /\ outcome = "delivered" /\ j \in hit
       \/ phase[j] = "dispatched" /\ outcome = "rejected" /\ j \notin hit
       \/ phase[j] = "dispatched" /\ outcome = "unknown"
    /\ phase' = [phase EXCEPT ![j] = "none"]
    /\ answer' = [answer EXCEPT ![j] = outcome]
    /\ open' = IF outcome = "unknown" THEN open ELSE open \ {j}
    /\ UNCHANGED <<hit, landed>>

\* The host will never store what it still holds open (the request was lost,
\* or the forked prompt work died).
Lose(j) ==
    /\ j \in open
    /\ open' = open \ {j}
    /\ UNCHANGED <<phase, answer, hit, landed>>

Next ==
    \E j \in Jobs :
        \/ Call(j)
        \/ Dispatch(j)
        \/ Land(j)
        \/ Lose(j)
        \/ \E outcome \in Answers : Return(j, outcome)

Spec == Init /\ [][Next]_vars
=============================================================================
