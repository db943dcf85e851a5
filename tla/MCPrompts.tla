------------------------------ MODULE MCPrompts ------------------------------
(***************************************************************************)
(* What approve-for-me does about pending prompts, checked side by side: a *)
(* behaviour is the scheduler's, that of the sweeper and the unattended    *)
(* deny, or that of the handler which judges one prompt; the other two     *)
(* stay at rest.                                                           *)
(***************************************************************************)
EXTENDS MCBatchScheduler, LeftPrompts, PromptJudging

VARIABLE part

\* Two prompts of one turn, with a mishap, or of one turn each, without.
BothPlans == {<<1, 1>>, <<1, 2>>}

PromptsInit ==
    /\ part \in {"scheduler", "left", "judging"}
    /\ Init /\ LPInit /\ PJInit
    /\ disk = "parallel"
    /\ part # "left" => turn.of = <<1, 1>>
    /\ mishaps = IF turn.of = <<1, 1>> THEN 0 ELSE Mishaps

PromptsNext ==
    /\ UNCHANGED part
    /\ \/ part = "scheduler" /\ Next /\ UNCHANGED <<lpVars, pjVars>>
       \/ part = "left" /\ LPNext /\ UNCHANGED <<vars, pjVars>>
       \/ part = "judging" /\ PJNext /\ UNCHANGED <<vars, lpVars>>

PromptsSpec == PromptsInit /\ [][PromptsNext]_<<part, vars, lpVars, pjVars>>
=============================================================================
