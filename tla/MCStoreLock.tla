---------------------------- MODULE MCStoreLock ----------------------------
(***************************************************************************)
(* The permission stores, part by part: two patchers of one store, which   *)
(* is empty at first, the keying of a session's store, and the rule        *)
(* engine.  A behaviour is one part's; the others stay at rest.            *)
(***************************************************************************)
EXTENDS StoreLock, StoreKeying, PermissionRules

CONSTANTS p1, p2, shared

VARIABLE part

OneStore == {shared}
StoreOfAll == [p \in Procs |-> shared]
RuleOfAll == [p \in Patchers |-> p]
BeforeAll == [s \in Stores |-> {}]

\* Wildcards alone and around a space, and every short string.
Globs == UNION {[1..k -> {"a", " ", "*", "?"}] : k \in 0..2}
         \cup {<<"a", " ", "*">>, <<"a", " ", "?">>, <<" ", "a", "*">>, <<"*", " ", "*">>}
Keys == {<<"a">>, <<"*">>}
OneLetter == {<<"a">>, <<"?">>, <<"*">>}
Strings == UNION {[1..k -> {"a", "b", " "}] : k \in 0..3}

Parts == {"patches", "keying", "rules"}

SKRest == SKInit /\ setting = [scope |-> "worktree", named |-> TRUE, repo |-> TRUE]
          /\ git /\ file["tree"] = {} /\ ~legacy

MCInit ==
    /\ part \in Parts
    /\ Init
    /\ IF part = "keying" THEN SKInit ELSE SKRest
    /\ IF part = "rules" THEN PRInit ELSE PRRest

MCNext ==
    /\ UNCHANGED part
    /\ \/ part = "patches" /\ Next /\ UNCHANGED <<skVars, prVars>>
       \/ part = "keying" /\ SKNext /\ UNCHANGED <<vars, prVars>>
       \/ part = "rules" /\ PRNext /\ UNCHANGED <<vars, skVars>>

MCSpec == MCInit /\ [][MCNext]_<<part, vars, skVars, prVars>> /\ Fairness
=============================================================================
