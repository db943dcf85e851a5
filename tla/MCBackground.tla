---------------------------- MODULE MCBackground ----------------------------
(***************************************************************************)
(* The tasks of one server, the analysis of commands, the files that       *)
(* servers and the terminal share, and the output of one task, checked     *)
(* side by side: a behaviour is one part's, and the others stay at rest.   *)
(***************************************************************************)
EXTENDS BackgroundTasks, ShellPermissions, TaskChannel, OutputBuffer

CONSTANTS k1, k2

VARIABLE part

TwoKills == {k1, k2}
KillSymmetry == Permutations(TwoKills)

\* The pattern of the waits: a whole line "ab".
LineAB == {<<"a", "b">>}

Init ==
    /\ part \in {"tasks", "shell", "files", "output"}
    /\ BTInit /\ (part # "tasks" => posix)
    /\ SHInit /\ (part # "shell" => script = Cmd(<<Lit("make")>>, <<>>))
    /\ TCInit /\ OBInit

Next ==
    /\ UNCHANGED part
    /\ \/ part = "tasks" /\ BTNext /\ UNCHANGED <<shVars, tcVars, obVars>>
       \/ part = "shell" /\ SHNext /\ UNCHANGED <<btVars, tcVars, obVars>>
       \/ part = "files" /\ TCNext /\ UNCHANGED <<btVars, shVars, obVars>>
       \/ part = "output" /\ OBNext /\ UNCHANGED <<btVars, shVars, tcVars>>

Spec == Init /\ [][Next]_<<part, btVars, shVars, tcVars, obVars>>

-----------------------------------------------------------------------------
\* A command may touch what was granted for it and nothing else, and what it says
\* is told whole and in time (analyzeShellCommand, and the waits of background_output).
CommandsAreCovered == GrantCoversScript /\ OutputIsTold
=============================================================================
