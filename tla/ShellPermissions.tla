-------------------------- MODULE ShellPermissions --------------------------
(***************************************************************************)
(* What a background command must be allowed to do before it is started:   *)
(* analyzeShellCommand (plugins/background-tasks/src/shell-permissions.ts) *)
(* walks the parsed script and returns the commands to ask for and the     *)
(* directories outside the project they reach, or refuses the script.      *)
(*                                                                         *)
(* A script is a tree.  A word is a literal, known by what it means to the *)
(* analysis, or one that is not known before the shell runs.  "far" is a   *)
(* path that leads out of the project, "link" a bare name of one.  The     *)
(* text of a command is the command itself.                                *)
(***************************************************************************)
EXTENDS Integers, Sequences, SequencesExt, FiniteSetsExt

VARIABLES script, grant   \* the script, and the answer to it

shVars == <<script, grant>>

Lit(v) == [k |-> "lit", v |-> v, s |-> <<>>]
Unknown(k) == [k |-> k, v |-> k, s |-> <<>>]        \* "dynamic" or "glob"
Subst(n) == [k |-> "subst", v |-> "$", s |-> n]     \* $(n)
Quote(n) == [k |-> "quote", v |-> "text", s |-> n]  \* 'n', as sh -c takes it

\* A simple command: its words, the first being its name, and its redirects.
Cmd(words, to) == [t |-> "Command", words |-> words, to |-> to]
\* Lists, pipelines, groups, conditionals, loops: all parts are visited.
Compound(parts) == [t |-> "compound", words |-> parts, to |-> <<>>]
Unsupported == [t |-> "other", words |-> <<>>, to |-> <<>>]

Files == {"cat"}                     \* FILES: every operand is a file
Prints == {"echo"}                   \* PRINT
Refused == {"cd", "eval"}            \* CWD and STATE
Wrappers == {"env"}                  \* exec, command, env, nohup, nice, timeout
Shells == {"sh"}

-----------------------------------------------------------------------------
Rejected == [ok |-> FALSE, patterns |-> {}, far |-> {}]
Ok(patterns, far) == [ok |-> TRUE, patterns |-> patterns, far |-> far]

\* All must be accepted; what they ask for adds up.
Together(results) ==
    IF \E r \in results : ~r.ok THEN Rejected
    ELSE Ok(UNION {r.patterns : r \in results}, UNION {r.far : r \in results})

Known(w) == w.k \in {"lit", "quote"}
Path(w) == IF Known(w) /\ w.v \in {"far", "link"} THEN Ok({}, {w.v}) ELSE Ok({}, {})

RECURSIVE Analyze(_), Executable(_)

\* words: the commands substituted into a word.
WordOf(w) == IF w.k = "subst" THEN Analyze(w.s) ELSE Ok({}, {})

\* redirects: the target is known.
Redirect(w) == IF Known(w) THEN Path(w) ELSE Rejected

\* Mutant of Operands: the paths among the arguments are not asked for.
MutOperands(name, args) ==
    IF name \notin Prints /\ \E w \in args : ~Known(w) THEN Rejected ELSE Ok({}, {})

\* The arguments of an ordinary command: none unknown, all asked for that lead
\* out of the project.  Of one that only prints, the substitutions count.
Operands(name, args) ==
    IF name \in Prints THEN Together({WordOf(w) : w \in args})
    ELSE IF \E w \in args : ~Known(w) THEN Rejected ELSE Together({Path(w) : w \in args})

\* executable: one simple command; a wrapper's command and a shell's script are
\* analyzed in its place.
Executable(c) ==
    LET name == Head(c.words)
        args == Range(Tail(c.words))
        inner ==
            CASE name.v \in Refused -> Rejected
              [] name.v \in Wrappers ->
                    IF Len(c.words) > 1 /\ c.words[2].k = "lit" /\ c.words[2].v # "-c"
                    THEN Executable(Cmd(Tail(c.words), <<>>)) ELSE Rejected
              [] name.v \in Shells ->
                    IF Len(c.words) = 3 /\ c.words[2].v = "-c" /\ c.words[3].k = "quote"
                    THEN Analyze(c.words[3].s) ELSE Rejected
              [] OTHER -> Operands(name.v, args)
    IN  IF name.k # "lit" THEN Rejected
        ELSE Together({Ok({c}, {}), inner, Path(name)}
                         \cup {WordOf(w) : w \in args} \cup {Redirect(w) : w \in Range(c.to)})

\* visit and script
Analyze(n) ==
    CASE n.t = "Command" -> Executable(n)
      [] n.t = "compound" -> Together({Analyze(m) : m \in Range(n.words)})
      [] OTHER -> Rejected

-----------------------------------------------------------------------------
(* What /bin/sh does with a script, for comparison. *)

RECURSIVE Executes(_), Touches(_)

\* The scripts inside a command: substitutions, and what it starts itself.
Inside(c) ==
    {w.s : w \in {x \in Range(c.words) \cup Range(c.to) : x.k = "subst"}}
        \cup (IF c.words[1].v \in Wrappers /\ Len(c.words) > 1
              THEN {Cmd(Tail(c.words), <<>>)} ELSE {})
        \cup {w.s : w \in {x \in Range(c.words) : x.k = "quote" /\ c.words[1].v \in Shells}}

Executes(n) ==
    IF n.t = "Command" THEN {n} \cup UNION {Executes(m) : m \in Inside(n)}
    ELSE UNION {Executes(m) : m \in Range(n.words)}

\* The ways out of the project it takes by name.
Touches(n) ==
    IF n.t # "Command" THEN UNION {Touches(m) : m \in Range(n.words)}
    ELSE LET named == IF n.words[1].v \in Prints THEN {} ELSE Range(n.words)
         IN  {w.v : w \in {x \in named \cup Range(n.to) : x.v \in {"far", "link"}}}
                \cup UNION {Touches(m) : m \in Inside(n)}

Moves(n) == \E c \in Executes(n) : c.words[1].v \in Refused
-----------------------------------------------------------------------------
(* Small scripts of every form. *)

Plain == {Lit(v) : v \in {"make", "cat", "echo", "cd", "env", "sh", "-c", "far", "link"}}
Atoms == Plain \cup {Unknown("dynamic"), Unknown("glob")}
Short == {Cmd(<<a>>, <<>>) : a \in Atoms}
            \cup {Cmd(<<a, b>>, <<>>) : a \in Plain, b \in Atoms}
Small == {Cmd(<<a, b>>, to) : a \in {Lit("make"), Lit("echo")}, b \in Atoms,
                               to \in {<<>>, <<Lit("far")>>, <<Unknown("dynamic")>>}}
Deeper == {Cmd(<<a, b>>, <<>>) : a \in Plain, b \in {Subst(n) : n \in Short}}
            \cup {Cmd(<<a, b, c>>, <<>>) :
                    a \in {Lit("env"), Lit("sh"), Lit("make")},
                    b \in {Lit("-c"), Lit("sh"), Lit("echo"), Lit("env")},
                    c \in {f[n] : f \in {[m \in Short |-> Quote(m)], [m \in Short |-> Subst(m)]},
                                  n \in Short}}
Scripts == Short \cup Small \cup Deeper
              \cup {Compound(<<m, n>>) : m \in Small \cup {Unsupported}, n \in Small}

SHInit == script \in Scripts /\ grant = <<>>

AnalyzeShellCommand == grant = <<>> /\ grant' = Analyze(script) /\ UNCHANGED script

SHNext == AnalyzeShellCommand

\* Every command the shell will execute has been asked for, wherever it stands
\* in the script, and so has every way out of the project; no accepted script
\* moves to another directory, where its paths would mean something else.
GrantCoversScript ==
    grant # <<>> /\ grant.ok =>
        /\ Executes(script) \subseteq grant.patterns
        /\ Touches(script) \subseteq grant.far
        /\ ~Moves(script)
=============================================================================
