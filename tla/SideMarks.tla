------------------------------ MODULE SideMarks ------------------------------
(***************************************************************************)
(* What btw's server half knows of one session: whether it is a fork of a  *)
(* side question (plugins/btw/src/index.ts).  It learns it from session    *)
(* events and, when it does not know, from session.get; tool calls, prompts*)
(* and cache keys are decided by what resolveMarker returns.               *)
(*                                                                         *)
(* The session is known by its versions with the host: a fork is bare when *)
(* it is made, marked before it is prompted, and bare again once the user  *)
(* opens it; any other session is never marked.  Events come in order, and *)
(* any of them may be missed.                                              *)
(***************************************************************************)
EXTENDS Integers, Sequences

CONSTANTS Uses, MaxVersions

VARIABLES
    isFork,
    version,    \* what the host has said of the session so far: "bare", "marked", "gone"
    heard,      \* the last version an event told of
    knownMark,      \* marks and normal: "marked", "normal" or "unknown"
    use         \* tool.execute.before, permission.asked and chat.params in flight

mkVars == <<isFork, version, heard, knownMark, use>>

Using(kind, pc, marker) ==
    [kind |-> kind, pc |-> pc, stale |-> FALSE, seen |-> 0, marker |-> marker]
NoUse == Using("none", "none", "unknown")
UseKinds == {"tool", "prompt", "params"}
LastVersion == Len(version)
MarkOf(v) == CASE version[v] = "gone" -> "unknown"
              [] version[v] = "marked" -> "marked"
              [] version[v] = "bare" -> "normal"

MKInit ==
    /\ isFork \in BOOLEAN
    /\ version = <<"bare">>
    /\ heard = 0 /\ knownMark = "unknown"
    /\ use = [u \in Uses |-> NoUse]

-----------------------------------------------------------------------------
(* The host                                                                *)

\* The marker of a fork, a beat of its lease, its removal by an open; a normal
\* session changes its title.
VersionAdded ==
    /\ LastVersion < MaxVersions /\ version[LastVersion] # "gone"
    /\ \E v \in {"bare", "marked"} :
          /\ v = "marked" => isFork
          /\ isFork /\ LastVersion = 1 => v = "marked"
          /\ version' = Append(version, v)
    /\ UNCHANGED <<isFork, heard, knownMark, use>>

VersionGone ==
    /\ LastVersion < MaxVersions /\ version[LastVersion] # "gone"
    /\ version' = Append(version, "gone")
    /\ UNCHANGED <<isFork, heard, knownMark, use>>

-----------------------------------------------------------------------------
(* The server half                                                         *)

\* Mutant of AnswersOutdated: an answer is taken for what the session is, whatever was
\* heard since it was asked for.
MutAnswersOutdated == [u \in Uses |-> use[u]]

\* noteStateEvent
AnswersOutdated == [u \in Uses |-> [use[u] EXCEPT !.stale = use[u].pc \in {"asked", "read"}]]

\* The creation of a session proves nothing: forks are made before they are marked.
EventHeard(v) ==
    /\ v > heard
    /\ heard' = v
    /\ use' = AnswersOutdated
    /\ knownMark' = IF v = 1 THEN "unknown" ELSE MarkOf(v)
    /\ UNCHANGED <<isFork, version>>

\* trim drops the oldest entries of a cache.
CacheTrimmed ==
    /\ knownMark # "unknown"
    /\ knownMark' = "unknown"
    /\ UNCHANGED <<isFork, version, heard, use>>

DecidedOn(u, marker) == [use EXCEPT ![u] = Using(use[u].kind, "done", marker)]

\* A fork is used once its marker is written.
UseBegins(u, kind) ==
    /\ use[u].pc = "none"
    /\ isFork => LastVersion > 1
    /\ use' = [use EXCEPT ![u] = IF knownMark = "unknown" THEN Using(kind, "asked", "unknown")
                                 ELSE Using(kind, "done", knownMark)]
    /\ UNCHANGED <<isFork, version, heard, knownMark>>

HostReads(u) ==
    /\ use[u].pc = "asked"
    /\ use' = [use EXCEPT ![u] = [@ EXCEPT !.pc = "read", !.seen = LastVersion]]
    /\ UNCHANGED <<isFork, version, heard, knownMark>>

LookupFails(u) ==
    /\ use[u].pc \in {"asked", "read"}
    /\ use' = DecidedOn(u, "unknown")
    /\ UNCHANGED <<isFork, version, heard, knownMark>>

LookupAnswers(u) ==
    /\ use[u].pc = "read"
    /\ LET marker == IF use[u].stale THEN knownMark ELSE MarkOf(use[u].seen)
       IN  /\ use' = DecidedOn(u, marker)
           /\ knownMark' = IF marker = "unknown" THEN knownMark ELSE marker
    /\ UNCHANGED <<isFork, version, heard>>

UseEnds(u) ==
    /\ use[u].pc = "done"
    /\ use' = [use EXCEPT ![u] = NoUse]
    /\ UNCHANGED <<isFork, version, heard, knownMark>>

MKNext ==
    \/ VersionAdded \/ VersionGone \/ CacheTrimmed
    \/ \E v \in 1..LastVersion : EventHeard(v)
    \/ \E u \in Uses :
          \/ \E kind \in UseKinds : UseBegins(u, kind)
          \/ HostReads(u) \/ LookupFails(u) \/ LookupAnswers(u) \/ UseEnds(u)

MKSpec == MKInit /\ [][MKNext]_mkVars

-----------------------------------------------------------------------------
\* A call that is not harmless runs in a session known to be normal; a prompt is
\* rejected and the parent's cache key used in one known to be a fork.
Runs(u)     == use[u].kind = "tool" /\ use[u].marker = "normal"
AsAFork(u)  == use[u].kind \in {"prompt", "params"} /\ use[u].marker = "marked"

MKTypeOK ==
    /\ isFork \in BOOLEAN
    /\ version \in Seq({"bare", "marked", "gone"}) /\ heard \in 0..LastVersion
    /\ knownMark \in {"unknown", "marked", "normal"}
    /\ use \in [Uses -> [kind : UseKinds \cup {"none"}, pc : {"none", "asked", "read", "done"},
                         stale : BOOLEAN, seen : 0..LastVersion,
                         marker : {"unknown", "marked", "normal"}]]

\* What is decided was so with the host, since the last event that was heard: a
\* fork runs what could change something only when it was opened as a session.
DecidedOnCurrentMarks ==
    [][\A u \in Uses : use[u].pc # "done" /\ use'[u].pc = "done" =>
          LET Since(said) == \E v \in heard..LastVersion : v > 0 /\ version[v] = said /\ (isFork => v > 1)
          IN  /\ Runs(u)' => Since("bare")
              /\ AsAFork(u)' => Since("marked")]_mkVars
=============================================================================
