---------------------------- MODULE SettingsSave ----------------------------
(***************************************************************************)
(* Saving a setting of approve-for-me from a terminal                      *)
(* (plugins/approve-for-me/src/tui.tsx saveSetting, src/shared/            *)
(* config-policy.ts patchGlobalEntryOptions and libraries/permission-rules *)
(* filesystem.ts patchSettingsFile, writeTextFile).  Global settings live  *)
(* on the plugin's entry in the user's OpenCode config, which is edited by *)
(* hand too: the terminals exclude each other with a store lock, an editor *)
(* takes none, and its change is noticed by comparing the file again just  *)
(* before the rename.  The project's settings are patched without a lock.  *)
(*                                                                         *)
(* A file holds what terminals saved (their names) and what was edited     *)
(* (numbers); its hash is all that but the mode.                           *)
(***************************************************************************)
EXTENDS Naturals

CONSTANTS
    Savers,         \* saves, each of a setting of its own
    Attempts,       \* GLOBAL_CONFIG_PATCH_ATTEMPTS
    MaxEdits        \* bound on the changes made by hand

ASSUME SSAssumption == Attempts \in Nat \ {0}

VARIABLES
    configs,    \* the files
    locked,     \* the store locks of the global ones
    save,       \* saveSetting of each saver
    edited      \* the number of edits so far

ssVars == <<configs, locked, save, edited>>

Globals == <<"early", "late">>      \* globalConfigCandidates; the last that defines "plugin" wins
Project == "project"
ConfigPlaces == {"early", "late", Project}

\* A config: not there, not readable, without plugins, with others only, with
\* the entry of this one.
Kinds == {"missing", "broken", "plain", "others", "own"}
KindsOf(p) == IF p = Project THEN {"missing", "broken", "plain"} ELSE Kinds

Config(kind) == [kind |-> kind, holds |-> {}, closed |-> FALSE]
HashOf(c) == <<c.kind, c.holds>>

Nothing == Config("missing")
NotSaving == [at |-> "idle", place |-> "none", attempt |-> 1, base |-> Nothing, staged |-> Nothing,
              late |-> FALSE, changes |-> 0]

SSInit ==
    /\ \E k \in [ConfigPlaces -> Kinds \ {"broken"}] :
          /\ \A p \in ConfigPlaces : k[p] \in KindsOf(p)
          /\ configs = [p \in ConfigPlaces |-> Config(k[p])]
    /\ locked = [p \in ConfigPlaces |-> {}]
    /\ save = [s \in Savers |-> NotSaving]
    /\ edited = 0

-----------------------------------------------------------------------------

Working(s) == save[s].at \notin {"idle", "ok", "corrupt", "no-entry", "shadowed", "conflict"}

\* The savers after p has changed.  Late is one that will not find out: the
\* project's settings are not looked at again, and a change by hand after the
\* last look at a global config goes unseen.  Another save's change must not
\* come then: the lock is for that.
PastTheLook(s) == save[s].at \in {"checked", "publishing"}
Alarmed(p, byHand) ==
    [s \in Savers |->
        IF ~Working(s) THEN save[s]
        ELSE [save[s] EXCEPT !.changes = IF p # Project /\ @ < Attempts THEN @ + 1 ELSE @,
                             !.late = @ \/ (save[s].place = p /\ (p = Project \/ (byHand /\ PastTheLook(s))))]]

\* The user edits a config, or narrows its mode.
EditByHand(p) ==
    /\ edited < MaxEdits /\ \E s \in Savers : Working(s)     \* any files are there at first
    /\ configs[p].kind # "missing"
    /\ \/ \E k \in KindsOf(p) \ {"missing", IF p = Project THEN "own" ELSE "plain"} :
             configs' = [configs EXCEPT ![p].kind = k, ![p].holds = @ \cup {edited}]
       \/ ~configs[p].closed /\ configs' = [configs EXCEPT ![p].closed = TRUE]
    /\ edited' = edited + 1
    /\ save' = Alarmed(p, TRUE)
    /\ UNCHANGED locked

-----------------------------------------------------------------------------
(* The global config.                                                      *)

Moves(s, from, to) ==
    /\ save[s].at = from
    /\ save' = [save EXCEPT ![s] = to]
    /\ UNCHANGED <<configs, edited>>
Result(outcome) == [NotSaving EXCEPT !.at = outcome]
Goes(s, to) == [save[s] EXCEPT !.at = to]

SaveGlobally(s) == Moves(s, "idle", Goes(s, "scanning")) /\ UNCHANGED locked

\* scanPluginConfigFile of the first candidate.
ScansEarly(s) ==
    /\ Moves(s, "scanning", IF configs["early"].kind = "broken" THEN Result("corrupt")
                            ELSE [Goes(s, "scanning2") EXCEPT !.base = configs["early"]])
    /\ UNCHANGED locked

\* The last candidate that defines "plugin" wins, with an entry or without.
DefinesPlugin(c) == c.kind \in {"others", "own"}
ScansLate(s) ==
    LET late == configs["late"]
        early == save[s].base
        winner == IF DefinesPlugin(late) THEN late ELSE early
    IN  /\ Moves(s, "scanning2",
                 IF late.kind = "broken" \/ ~DefinesPlugin(winner) THEN Result(IF late.kind = "broken" THEN "corrupt" ELSE "no-entry")
                 ELSE IF winner.kind = "own"
                 THEN [Goes(s, "locking") EXCEPT !.place = IF DefinesPlugin(late) THEN "late" ELSE "early",
                                                   !.base = winner]
                 ELSE IF DefinesPlugin(late) THEN Goes(s, "explaining") ELSE Result("no-entry"))
        /\ UNCHANGED locked

\* An earlier file may have the entry, to no effect.
Explains(s) ==
    /\ Moves(s, "explaining", Result(IF configs["early"].kind = "own" THEN "shadowed" ELSE "no-entry"))
    /\ UNCHANGED locked

TakesLock(s) ==
    LET p == save[s].place
    IN  /\ Moves(s, "locking", Goes(s, "reading"))
        /\ locked[p] = {} /\ locked' = [locked EXCEPT ![p] = {s}]

Unlocked(s) == [locked EXCEPT ![save[s].place] = @ \ {s}]

\* patchGlobalEntryOptions tries again, from the scan.
Conflict(s) ==
    IF save[s].attempt < Attempts
    THEN [NotSaving EXCEPT !.at = "scanning", !.attempt = save[s].attempt + 1, !.changes = save[s].changes]
    ELSE [NotSaving EXCEPT !.at = "conflict", !.changes = save[s].changes]

\* readConfigSourceSnapshot must give what was scanned; it is staged with the
\* new setting, in the mode of the file.
ReadsSource(s) ==
    LET now == configs[save[s].place]
        same == HashOf(now) = HashOf(save[s].base)
    IN  /\ Moves(s, "reading", IF same THEN [Goes(s, "staged") EXCEPT !.base = now, !.staged = [now EXCEPT !.holds = @ \cup {s}]]
                               ELSE Conflict(s))
        /\ locked' = IF same THEN locked ELSE Unlocked(s)

\* Mutant of Unchanged: only what was saved is compared, not the edits by hand.
MutUnchanged(now, base) == now.holds \cap Savers = base.holds \cap Savers

\* assertConfigSourceUnchanged: bytes, mode and identity.
Unchanged(now, base) == now = base

LooksAgain(s) ==
    LET same == Unchanged(configs[save[s].place], save[s].base)
    IN  /\ Moves(s, "staged", IF same THEN Goes(s, "checked") ELSE Conflict(s))
        /\ locked' = IF same THEN locked ELSE Unlocked(s)

\* writeTextFile keeps a mode that was narrowed meanwhile, and looks again.
ReconcilesMode(s) ==
    /\ Moves(s, "checked", IF configs[save[s].place].closed /\ ~save[s].staged.closed
                           THEN [Goes(s, "staged") EXCEPT !.staged.closed = TRUE]
                           ELSE Goes(s, "publishing"))
    /\ UNCHANGED locked

-----------------------------------------------------------------------------
(* The project's settings.                                                 *)

SaveForProject(s) ==
    /\ Moves(s, "idle", IF configs[Project].kind = "broken" THEN Result("corrupt")
                        ELSE [Goes(s, "publishing") EXCEPT
                                !.place = Project,
                                !.staged = [Config("plain") EXCEPT !.holds = configs[Project].holds \cup {s}]])
    /\ UNCHANGED locked

-----------------------------------------------------------------------------

\* The rename.
Publishes(s) ==
    LET p == save[s].place
    IN  /\ save[s].at = "publishing"
        /\ configs' = [configs EXCEPT ![p] = save[s].staged]
        /\ save' = [Alarmed(p, FALSE) EXCEPT ![s] = Result("ok")]
        /\ locked' = Unlocked(s)
        /\ UNCHANGED edited

SSNext ==
    \/ \E p \in ConfigPlaces : EditByHand(p)
    \/ \E s \in Savers :
          \/ SaveGlobally(s) \/ ScansEarly(s) \/ ScansLate(s) \/ Explains(s) \/ TakesLock(s)
          \/ ReadsSource(s) \/ LooksAgain(s) \/ ReconcilesMode(s)
          \/ SaveForProject(s) \/ Publishes(s)

SSSpec == SSInit /\ [][SSNext]_ssVars

-----------------------------------------------------------------------------

\* Nothing disappears from a config, and no narrowed mode is widened, but by a
\* rename that had looked at the file before it was changed by hand: a saved
\* global setting is never lost to another save.  A save gives up over a conflict only when
\* the files have changed as often as it tried.
SavesAreKept ==
    [][/\ \A p \in ConfigPlaces :
            \/ configs[p].holds \subseteq configs'[p].holds
               /\ (configs[p].closed => configs'[p].closed \/ p = Project)
            \/ \E s \in Savers : save[s].place = p /\ save[s].at = "publishing" /\ save[s].late
       /\ \A s \in Savers : save'[s].at = "conflict" => save'[s].changes >= Attempts]_ssVars
=============================================================================
