---------------------------- MODULE StoreKeying ----------------------------
(***************************************************************************)
(* Which permission store a session uses: the keying resolver that retries *)
(* until git confirms the repository (createStoreKeyingResolver in         *)
(* libraries/permission-rules/src/store-keying.ts) and the pipeline every  *)
(* access to the store runs through (createStoreOpener in                  *)
(* persist-permissions, migrateStores in filesystem.ts).                   *)
(*                                                                         *)
(* A store is named by the root it is keyed by: the session's directory,   *)
(* its work tree, or the primary checkout of the repository.  A probe of   *)
(* git is one step: it answers if git does at that moment.  The fold of a  *)
(* candidate is one step (StoreLock has its detail), and so is a save.     *)
(* Rules are the numbers of the saves; a carve-out is rule 0.              *)
(***************************************************************************)
EXTENDS Integers, Sequences, FiniteSets

CONSTANTS Saves, Reads,                   \* accesses, each made once
          MaxFlips,                       \* how often git goes or comes back
          MaxDistrusts, MaxLapses         \* failed checks of paths, retry intervals

\* Saves are told from reads, and neither from a carve-out.
ASSUME SKAssumption == 0 \notin Saves \cup Reads /\ Saves \cap Reads = {}

VARIABLES
    setting,    \* the scope, whether the host names the work tree, and whether there is a repository
    git,        \* whether git answers
    keying,     \* the resolver's lasting state
    attempt,    \* the attempt under way, and the access that began it
    due,        \* the retry interval has passed since the last attempt began
    joined,     \* the other accesses that wait for it
    access,     \* what each access is doing
    memo,       \* the migration pass accesses share: its store and who runs it
    file,       \* the rules in each store
    legacy,     \* an unreviewed in-project store exists in the work tree
    saved,      \* auxiliary: rules that are on disk
    flips, distrusts, lapses

skVars == <<setting, git, keying, attempt, due, joined, access, memo, file, legacy, saved,
            flips, distrusts, lapses>>

Accesses == Saves \cup Reads
Roots == {"dir", "tree", "main"}
CarveOut == 0
NoFold == [store |-> "none", by |-> 0]

NoKeys == [key |-> "none", root |-> "none", stale |-> {}, unkeyed |-> FALSE, final |-> FALSE]
NoAttempt == [pc |-> "none", by |-> 0, key |-> "none", unkeyed |-> FALSE]

\* with: whose pass an access waits for; owed is auxiliary: what was on disk when
\* that pass began; steady: git has answered ever since the access was made.
Unmade == [pc |-> "ready", keys |-> NoKeys, todo |-> <<>>, with |-> 0, owed |-> {},
           steady |-> FALSE]
Made == [Unmade EXCEPT !.pc = "done"]

\* The settled keying, once git has positively confirmed it.
Unsettled == keying.settled = NoKeys /\ ~keying.refused

SKInit ==
    /\ setting \in [scope : {"repository", "worktree"}, named : BOOLEAN, repo : BOOLEAN]
    /\ git \in BOOLEAN
    /\ keying = [root |-> "none", confirmed |-> FALSE, verified |-> FALSE, keyed |-> {},
                 settled |-> NoKeys, refused |-> FALSE, last |-> NoKeys]
    /\ attempt = NoAttempt /\ due = TRUE /\ joined = {}
    /\ access = [a \in Accesses |-> Unmade]
    /\ memo = NoFold
    /\ \E t \in {{}, {CarveOut}} : file = [r \in Roots |-> IF r = "tree" THEN t ELSE {}]
    /\ legacy \in BOOLEAN
    /\ saved = {}
    /\ flips = 0 /\ distrusts = 0 /\ lapses = 0

-----------------------------------------------------------------------------
(* The resolver                                                            *)

\* Where an attempt begins: a work tree the host names is trusted, a claim that
\* there is none is checked with git.
FirstProbe == IF keying.confirmed \/ setting.named
              THEN IF setting.scope = "repository" THEN "primary" ELSE "resolve"
              ELSE "tree"

\* What an attempt changes before its first probe.
Named == IF ~keying.confirmed /\ setting.named
         THEN [keying EXCEPT !.root = "tree", !.confirmed = TRUE] ELSE keying

StartAttempt(a) ==
    /\ attempt' = [NoAttempt EXCEPT !.pc = FirstProbe, !.by = a]
    /\ keying' = Named
    /\ due' = FALSE

Answers == git /\ setting.repo

\* discoverWorktreeRoot verifies the host's claim.
ProbeTree ==
    /\ attempt.pc = "tree"
    /\ keying' = IF Answers
                 THEN [keying EXCEPT !.root = "tree", !.confirmed = TRUE, !.verified = TRUE]
                 ELSE [keying EXCEPT !.root = "dir"]
    /\ attempt' = [attempt EXCEPT !.pc = IF Answers /\ setting.scope = "repository"
                                        THEN "primary" ELSE "resolve"]
    /\ UNCHANGED <<setting, git, due, joined, access, memo, file, legacy, saved, flips,
                   distrusts, lapses>>

KnownTree == keying.verified

\* discoverPrimaryRoot; without an answer, a root git has not placed in a work
\* tree itself is asked about once more.
ProbePrimary ==
    /\ attempt.pc = "primary"
    /\ attempt' = IF Answers THEN [attempt EXCEPT !.pc = "resolve", !.key = "main"]
                  ELSE IF KnownTree THEN [attempt EXCEPT !.pc = "resolve", !.unkeyed = TRUE]
                  ELSE [attempt EXCEPT !.pc = "confirm"]
    /\ UNCHANGED <<setting, git, keying, due, joined, access, memo, file, legacy, saved, flips,
                   distrusts, lapses>>

ProbeAgain ==
    /\ attempt.pc = "confirm"
    /\ attempt' = [attempt EXCEPT !.pc = "resolve", !.unkeyed = Answers]
    /\ UNCHANGED <<setting, git, keying, due, joined, access, memo, file, legacy, saved, flips,
                   distrusts, lapses>>

\* Every root the resolver has keyed by.
KeyedRoots == keying.keyed \cup {keying.root}

\* resolvePermissionStorePaths: the active store, and the roots whose stores are
\* candidates for the fold.
Resolved ==
    LET key == IF attempt.key = "main" THEN "main" ELSE keying.root
    IN  [key |-> key, root |-> keying.root, stale |-> KeyedRoots \ {keying.root, key},
         unkeyed |-> attempt.unkeyed,
         final |-> keying.confirmed /\ (setting.scope = "worktree" \/ attempt.key = "main")]

\* Mutant of Rejoins: a write takes the answer of the probe it found.
MutRejoins(a, final) == FALSE

\* A write does not take an unsettled answer of a probe that was already under way
\* when it arrived: that probe may have asked before git came back.
Rejoins(a, final) == a \in Saves /\ ~final

\* An access goes on with its answer, or is paused without one, as is a read while
\* the shared store exists and cannot be reached.
Answered(a, keys) ==
    IF keys = NoKeys \/ (keys.unkeyed /\ a \in Reads) THEN Made
    ELSE [access[a] EXCEPT !.pc = "gate", !.keys = keys]

\* The attempt ends.  One of the writes it leaves unanswered begins another, which
\* the others of them join.
Finish ==
    \E trusted \in BOOLEAN :
        LET answer == IF trusted THEN Resolved ELSE NoKeys
            again == {a \in joined : Rejoins(a, Resolved.final)}
            given == {attempt.by} \cup (joined \ again)
        IN  /\ attempt.pc = "resolve"
            /\ ~trusted => distrusts < MaxDistrusts
            /\ distrusts' = IF trusted THEN distrusts ELSE distrusts + 1
            /\ access' = [a \in Accesses |-> IF a \in given THEN Answered(a, answer)
                                             ELSE access[a]]
            /\ keying' = [keying EXCEPT !.keyed = KeyedRoots, !.last = answer,
                              !.settled = IF Resolved.final THEN answer ELSE @,
                              !.refused = Resolved.final /\ ~trusted]
            /\ due' = FALSE
            /\ \/ again = {} /\ attempt' = NoAttempt /\ joined' = {}
               \/ \E a \in again : /\ attempt' = [NoAttempt EXCEPT !.pc = FirstProbe, !.by = a]
                                   /\ joined' = again \ {a}
            /\ UNCHANGED <<setting, git, memo, file, legacy, saved, flips, lapses>>

\* An access asks: a settled answer is final, a probe under way is joined, a write
\* always probes and a read when the interval has passed.
Ask(a) ==
    LET asks == [Unmade EXCEPT !.pc = "asks", !.steady = git]
        takes(keys) == access' = [access EXCEPT ![a] = [Answered(a, keys) EXCEPT !.steady = git]]
        waits == access' = [access EXCEPT ![a] = asks]
        resting == UNCHANGED <<keying, attempt, due, joined>>
    IN  /\ access[a].pc = "ready"
        /\ CASE ~Unsettled -> takes(keying.settled) /\ resting
             [] Unsettled /\ attempt # NoAttempt ->
                    waits /\ joined' = joined \cup {a} /\ UNCHANGED <<keying, attempt, due>>
             [] Unsettled /\ attempt = NoAttempt /\ (a \in Saves \/ due) ->
                    waits /\ StartAttempt(a) /\ UNCHANGED joined
             [] OTHER -> takes(keying.last) /\ resting
        /\ UNCHANGED <<setting, git, memo, file, legacy, saved, flips, distrusts, lapses>>

Lapse ==
    /\ ~due /\ attempt = NoAttempt /\ Unsettled /\ lapses < MaxLapses
    /\ due' = TRUE /\ lapses' = lapses + 1
    /\ UNCHANGED <<setting, git, keying, attempt, joined, access, memo, file, legacy, saved,
                   flips, distrusts>>

-----------------------------------------------------------------------------
(* Opening the store                                                       *)

Existing == {r \in Roots : file[r] # {}}

\* storeMigrationCandidates; the names of older releases come last and are always
\* listed (their adoption is in StoreLock, they hold nothing here).
Candidates(keys) ==
    (IF keys.root # keys.key THEN <<keys.root>> ELSE <<>>)
    \o (IF "dir" \in keys.stale THEN <<"dir">> ELSE <<>>)
    \o <<"old">>

\* An in-project store without a trusted one beside it has to be reviewed first:
\* asked before the fold, which may create the trusted one.
GatePasses(keys) == ~legacy \/ keys.root = "dir" \/ keys.key \in Existing

\* A pass that ended is forgotten while its paths name a candidate, as they always
\* do, since one may come to exist later; a pass for another store stays.
Retired(store, by) == IF memo = [store |-> store, by |-> by] THEN [memo EXCEPT !.by = 0] ELSE memo

\* The access starts the pass for its store or waits for the one that runs; a pass
\* for another store is dropped from the memo and goes on.
Gate(a) ==
    LET keys == access[a].keys
        by == IF memo.store = keys.key THEN memo.by ELSE 0
    IN  /\ access[a].pc = "gate"
        /\ CASE ~GatePasses(keys) ->
                    access' = [access EXCEPT ![a] = Made] /\ UNCHANGED memo
             [] GatePasses(keys) /\ by = 0 ->
                    /\ access' = [access EXCEPT ![a].pc = "folds", ![a].owed = saved,
                                                ![a].todo = Candidates(keys)]
                    /\ memo' = [store |-> keys.key, by |-> a]
             [] OTHER ->
                    /\ access' = [access EXCEPT ![a].pc = "joins", ![a].with = by,
                                                ![a].owed = access[by].owed]
                    /\ UNCHANGED memo
        /\ UNCHANGED <<setting, git, keying, attempt, due, joined, file, legacy, saved, flips,
                       distrusts, lapses>>

\* Those that wait for the pass of an access.
Sharing(a) == {a} \cup {b \in Accesses : access[b].pc = "joins" /\ access[b].with = a}

\* One candidate of the pass: rules are merged and their file removed, a carve-out
\* is the user's to merge and pauses the whole pass.  What a pass for an older key
\* carries off is not owed to the accesses of a newer one.
Fold(a) ==
    LET from == Head(access[a].todo)
        key == access[a].keys.key
        ends(pc) == /\ access' = [b \in Accesses |->
                                    IF b \notin Sharing(a) THEN access[b]
                                    ELSE IF pc = "done" THEN Made
                                    ELSE [access[b] EXCEPT !.pc = pc, !.todo = <<>>, !.with = 0]]
                    /\ memo' = Retired(key, a)
    IN  /\ access[a].pc = "folds"
        /\ CASE from = "old" -> ends("opened") /\ UNCHANGED file
             [] from # "old" /\ CarveOut \in file[from] -> ends("done") /\ UNCHANGED file
             [] OTHER ->
                    /\ file' = [file EXCEPT ![key] = @ \cup file[from], ![from] = {}]
                    /\ access' = [b \in Accesses |->
                                    IF b = a THEN [access[a] EXCEPT !.todo = Tail(@)]
                                    ELSE IF access[b].keys.key = key THEN access[b]
                                    ELSE [access[b] EXCEPT !.owed = @ \ file[from]]]
                    /\ UNCHANGED memo
        /\ UNCHANGED <<setting, git, keying, attempt, due, joined, legacy, saved, flips,
                       distrusts, lapses>>

\* The file was handed over: a save takes the lock and writes only now.
Save(a) ==
    /\ a \in Saves /\ access[a].pc = "opened"
    /\ file' = [file EXCEPT ![access[a].keys.key] = @ \cup {a}]
    /\ saved' = saved \cup {a}
    /\ access' = [access EXCEPT ![a] = Made]
    /\ UNCHANGED <<setting, git, keying, attempt, due, joined, memo, legacy, flips, distrusts,
                   lapses>>

ReadStore(a) ==
    /\ a \in Reads /\ access[a].pc = "opened"
    /\ access' = [access EXCEPT ![a] = Made]
    /\ UNCHANGED <<setting, git, keying, attempt, due, joined, memo, file, legacy, saved, flips,
                   distrusts, lapses>>

-----------------------------------------------------------------------------
(* The world                                                               *)

GitFlips ==
    /\ flips < MaxFlips /\ Unsettled
    /\ git' = ~git /\ flips' = flips + 1
    /\ access' = [a \in Accesses |-> [access[a] EXCEPT !.steady = FALSE]]
    /\ UNCHANGED <<setting, keying, attempt, due, joined, memo, file, legacy, saved, distrusts,
                   lapses>>

\* The user reviews the in-project store, which is asked for first, and merges the
\* carve-out by hand.
Review ==
    /\ legacy /\ legacy' = FALSE
    /\ UNCHANGED <<setting, git, keying, attempt, due, joined, access, memo, file, saved, flips,
                   distrusts, lapses>>

MergeByHand ==
    /\ ~legacy /\ CarveOut \in file["tree"] /\ keying.settled.key = "main"
    /\ file' = [file EXCEPT !["main"] = @ \cup file["tree"], !["tree"] = {}]
    /\ UNCHANGED <<setting, git, keying, attempt, due, joined, access, memo, legacy, saved,
                   flips, distrusts, lapses>>

SKNext ==
    \/ ProbeTree \/ ProbePrimary \/ ProbeAgain \/ Finish \/ Lapse
    \/ \E a \in Accesses : Ask(a) \/ Gate(a) \/ Fold(a) \/ Save(a) \/ ReadStore(a)
    \/ GitFlips \/ Review \/ MergeByHand

SKSpec == SKInit /\ [][SKNext]_skVars

-----------------------------------------------------------------------------
SKTypeOK ==
    /\ keying.root \in Roots \cup {"none"} /\ keying.keyed \subseteq Roots
    /\ attempt.by \notin joined /\ (attempt = NoAttempt => joined = {})
    /\ {a \in Accesses : access[a].pc = "asks"} = joined \cup ({attempt.by} \ {0})
    /\ UNION {file[r] : r \in Roots} \subseteq Saves \cup {CarveOut}

\* The stores a session that uses these keys looks at.
InReach(keys) == {keys.key, keys.root} \cup keys.stale

\* No approval is orphaned by a re-key: where a save landed, or is about to, under
\* whichever key the resolver had then, is the store in use now or one of those that
\* are folded into it.
SavesStayInReach ==
    keying.last # NoKeys =>
        \A r \in Roots : \/ file[r] \cap Saves = {} /\ \A a \in Saves : access[a].keys.key # r
                         \/ r \in InReach(keying.last)

\* A read sees what was on disk when the pass it relied on began, unless the
\* store was keyed anew in the meantime.
ReadsSeeSaves ==
    \A a \in Reads :
        access[a].pc = "opened" /\ access[a].keys.key = keying.last.key =>
            access[a].owed \subseteq file[access[a].keys.key]

\* Once git has placed the root of the session in a work tree, a keying that is
\* not the shared one is marked, and reads are paused.
FallbacksAreMarked ==
    keying.verified /\ setting.scope = "repository" /\ keying.last.root = "tree"
        => keying.last.key = "main" \/ keying.last.unkeyed

KeyingIsSound == SKTypeOK /\ SavesStayInReach /\ ReadsSeeSaves /\ FallbacksAreMarked

\* A settled keying never changes, and is the one git gave.
SettledForGood ==
    [][~Unsettled => UNCHANGED <<keying.settled, keying.refused>>]_skVars

\* If git has answered ever since a save was made, the save goes where git says.
SavesFollowGit ==
    [][\A a \in Saves :
          access[a].pc # "gate" /\ access'[a].pc = "gate" /\ access'[a].steady /\ setting.repo
          => access'[a].keys.final]_skVars

\* While an in-project store is unreviewed, no trusted store comes into being
\* beside it but by the user's hand.
NothingPassesLegacy ==
    [][legacy /\ access # access' =>
          \A r \in {"tree", "main"} : file[r] = {} => file'[r] = {}]_skVars

KeysAreKept == []KeyingIsSound /\ SettledForGood /\ SavesFollowGit /\ NothingPassesLegacy
=============================================================================
