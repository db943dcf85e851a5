-------------------------- MODULE PermissionRules --------------------------
(***************************************************************************)
(* The rule engine of the permission stores, for every question of a       *)
(* bounded set: whether one pattern covers or overlaps another, which rule *)
(* decides a request, what a saved approval adds to a store and what the   *)
(* fold of a worktree's store makes of the shared one (engine.ts and       *)
(* migrateWorktreeStoreLocked of libraries/permission-rules).              *)
(*                                                                         *)
(* Patterns are sequences of characters with the wildcards * and ?; there  *)
(* is no ~ to expand, no backslash and no name JavaScript would order as   *)
(* an array index.  A store is a sequence of keys, each with a sequence of *)
(* rules: a bare action counts as one rule with the pattern *, also where  *)
(* addAllowRule leaves a bare allow as it is.                              *)
(***************************************************************************)
EXTENDS Integers, Sequences, FiniteSets, SequencesExt

CONSTANTS Patterns,          \* the patterns compared with each other
          KeyPatterns,       \* those that keys of stores are
          RulePatterns,      \* those of their rules
          Words              \* the strings that are matched

VARIABLES question, answer

prVars == <<question, answer>>

Wild == {"*", "?"}
Star == <<"*">>

\* wildcardMatch: the host's match of a string, a trailing " *" also matches
\* the bare command.
Fits(x, p) ==
    LET f[i \in 1..Len(x) + 1, j \in 1..Len(p) + 1] ==
            IF j > Len(p) THEN i > Len(x)
            ELSE IF p[j] = "*" THEN \E k \in i..Len(x) + 1 : f[k, j + 1]
            ELSE i <= Len(x) /\ p[j] \in {"?", x[i]} /\ f[i + 1, j + 1]
    IN  f[1, 1]

EndsInStar(p) == IsSuffix(<<" ", "*">>, p)
Bare(p) == SubSeq(p, 1, Len(p) - 2)

Match(x, p) == Fits(x, p) \/ (EndsInStar(p) /\ Fits(x, Bare(p)))

-----------------------------------------------------------------------------
(* Reasoning about patterns                                                *)

GlobVariants(p) == IF EndsInStar(p) THEN {Bare(p), p} ELSE {p}

\* The product of two patterns: a star takes nothing or one more character.
GlobsIntersect(a, b) ==
    LET f[i \in 1..Len(a) + 1, j \in 1..Len(b) + 1] ==
            IF i > Len(a) /\ j > Len(b) THEN TRUE
            ELSE IF i <= Len(a) /\ a[i] = "*" THEN f[i + 1, j] \/ (j <= Len(b) /\ f[i, j + 1])
            ELSE IF j <= Len(b) /\ b[j] = "*" THEN f[i, j + 1] \/ (i <= Len(a) /\ f[i + 1, j])
            ELSE /\ i <= Len(a) /\ j <= Len(b)
                 /\ a[i] = "?" \/ b[j] = "?" \/ a[i] = b[j]
                 /\ f[i + 1, j + 1]
    IN  f[1, 1]

PatternsOverlap(a, b) == \E v \in GlobVariants(a), w \in GlobVariants(b) : GlobsIntersect(v, w)

Literal(p) == \A i \in DOMAIN p : p[i] \notin Wild

\* A literal prefix and a star cover what begins with the prefix literally.
PrefixCovers(g, s) ==
    /\ Len(g) > 0 /\ Last(g) = "*" /\ Literal(Front(g))
    /\ IsPrefix(Front(g), s)

\* Sound, and deliberately incomplete.
GlobCovers(g, s) ==
    \/ g = s
    \/ g = Star
    \/ Literal(s) /\ GlobsIntersect(g, s)
    \/ ~Literal(s) /\ PrefixCovers(g, s)

PatternSubsumes(g, s) ==
    g = s \/ \A v \in GlobVariants(s) : \E c \in GlobVariants(g) : GlobCovers(c, v)

-----------------------------------------------------------------------------
(* Stores                                                                  *)

Rule(key, r) == [permission |-> key, pattern |-> r.pattern, action |-> r.action]

RulesFrom(store) ==
    FlattenSeq([i \in DOMAIN store |->
        [j \in DOMAIN store[i].rules |-> Rule(store[i].key, store[i].rules[j])]])

\* The last matching rule decides; what nothing matches is asked.
Evaluate(permission, pattern, rules) ==
    LET hits == {i \in DOMAIN rules : Match(permission, rules[i].permission)
                                      /\ Match(pattern, rules[i].pattern)}
    IN  IF hits = {} THEN "none"
        ELSE rules[CHOOSE i \in hits : \A j \in hits : j <= i].action

\* Adding the rule changes nothing: it is covered and no carve-out overlaps it.
AllowRuleRedundant(permission, pattern, rules) ==
    /\ \E i \in DOMAIN rules : /\ rules[i].action = "allow"
                               /\ PatternSubsumes(rules[i].permission, permission)
                               /\ PatternSubsumes(rules[i].pattern, pattern)
    /\ ~\E i \in DOMAIN rules : /\ rules[i].action # "allow"
                                /\ PatternsOverlap(rules[i].permission, permission)
                                /\ PatternsOverlap(rules[i].pattern, pattern)

Allow(pattern) == [pattern |-> pattern, action |-> "allow"]

KeysOf(store) == {store[i].key : i \in DOMAIN store}
PositionOf(store, key) == CHOOSE i \in DOMAIN store : store[i].key = key
EntryOf(store, key) == IF key \in KeysOf(store) THEN store[PositionOf(store, key)].rules ELSE <<>>

WithEntry(store, key, rules) ==
    IF key \in KeysOf(store) THEN [store EXCEPT ![PositionOf(store, key)].rules = rules]
    ELSE Append(store, [key |-> key, rules |-> rules])

\* addAllowRule: the rule moves to the end of its key.
AddAllowRule(store, key, pattern) ==
    WithEntry(store, key,
              Append(SelectSeq(EntryOf(store, key), LAMBDA r : r.pattern # pattern), Allow(pattern)))

\* persist: the patterns of an approval that the store as it was read does not
\* cover are added.
Persisted(store, key, patterns) ==
    FoldLeft(LAMBDA s, p : IF AllowRuleRedundant(key, p, RulesFrom(store)) THEN s
                           ELSE AddAllowRule(s, key, p),
             store, patterns)

-----------------------------------------------------------------------------
(* The fold                                                                *)

Skipped(shared, key, r) ==
    \/ \E i \in DOMAIN EntryOf(shared, key) : EntryOf(shared, key)[i].pattern = r.pattern
    \/ AllowRuleRedundant(key, r.pattern, RulesFrom(shared))

Additions(shared, entry) == SelectSeq(entry.rules, LAMBDA r : ~Skipped(shared, entry.key, r))

\* Mutant of EvaluatesBefore: a key that exists is taken to be safe.
MutEvaluatesBefore(shared, key, carve) == key \in KeysOf(shared)

\* What is added to a key that stands before the carve-out's is overruled by it.
EvaluatesBefore(shared, key, carve) ==
    key \in KeysOf(shared) /\ PositionOf(shared, key) < PositionOf(shared, carve.permission)

\* A rule under another key could take effect after a carve-out it overlaps: that
\* merge is the user's.
MergeIsManual(shared, worktree) ==
    LET rules == RulesFrom(shared)
    IN  \/ \E i \in DOMAIN RulesFrom(worktree) : RulesFrom(worktree)[i].action # "allow"
        \/ \E w \in DOMAIN worktree, c \in DOMAIN rules :
              LET key == worktree[w].key
                  added == Additions(shared, worktree[w])
              IN  /\ rules[c].action # "allow" /\ rules[c].permission # key
                  /\ ~EvaluatesBefore(shared, key, rules[c])
                  /\ PatternsOverlap(rules[c].permission, key)
                  /\ \E a \in DOMAIN added : PatternsOverlap(rules[c].pattern, added[a].pattern)

\* What the worktree's store adds goes before the rules of its key.
Merged(shared, worktree) ==
    FoldLeft(LAMBDA s, e : LET added == Additions(shared, e)
                           IN  IF added = <<>> THEN s
                               ELSE WithEntry(s, e.key, added \o EntryOf(shared, e.key)),
             shared, worktree)

-----------------------------------------------------------------------------
Actions == {"allow", "ask"}

\* Up to two rules under a key, up to two keys, in every order.
RuleMaps == {<<[pattern |-> p, action |-> a]>> : p \in RulePatterns, a \in Actions}
            \cup {m \in {<<[pattern |-> p, action |-> a], [pattern |-> q, action |-> b]>> :
                          p \in RulePatterns, q \in RulePatterns, a \in Actions, b \in Actions} :
                  m[1].pattern # m[2].pattern}

Stores1 == {<<>>} \cup {<<[key |-> k, rules |-> m]>> : k \in KeyPatterns, m \in RuleMaps}

SmallMaps == {m \in RuleMaps : Len(m) = 1}

SharedStores ==
    Stores1 \cup UNION {{<<[key |-> k, rules |-> m], [key |-> l, rules |-> n]>> :
                            m \in RuleMaps, n \in SmallMaps} :
                        <<k, l>> \in {kl \in KeyPatterns \X KeyPatterns : kl[1] # kl[2]}}

\* Stores of a worktree: allow rules, under one key or two.
WorktreeStores ==
    {s \in SharedStores : /\ s # <<>>
                          /\ \A i \in DOMAIN s : Len(s[i].rules) = 1 /\ s[i].rules[1].action = "allow"}

PRRest == question = [kind |-> "patterns", g |-> Star, s |-> Star] /\ answer = <<>>

PRInit ==
    /\ answer = <<>>
    /\ \/ \E g \in Patterns, s \in Patterns : question = [kind |-> "patterns", g |-> g, s |-> s]
       \/ \E s \in SharedStores, k \in KeyPatterns \ {Star}, p \in RulePatterns, q \in RulePatterns :
              question = [kind |-> "save", store |-> s, key |-> k, patterns |-> <<p, q>>]
       \/ \E s \in SharedStores, w \in WorktreeStores :
              question = [kind |-> "fold", store |-> s, worktree |-> w]

ComparePatterns ==
    /\ question.kind = "patterns"
    /\ answer' = <<[overlap |-> PatternsOverlap(question.g, question.s),
                    covers |-> PatternSubsumes(question.g, question.s)]>>

PersistApproval ==
    /\ question.kind = "save"
    /\ answer' = Persisted(question.store, question.key, question.patterns)

FoldStores ==
    /\ question.kind = "fold"
    /\ ~MergeIsManual(question.store, question.worktree)
    /\ answer' = Merged(question.store, question.worktree)

PRNext == /\ answer = <<>> /\ UNCHANGED question
          /\ ComparePatterns \/ PersistApproval \/ FoldStores

PRSpec == PRInit /\ [][PRNext]_prVars

-----------------------------------------------------------------------------
\* Permissions a request can be about: the keys that are names.
Names == {k \in KeyPatterns : Literal(k)}

\* A pattern said to cover another matches all that the other does; two patterns
\* are said to overlap exactly when some string matches both.
PatternsAreJudged ==
    question.kind = "patterns" /\ answer # <<>> =>
        LET g == question.g
            s == question.s
        IN  /\ answer[1].covers => \A x \in Words : Match(x, s) => Match(x, g)
            /\ answer[1].overlap <=> \E x \in Words : Match(x, g) /\ Match(x, s)

\* An approval that was saved is granted, patterns skipped as redundant included,
\* unless a carve-out under a later key overrules it; requests it says nothing
\* about are decided as before.
ApprovalsTakeEffect ==
    question.kind = "save" /\ answer # <<>> =>
        \A x \in Words :
            LET meant == \E i \in DOMAIN question.patterns : Match(x, question.patterns[i])
                verdict == Evaluate(question.key, x, RulesFrom(answer))
                overruled == \E i \in DOMAIN answer :
                                /\ i > PositionOf(answer, question.key)
                                /\ Match(question.key, answer[i].key)
                                /\ \E j \in DOMAIN answer[i].rules :
                                       Match(x, answer[i].rules[j].pattern)
            IN  IF meant THEN verdict = "allow" \/ (question.key \in KeysOf(answer) /\ overruled)
                ELSE verdict = Evaluate(question.key, x, RulesFrom(question.store))

\* The fold overrules no rule of the shared store, and loses none of the
\* worktree's that the shared store says nothing about.
FoldsRespectRules ==
    question.kind = "fold" /\ answer # <<>> =>
        \A n \in Names, x \in Words :
            LET before == Evaluate(n, x, RulesFrom(question.store))
                now == Evaluate(n, x, RulesFrom(answer))
            IN  IF before # "none" THEN now = before
                ELSE now = Evaluate(n, x, RulesFrom(question.worktree))

RulesAreSound == PatternsAreJudged /\ ApprovalsTakeEffect /\ FoldsRespectRules
=============================================================================
