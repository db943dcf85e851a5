--------------------------- MODULE SecretFindings ---------------------------
(***************************************************************************)
(* One string through the scanner and the redactor of redact-secrets       *)
(* (plugins/redact-secrets/src/engine/scanner.ts, scanContent; src/         *)
(* shared.ts, redactString): long contents in windows that overlap,         *)
(* findings that contain or overlap each other, secrets known from before.  *)
(*                                                                         *)
(* Letters stand for runs of characters.  Three rules stand for the rules:  *)
(* "token" is bounded and looks at what is around it, "bounded" by at most  *)
(* Longest letters; "block" has no bound; "gated" needs a keyword that may  *)
(* be anywhere, also outside the string.  What the filters of a rule reject *)
(* is not a match here.  A span is <<first, after the last>>; the text that *)
(* is left is a sequence of letters and of the secrets that were replaced.  *)
(***************************************************************************)
EXTENDS Integers, Sequences, FiniteSets, SequencesExt

CONSTANTS
    ChunkSize, ChunkOverlap,  \* CHUNK_SIZE, CHUNK_OVERLAP
    Longest,                  \* of a bounded match: maxMatchLength
    MaxContent

VARIABLES content, already, context, result

sfVars == <<content, already, context, result>>

Letters == {"t", "x", "q"}
None == [findings |-> {}, text |-> <<>>, vault |-> {}]

SFInit ==
    /\ content \in UNION {[1..n -> Letters] : n \in 2..MaxContent}
    /\ already \in {{}, {<<"x", "t">>}}
    /\ context \in BOOLEAN
    /\ result = None

-----------------------------------------------------------------------------
(* The rules.  A token is a "t" and the letters "x" after it, 1 to Longest-1  *)
(* of them, neither preceded nor followed by another; a block goes from a    *)
(* "q" to the next; a gated secret is a pair of "x", a keyword the letter q. *)

Run(c, i) == LET after == {j \in i..Len(c) : c[j] # "x"}
             IN  IF after = {} THEN Len(c) - i + 1 ELSE (CHOOSE j \in after : \A k \in after : j <= k) - i

Token(c, i) ==
    IF c[i] = "t" /\ (i = 1 \/ c[i - 1] # "x") /\ Run(c, i + 1) \in 1..(Longest - 1)
    THEN {<<i, i + 1 + Run(c, i + 1)>>} ELSE {}
Block(c, i) ==
    LET ends == {j \in (i + 1)..Len(c) : c[j] = "q"}
    IN  IF c[i] = "q" /\ ends # {} THEN {<<i, (CHOOSE j \in ends : \A k \in ends : j <= k) + 1>>} ELSE {}
Gated(c, i) ==
    IF c[i] = "x" /\ (i = 1 \/ c[i - 1] # "x") /\ Run(c, i) = 2 THEN {<<i, i + 2>>} ELSE {}

Rules == {"token", "block", "gated"}
Overlong == {"block"}
Specificity == [token |-> 2, block |-> 3, gated |-> 1]
MatchAt(r, c, i) == CASE r = "token" -> Token(c, i) [] r = "block" -> Block(c, i) [] OTHER -> Gated(c, i)

\* matchAll: from left to right, each match after the one before.
AllMatches(r, c) ==
    FoldLeft(LAMBDA found, i :
                 IF \E f \in found : i < f[2] THEN found ELSE found \cup MatchAt(r, c, i),
             {}, [i \in 1..Len(c) |-> i])

\* candidateRules: by the keywords of the whole content and of its context.
CandidateRules(c, wider) ==
    {r \in Rules : r = "gated" => wider \/ \E i \in DOMAIN c : c[i] = "q"}

-----------------------------------------------------------------------------
(* scanContent *)

Finding(r, span, offset) ==
    [rule |-> r, from |-> span[1] + offset, to |-> span[2] + offset, rank |-> Specificity[r]]

IsSuppressed(f, others) ==
    \E g \in others : /\ g.rule # f.rule /\ g.rank > f.rank
                      /\ g.from <= f.from /\ f.to <= g.to

Unsuppressed(fs) == {f \in fs : ~IsSuppressed(f, fs)}

\* A match that touches a cut edge may owe itself to the cut.
AtSeam(span, chunk, cutStart, cutEnd) ==
    (cutStart /\ span[1] = 1) \/ (cutEnd /\ span[2] = Len(chunk) + 1)

ScanChunk(chunk, offset, rules, cutStart, cutEnd) ==
    Unsuppressed(UNION {{Finding(r, span, offset) :
                            span \in {m \in AllMatches(r, chunk) : ~AtSeam(m, chunk, cutStart, cutEnd)}} :
                        r \in rules})

Whole(c, rules) == ScanChunk(c, 0, rules, FALSE, FALSE)

Offsets(c) == {o \in 0..(Len(c) - 1) : /\ o % (ChunkSize - ChunkOverlap) = 0
                                       /\ o = 0 \/ o - (ChunkSize - ChunkOverlap) + ChunkSize < Len(c)}

ScanContent(c, wider) ==
    LET rules == CandidateRules(c, wider)
        Window(o) == LET end == o + ChunkSize
                         last == end >= Len(c)
                     IN  ScanChunk(SubSeq(c, o + 1, IF last THEN Len(c) ELSE end), o,
                                   rules \ Overlong, o > 0, ~last)
    IN  IF Len(c) <= ChunkSize THEN Whole(c, rules)
        ELSE Unsuppressed(Whole(c, rules \cap Overlong) \cup UNION {Window(o) : o \in Offsets(c)})

-----------------------------------------------------------------------------
(* The redactor. *)

Occurs(s, c, i) == i + Len(s) - 1 <= Len(c) /\ SubSeq(c, i, i + Len(s) - 1) = s

\* vaultFindings: every occurrence, each after the one before.
VaultFindings(c, vault) ==
    UNION {LET spans == FoldLeft(LAMBDA found, i :
                                    IF Occurs(s, c, i) /\ ~\E f \in found : i < f[2]
                                    THEN found \cup {<<i, i + Len(s)>>} ELSE found,
                                 {}, [i \in 1..Len(c) |-> i])
           IN  {[rule |-> "vault", from |-> p[1], to |-> p[2], rank |-> 9] : p \in spans} : s \in vault}

Before(f, g) == \/ f.from < g.from
                \/ f.from = g.from /\ f.to > g.to
                \/ f.from = g.from /\ f.to = g.to /\ f.rank > g.rank

\* A finding within the last span is dropped, one that overlaps it extends it;
\* both, and their union, become known.
Joined(state, f) ==
    CASE f.to <= state.to -> state
      [] f.from < state.to /\ f.to > state.to ->
            LET span == <<Last(state.spans)[1], f.to>>
            IN  [to |-> f.to, spans |-> Append(Front(state.spans), span),
                 vault |-> state.vault \cup {<<f.from, f.to>>, span}]
      [] OTHER -> [to |-> f.to, spans |-> Append(state.spans, <<f.from, f.to>>),
                   vault |-> state.vault \cup {<<f.from, f.to>>}]

\* applyFindings
ApplyFindings(c, findings, vault) ==
    LET order == SetToSortSeq(findings, Before)
        end == FoldLeft(Joined, [to |-> 1, spans |-> <<>>, vault |-> {}], order)
        Piece(p) == <<SubSeq(c, p[1], p[2] - 1)>>
        text == FoldLeft(LAMBDA done, p :
                            [out |-> done.out \o SubSeq(c, done.at, p[1] - 1) \o Piece(p), at |-> p[2]],
                         [out |-> <<>>, at |-> 1], end.spans)
    IN  [text |-> text.out \o SubSeq(c, text.at, Len(c)),
         vault |-> vault \cup {SubSeq(c, p[1], p[2] - 1) : p \in end.vault}]

\* applyWithVaultSweep: what was learned now may also be before it in the text.
Redact(c, wider, vault) ==
    LET findings == ScanContent(c, wider) \cup VaultFindings(c, vault)
        first == ApplyFindings(c, findings, vault)
        stragglers == VaultFindings(first.text, first.vault)
    IN  IF first.vault = vault \/ stragglers = {} THEN first
        ELSE ApplyFindings(first.text, stragglers, first.vault)

\* restoreString
Restored(text) == FoldLeft(LAMBDA c, x : IF x \in Letters THEN Append(c, x) ELSE c \o x, <<>>, text)

RedactContent ==
    /\ result = None
    /\ LET done == Redact(content, context, already)
       IN  result' = [findings |-> ScanContent(content, context), text |-> done.text, vault |-> done.vault]
    /\ UNCHANGED <<content, already, context>>

SFSpec == SFInit /\ [][RedactContent]_sfVars

-----------------------------------------------------------------------------
\* Windows change nothing: what is found in them is what one scan of the whole
\* would find, and no match comes from a cut.
WindowsFindAll == result.findings = Whole(content, CandidateRules(content, context))

\* No letter of a finding and no secret that is known now is left in the text,
\* and the text restored is the content.
NothingSurvives ==
    LET text == result.text
        Hidden(i) == \E j \in DOMAIN text :
                        /\ text[j] \notin Letters
                        /\ LET start == Len(Restored(SubSeq(text, 1, j - 1)))
                           IN  i \in (start + 1)..(start + Len(text[j]))
    IN  /\ Restored(text) = content
        /\ \A s \in result.vault : \A i \in DOMAIN text : ~Occurs(s, text, i)
        /\ \A f \in result.findings : \A i \in f.from..(f.to - 1) : Hidden(i)

\* Both, of every content, whatever is known and whatever its context.
SecretsAreMasked == result # None => WindowsFindAll /\ NothingSurvives
=============================================================================
