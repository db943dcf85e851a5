----------------------------- MODULE RedactWalk -----------------------------
(***************************************************************************)
(* The walk of redact-secrets over the parts of a message                  *)
(* (plugins/redact-secrets/src/shared.ts, redactPartsInPlace, redactWalk    *)
(* and walk): which names give a value its context, secrets in names,       *)
(* passes that catch what an earlier string did not know yet, attachments   *)
(* and media that are left out whole, and the way back.                     *)
(*                                                                         *)
(* A string is a member of Strings: "clear"; "token", which a rule finds     *)
(* anywhere; "weak", which a rule finds under a name with a keyword, or by   *)
(* its bytes once it is known; "heavy", which the scan gives up; the         *)
(* placeholders and the marker.  A value is a string, a list of values or a  *)
(* sequence of fields <<name, value>>; field names are strings too, among    *)
(* them "password", a keyword.  The scan of one string is SecretFindings.   *)
(***************************************************************************)
EXTENDS Integers, Sequences, FiniteSets, SequencesExt

CONSTANTS Documents,  \* values that are walked, with the names around them
          PartLists   \* lists of message parts

VARIABLES input, walked, restored

rwVars == <<input, walked, restored>>

Secret == {"token", "weak"}
Mask(s) == CASE s = "token" -> "[token]" [] s = "weak" -> "[weak]" [] OTHER -> s
Marker == "[omitted]"
Keyworded == {"password"}

Str(s) == [is |-> "string", of |-> s]
Lst(vs) == [is |-> "list", of |-> vs]
Obj(fs) == [is |-> "object", of |-> fs]
Part(fs) == [is |-> "part", of |-> fs]

Unwalked == [value |-> Str("clear"), vault |-> {}, omitted |-> 0, dropped |-> FALSE]

RWInit ==
    /\ \/ \E d \in Documents, names \in {<<>>, <<"password">>} :
             input = [value |-> d, names |-> names, parts |-> FALSE]
       \/ \E l \in PartLists : input = [value |-> l, names |-> <<>>, parts |-> TRUE]
    /\ walked = Unwalked /\ restored = Unwalked.value

-----------------------------------------------------------------------------
(* State of a walk: what is known and how many strings were left out. *)

\* redactStringUnderKeys
Scan(state, names, s) ==
    LET hit == s = "token" \/ s \in state.vault \/ (s = "weak" /\ Range(names) \cap Keyworded # {})
    IN  CASE s = "heavy" -> [state EXCEPT !.value = Str(Marker), !.omitted = @ + 1]
          [] s # "heavy" /\ hit -> [state EXCEPT !.value = Str(Mask(s)), !.vault = @ \cup {s}]
          [] OTHER -> [state EXCEPT !.value = Str(s)]

Nearest(path, n) == IF Len(path) <= n THEN path ELSE SubSeq(path, Len(path) - n + 1, Len(path))

Names(fs) == {fs[i][1] : i \in DOMAIN fs}
FieldOf(fs, n) == (CHOOSE i \in DOMAIN fs : fs[i][1] = n)
Has(fs, n) == n \in Names(fs)
FieldValue(fs, n) == fs[FieldOf(fs, n)][2]
SetField(fs, n, v) ==
    IF Has(fs, n) THEN [fs EXCEPT ![FieldOf(fs, n)] = <<n, v>>] ELSE Append(fs, <<n, v>>)
WithoutField(fs, n) == SelectSeq(fs, LAMBDA f : f[1] # n)

\* A string's own name and the nearest around it.
ValueNames(path, n) == <<n>> \o Nearest(path, 1)

\* The value of a pair is under the name in the pair.
IsPair(vs) == Len(vs) = 2 /\ vs[1].is = "string"
ItemNames(path, vs, i) ==
    IF i = 2 /\ IsPair(vs) THEN <<vs[1].of>> \o Nearest(path, 1) ELSE Nearest(path, 2)

\* redactWalk.  A name that is a secret is given up: its value moves to the
\* placeholder, or is dropped if that name is taken.
RECURSIVE Walk(_, _, _)
Walk(state, path, v) ==
    CASE v.is = "list" ->
            FoldLeft(LAMBDA st, i :
                        LET item == st.value.of[i]
                            under == IF i = 2 /\ IsPair(st.value.of) THEN Append(path, st.value.of[1].of)
                                     ELSE path
                            next == IF item.is = "string" THEN Scan(st, ItemNames(path, v.of, i), item.of)
                                    ELSE Walk(st, under, item)
                        IN  [next EXCEPT !.value = [st.value EXCEPT !.of[i] = next.value]],
                     [state EXCEPT !.value = v], [i \in DOMAIN v.of |-> i])
      [] v.is = "object" ->
            FoldLeft(LAMBDA st, f :
                        LET next == IF f[2].is = "string" THEN Scan(st, ValueNames(path, f[1]), f[2].of)
                                    ELSE Walk(st, Append(path, f[1]), f[2])
                            name == Scan(next, Nearest(path, 1), f[1])
                            fs == st.value.of
                            moved == IF Has(WithoutField(fs, f[1]), name.value.of) THEN WithoutField(fs, f[1])
                                     ELSE Append(WithoutField(fs, f[1]), <<name.value.of, next.value>>)
                        IN  [name EXCEPT !.value =
                                Obj(IF name.value.of = f[1] THEN SetField(fs, f[1], next.value) ELSE moved)],
                     [state EXCEPT !.value = v], v.of)
      [] OTHER -> [state EXCEPT !.value = v]

\* A pass that learned a secret is followed by another, at most three in all.
Passes == 3

Repeated(Step(_), state, n) ==
    FoldLeft(LAMBDA two, i : IF two[2].vault = two[1].vault THEN two ELSE <<two[2], Step(two[2])>>,
             <<state, Step(state)>>, [i \in 1..(n - 1) |-> i])[2]

\* redactValueInPlace
RedactValue(v, names) ==
    Repeated(LAMBDA st : Walk(st, names, st.value), [Unwalked EXCEPT !.value = v], Passes)

-----------------------------------------------------------------------------
(* Parts.  Fields that a part's schema defines are left alone, in the part    *)
(* and nowhere else; the keys of Opaque are a provider's, in its metadata.    *)

Structural == {"id", "type", "tool"}
Opaque == {"ciphertext"}
FileMarker == Part(<<<<"id", Str("clear")>>, <<"type", Str("text")>>, <<"text", Str(Marker)>>>>)

IsFile(v) == Has(v.of, "type") /\ FieldValue(v.of, "type") = Str("file")

\* A field that was redacted takes its place among the fields.
PutField(next, fs, n) == [next EXCEPT !.value = Obj(SetField(fs, n, @))]

ScanOrWalk(st, n, names, v) == IF v.is = "string" THEN Scan(st, names, v.of) ELSE Walk(st, <<n>>, v)

\* redactPartMetadata
RedactMetadata(st, v) ==
    FoldLeft(LAMBDA s1, space :
                LET sub == space[2]
                    inner == FoldLeft(LAMBDA s2, f :
                                LET next == CASE f[2].is = "string" /\ f[1] \in Opaque -> [s2 EXCEPT !.value = f[2]]
                                              [] f[2].is = "string" /\ f[1] \notin Opaque ->
                                                    Scan(s2, <<f[1], space[1]>>, f[2].of)
                                              [] OTHER -> Walk(s2, <<space[1], f[1]>>, f[2])
                                IN  PutField(next, s2.value.of, f[1]),
                                [s1 EXCEPT !.value = sub], sub.of)
                    done == IF sub.is = "object" THEN inner
                            ELSE ScanOrWalk(s1, space[1], <<space[1]>>, sub)
                IN  PutField(done, s1.value.of, space[1]),
             [st EXCEPT !.value = v], v.of)

\* redactPartFields, with the attachments of a tool's state (redactToolState):
\* a file of which a string is left out goes as a whole, and its tool says so,
\* after its output, which is left out of the model then.
RECURSIVE RedactFields(_, _)

Attached(s, a, next) ==
    LET out == IsFile(a) /\ next.omitted > s.omitted
    IN  [next EXCEPT !.value = IF out THEN s.value ELSE Append(s.value, @),
                     !.dropped = s.dropped \/ out]

Told(end) ==
    IF end.dropped THEN [end EXCEPT !.value = Obj(SetField(@.of, "output", Str(Marker)))] ELSE end

RedactState(st, v) ==
    LET Attachment(s, a) == Attached(s, a, RedactFields([s EXCEPT !.value = a], a))
        Attachments(s, list) == FoldLeft(Attachment, [s EXCEPT !.value = <<>>], list)
        Field(s, f) ==
            LET next == CASE f[1] = "status" -> [s EXCEPT !.value = f[2]]
                          [] f[1] = "attachments" -> [Attachments(s, f[2].of) EXCEPT !.value = Lst(@)]
                          [] OTHER -> ScanOrWalk(s, f[1], <<f[1]>>, f[2])
            IN  PutField(next, s.value.of, f[1])
    IN  Told(FoldLeft(Field, [st EXCEPT !.value = v, !.dropped = FALSE], v.of))

RedactFields(st, part) ==
    FoldLeft(LAMBDA s, f :
                LET next == CASE f[1] \in Structural -> [s EXCEPT !.value = f[2]]
                              [] f[1] = "metadata" -> RedactMetadata(s, f[2])
                              [] f[1] = "state" -> RedactState(s, f[2])
                              [] OTHER -> ScanOrWalk(s, f[1], <<f[1]>>, f[2])
                IN  [next EXCEPT !.value = Part(SetField(s.value.of, f[1], @))],
             [st EXCEPT !.value = part], part.of)

\* redactPartsInPlace
RedactParts(list) ==
    LET Put(s, i, part, next) ==
            LET now == IF IsFile(part) /\ next.omitted > s.omitted THEN FileMarker ELSE next.value
            IN  [next EXCEPT !.value = [s.value EXCEPT !.of[i] = now]]
        Each(s, i) ==
            LET part == s.value.of[i]
            IN  Put(s, i, part, RedactFields([s EXCEPT !.value = part], part))
        Pass(s) == FoldLeft(Each, s, [i \in DOMAIN list.of |-> i])
    IN  Repeated(Pass, [Unwalked EXCEPT !.value = list], Passes)

-----------------------------------------------------------------------------
(* walk with restoreString: names too, but not onto one that is taken. *)

Unmask(vault, s) == IF \E x \in vault : Mask(x) = s THEN CHOOSE x \in vault : Mask(x) = s ELSE s

RestoredField(fs, f, name, value) ==
    IF name # f[1] /\ ~Has(fs, name) THEN Append(WithoutField(fs, f[1]), <<name, value>>)
    ELSE SetField(fs, f[1], value)

RECURSIVE Restore(_, _)
Restore(vault, v) ==
    CASE v.is = "string" -> Str(Unmask(vault, v.of))
      [] v.is = "list" -> Lst([i \in DOMAIN v.of |-> Restore(vault, v.of[i])])
      [] OTHER ->
            [v EXCEPT !.of =
                FoldLeft(LAMBDA fs, f : RestoredField(fs, f, Unmask(vault, f[1]), Restore(vault, f[2])),
                         v.of, v.of)]

RedactInput ==
    /\ walked = Unwalked
    /\ walked' = IF input.parts THEN RedactParts(input.value) ELSE RedactValue(input.value, input.names)
    /\ restored' = Restore(walked'.vault, walked'.value)
    /\ UNCHANGED input

RWSpec == RWInit /\ [][RedactInput]_rwVars

-----------------------------------------------------------------------------
(* What is left where, by path: a string and the names it stands under, the   *)
(* nearest first, those of a pair and of the lists around it included.        *)

RECURSIVE Leaves(_, _)
Leaves(v, path) ==
    CASE v.is = "string" -> {<<v.of, path>>}
      [] v.is = "list" ->
            UNION {Leaves(v.of[i], IF i = 2 /\ IsPair(v.of) THEN <<v.of[1].of>> \o path ELSE path) :
                   i \in DOMAIN v.of}
      [] OTHER -> UNION {Leaves(v.of[i][2], <<v.of[i][1]>> \o path) \cup {<<v.of[i][1], path>>} :
                         i \in DOMAIN v.of}

RECURSIVE Shape(_)
Shape(v) ==
    CASE v.is = "string" -> v
      [] v.is = "list" -> Lst([i \in DOMAIN v.of |-> Shape(v.of[i])])
      [] OTHER -> [is |-> v.is, of |-> {<<v.of[i][1], Shape(v.of[i][2])>> : i \in DOMAIN v.of}]

Exempt(leaf) == \/ leaf[2] # <<>> /\ leaf[2][1] \in Structural \cup Opaque \cup {"status"}
                \/ leaf[1] \in Structural

\* Whatever the order of the strings, no name and no value that is a token, that
\* became known, or that stands right under a keyword is left, nor a string that
\* could not be scanned.
WalkLeavesNothing ==
    \A leaf \in Leaves(walked.value, input.names) :
            \/ Exempt(leaf)
            \/ /\ leaf[1] \notin {"token", "heavy"} \cup walked.vault
               /\ leaf[1] = "weak" => leaf[2] = <<>> \/ leaf[2][1] \notin Keyworded

\* What was redacted and left nothing out is restored, names as well, unless
\* it had a name that is a placeholder.
WalkIsUndone ==
    (/\ walked.omitted = 0
     /\ \A leaf \in Leaves(input.value, <<>>) : leaf[1] \notin {"[token]", "[weak]"})
    => Shape(restored) = Shape(input.value)

\* Both, of every document and every list of parts.
WalkIsSound == walked # Unwalked => WalkLeavesNothing /\ WalkIsUndone
=============================================================================
