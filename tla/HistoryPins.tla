----------------------------- MODULE HistoryPins -----------------------------
(***************************************************************************)
(* The record of how a surface of a session was already redacted           *)
(* (plugins/redact-secrets/src/shared.ts, HistoryPins) and the transforms  *)
(* that use it (src/index.ts).  What redaction makes of a surface changes  *)
(* with every secret that is learned; a surface the provider has seen must *)
(* not change with it, or its prompt cache is lost.                        *)
(*                                                                         *)
(* A surface is a message or a system prompt, its bytes unchanged; what    *)
(* redaction makes of it now is the number of secrets known.  A session    *)
(* has one request at a time, which is answered or aborted; a host event   *)
(* tells of an answer before the session's next request.                   *)
(***************************************************************************)
EXTENDS Integers, Sequences, FiniteSets, SequencesExt

CONSTANTS
    PinSessions, Surfaces,
    Routes,                            \* the destinations a session's requests go to
    PerScope, MaxScopes, ByteBudget,   \* PINS_PER_SCOPE, PIN_SCOPES, PIN_BYTE_BUDGET
    MaxKnown                           \* bound on the secrets learned

VARIABLES
    pins,       \* scopes, least recently used first: <<session, its pins, oldest first>>
    bytes,
    compaction, \* compactionPending
    known,      \* secrets learned
    request,    \* of each session: its destination and what was sent, or Idle
    seen        \* <<destination, surface, output>> it was answered about, the pin kept since

hpVars == <<pins, bytes, compaction, known, request, seen>>

Idle == [to |-> "none", sent |-> <<>>, pinning |-> FALSE]

HPInit ==
    /\ pins = <<>> /\ bytes = 0 /\ compaction = {} /\ known = 0
    /\ request = [s \in PinSessions |-> Idle]
    /\ seen = [s \in PinSessions |-> {}]

-----------------------------------------------------------------------------
(* The record.  The cost of a pin is that of its surface, which is 1 or 2. *)

Cost(pin) == pin.surface
CostOf(ps) == FoldLeft(LAMBDA n, pin : n + Cost(pin), 0, ps)
ScopeIndex(r, s) == {i \in DOMAIN r : r[i][1] = s}
PinsOf(r, s) == UNION {Range(r[i][2]) : i \in ScopeIndex(r, s)}
HeldBy(r, s) == FoldLeft(LAMBDA all, e : IF e[1] = s THEN e[2] ELSE all, <<>>, r)

\* A scope, or a pin within it, moves to the end when it is used.
Touched(r, s, ps) == Append(SelectSeq(r, LAMBDA e : e[1] # s), <<s, ps>>)
Without(ps, d, k) == SelectSeq(ps, LAMBDA pin : ~(pin.to = d /\ pin.surface = k))
Matches(r, s, d, k) == {pin \in PinsOf(r, s) : pin.to = d /\ pin.surface = k}

\* Mutant of Get: a pin counts before the provider was seen to answer.
MutGet(r, s, d, k) == Matches(r, s, d, k)

\* get: only what was delivered.
Get(r, s, d, k) == {pin \in Matches(r, s, d, k) : pin.delivered}

\* evict: the scope's count, the scopes' count, then the bytes, oldest first.
Latest(ps, n) == IF Len(ps) > n THEN SubSeq(ps, Len(ps) - n + 1, Len(ps)) ELSE ps
AllBytes(r) == FoldLeft(LAMBDA n, e : n + CostOf(e[2]), 0, r)

RECURSIVE Trim(_)
Trim(r) ==
    IF AllBytes(r) <= ByteBudget \/ r = <<>> THEN r
    ELSE IF Len(Head(r)[2]) <= 1 THEN Trim(Tail(r))
    ELSE Trim(<<<<Head(r)[1], Tail(Head(r)[2])>>>> \o Tail(r))

Evicted(r, s) == Trim(Latest([i \in DOMAIN r |-> IF r[i][1] = s THEN <<s, Latest(r[i][2], PerScope)>>
                                               ELSE r[i]], MaxScopes))

\* The count is kept by what each step adds and takes away.
Removed(r, q) == AllBytes(r) - AllBytes(q)

Set(state, s, pin) ==
    LET old == HeldBy(state.pins, s)
        ps == Append(Without(old, pin.to, pin.surface), pin)
        all == Touched(state.pins, s, ps)
        left == Evicted(all, s)
    IN  [state EXCEPT !.pins = left, !.bytes = @ - CostOf(old) + CostOf(ps) - Removed(all, left)]

Read(state, s, pin) ==
    [state EXCEPT !.pins = Touched(@, s, Append(Without(HeldBy(@, s), pin.to, pin.surface), pin))]

-----------------------------------------------------------------------------
(* The hooks. *)

\* One surface of a request: pinned as it went out before, or redacted now.
Surface(state, s, d, k, pinning) ==
    LET hit == IF pinning THEN Get(state.pins, s, d, k) ELSE {}
        pin == IF hit # {} THEN CHOOSE q \in hit : TRUE
               ELSE [to |-> d, surface |-> k, output |-> known, delivered |-> FALSE]
        next == CASE hit # {} -> Read(state, s, pin)
                  [] hit = {} /\ pinning -> Set(state, s, pin)
                  [] OTHER -> state
    IN  [next EXCEPT !.sent = Append(@, <<k, pin.output>>),
                     !.seen = IF hit = {} /\ pinning THEN {e \in @ : <<e[1], e[2]>> # <<d, k>>} ELSE @]

\* messages.transform and system.transform, for the surfaces of one request.  A
\* compaction may go to another model, and neither reads nor makes pins.
Transform(s, d, ks) ==
    /\ request[s] = Idle
    /\ LET pinning == s \notin compaction
           end == FoldLeft(LAMBDA st, k : Surface(st, s, d, k, pinning),
                           [pins |-> pins, bytes |-> bytes, sent |-> <<>>, seen |-> seen[s]], ks)
       IN  /\ pins' = end.pins /\ bytes' = end.bytes
           /\ seen' = [seen EXCEPT ![s] = end.seen]
           /\ request' = [request EXCEPT ![s] = [to |-> d, sent |-> end.sent, pinning |-> pinning]]
    /\ compaction' = compaction \ {s}
    /\ UNCHANGED known

\* session.compacting; a full set gives up an older one.
Compacting(s) ==
    /\ s \notin compaction
    /\ compaction' \in IF Cardinality(compaction) < MaxScopes THEN {compaction \cup {s}}
                       ELSE {(compaction \ {o}) \cup {s} : o \in compaction}
    /\ UNCHANGED <<pins, bytes, known, request, seen>>

\* markDelivered, on the first part of an answer: all that the scope holds.
Delivered(ps) == [i \in DOMAIN ps |-> [ps[i] EXCEPT !.delivered = TRUE]]

Answered(s) ==
    /\ request[s] # Idle
    /\ pins' = [i \in DOMAIN pins |-> IF pins[i][1] = s THEN <<s, Delivered(pins[i][2])>> ELSE pins[i]]
    /\ request' = [request EXCEPT ![s] = Idle]
    /\ seen' = [seen EXCEPT ![s] =
                  IF request[s].pinning
                  THEN {e \in @ : e[1] # request[s].to \/ \A x \in Range(request[s].sent) : x[1] # e[2]}
                          \cup {<<request[s].to, x[1], x[2]>> : x \in Range(request[s].sent)}
                  ELSE @]
    /\ UNCHANGED <<bytes, compaction, known>>

Aborted(s) ==
    /\ request[s] # Idle
    /\ request' = [request EXCEPT ![s] = Idle]
    /\ UNCHANGED <<pins, bytes, compaction, known, seen>>

\* session.deleted: forget
SessionDeleted(s) ==
    /\ request[s] = Idle
    /\ pins' = SelectSeq(pins, LAMBDA e : e[1] # s)
    /\ bytes' = bytes - CostOf(HeldBy(pins, s))
    /\ compaction' = compaction \ {s}
    /\ seen' = [seen EXCEPT ![s] = {}]
    /\ UNCHANGED <<known, request>>

\* A secret or a keyword is learned: the same surface is redacted differently.
Learn ==
    /\ known < MaxKnown
    /\ known' = known + 1
    /\ UNCHANGED <<pins, bytes, compaction, request, seen>>

HPNext ==
    \/ \E s \in PinSessions :
          \/ \E d \in Routes[s], ks \in {<<k>> : k \in Surfaces} \cup {SetToSeq(Surfaces)} :
                Transform(s, d, ks)
          \/ Compacting(s) \/ Answered(s) \/ Aborted(s) \/ SessionDeleted(s)
    \/ Learn

HPSpec == HPInit /\ [][HPNext]_hpVars

-----------------------------------------------------------------------------
\* The byte count is that of the pins that are kept, whatever was replaced,
\* evicted or forgotten, and no bound is exceeded.
PinsAccounted ==
    /\ bytes = AllBytes(pins) /\ bytes <= ByteBudget
    /\ Len(pins) <= MaxScopes
    /\ \A i, j \in DOMAIN pins : pins[i][1] = pins[j][1] => i = j
    /\ \A i \in DOMAIN pins : Len(pins[i][2]) <= PerScope

\* A request whose surfaces a destination was answered about goes there again
\* byte for byte, whatever was learned since, for as long as their pins are kept;
\* and what no answer of its session followed is redacted with all that is known.
AnswersAreReplayed ==
    [][\A s \in PinSessions :
          request[s] = Idle /\ request'[s] # Idle /\ request'[s].pinning =>
             LET d == request'[s].to
                 sent == Range(request'[s].sent)
                 Told(k) == {e \in seen[s] : e[1] = d /\ e[2] = k}
             IN  /\ (\A x \in sent : Matches(pins, s, d, x[1]) # {} /\ Told(x[1]) # {})
                       => \A x \in sent : <<d, x[1], x[2]>> \in Told(x[1])
                 /\ \A x \in sent : \A pin \in Matches(pins, s, d, x[1]) :
                       ~pin.delivered => x[2] = known]_hpVars

\* The pins are within their bounds and accounted for, and what was answered about
\* is sent again as it was.
ReplayIsStable == []PinsAccounted /\ AnswersAreReplayed
=============================================================================
