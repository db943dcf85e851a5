----------------------------- MODULE UsageLimits ------------------------------
(***************************************************************************)
(* Whose usage limits a terminal shows: the ChatGPT account of the server  *)
(* that serves the session on screen (libraries/usage-limits/src/engine.ts *)
(* with the Codex module of plugins/codex-limits/src).                     *)
(*                                                                         *)
(* A record of the terminal's own auth store counts only if the server     *)
(* proves that it holds the same one: a reading looks into the store,      *)
(* probes the server of the selected scope, and is adopted unless a later  *)
(* one has begun.  A flight reads, fetches the usage, reads again, and     *)
(* shows the numbers if nothing has changed.  A tick reads, looks up the   *)
(* classifier of the session and asks for a flight.                        *)
(*                                                                         *)
(* Sessions are told apart by their scope: client, server and directory.   *)
(* Disposal and the parsing of answers are left out.                       *)
(***************************************************************************)
EXTENDS Integers

CONSTANTS
    Scopes, Records,  \* what serves a session; the OAuth records of an auth store
    AccountOf,        \* the account that a record shows, "unknown" if it shows none
    Ticks,            \* runs of the poll, by timer or by event
    HideAfter,        \* HIDE_AFTER_FAILURES
    MaxTurns, MaxReadings

NoOauth == "none"
NoScope == "nowhere"

VARIABLES
    viewed,       \* the scope of the session on screen
    serverHas, storeHas, turns,          \* who is signed in; how often that, or the view, changed
    selected, authEpoch,                 \* scopedCodexModule
    auth,                                \* createCodexInstance: what it knows
    flight, flightGeneration, queued, followUp,  \* its refresh
    reading,      \* the readings: of the ticks, and 0, that of the flight
    tick,         \* where each tick stands, whether it is forced
    classifierRoot, syncGeneration, classifier,  \* the engine's: the classifier shown, by its session
    sync          \* the look-ups of it: of the ticks, and 0, that of the view

ulVars == <<viewed, serverHas, storeHas, turns, selected, authEpoch, auth, flight, flightGeneration,
            queued, followUp, reading, tick, classifierRoot, syncGeneration, classifier, sync>>

Readers == Ticks \cup {0}
NoNumbers == [of |-> NoOauth, at |-> NoScope]
NoReading == [pc |-> "off", sequence |-> 0, epoch |-> 0, scope |-> NoScope, found |-> NoOauth, held |-> {}]
NoFetch == [pc |-> "off", force |-> FALSE, generation |-> 0, by |-> NoOauth, result |-> "none"]
NoSync == [pc |-> "off", generation |-> 0, root |-> NoScope]

ULInit ==
    /\ viewed \in Scopes /\ classifierRoot = viewed
    /\ serverHas \in [Scopes -> Records] /\ storeHas \in Records /\ turns = 0
    /\ selected = NoScope /\ authEpoch = 0
    /\ auth = [oauth |-> NoOauth, limits |-> NoNumbers, sequence |-> 0, generation |-> 0,
               failures |-> 0, backoff |-> FALSE, fresh |-> FALSE, rejected |-> NoOauth]
    /\ flight = NoFetch /\ flightGeneration = -1 /\ queued = FALSE /\ followUp = FALSE
    /\ reading = [r \in Readers |-> NoReading]
    /\ tick = [t \in Ticks |-> [pc |-> "off", force |-> FALSE]]
    /\ syncGeneration = 0 /\ classifier = NoScope
    /\ sync = [r \in Readers |-> NoSync]

-----------------------------------------------------------------------------
(* The instance: what is known of the record and of its usage.               *)

SameAccount(a, b) == a # NoOauth /\ b # NoOauth /\ AccountOf[a] # "unknown" /\ AccountOf[a] = AccountOf[b]

\* invalidateAuth.
Forgotten(i) ==
    [oauth |-> NoOauth, limits |-> NoNumbers, sequence |-> i.sequence + 1, generation |-> i.generation + 1,
     failures |-> 0, backoff |-> FALSE, fresh |-> FALSE, rejected |-> NoOauth]

NotNewest(i, r) == reading[r].sequence # i.sequence

\* A bug: the epoch alone is compared, and not the scope that is viewed by now.
MutAnswer(r) == IF reading[r].epoch = authEpoch THEN reading[r].found ELSE NoOauth

\* What a reading brings back.
Answer(r) == IF reading[r].epoch = authEpoch /\ selected = viewed THEN reading[r].found ELSE NoOauth

\* The second half of syncAuth.
Adopted(i, r) ==
    LET kept == SameAccount(i.oauth, Answer(r)) IN
    IF NotNewest(i, r) \/ Answer(r) = i.oauth THEN i
    ELSE [i EXCEPT !.oauth = Answer(r), !.generation = @ + 1, !.failures = 0, !.backoff = FALSE,
                   !.rejected = NoOauth, !.limits = IF kept THEN @ ELSE NoNumbers,
                   !.fresh = @ /\ kept]

Failed(i, unauthorized) ==
    [i EXCEPT !.failures = IF @ < HideAfter THEN @ + 1 ELSE @, !.backoff = TRUE,
              !.limits = IF unauthorized \/ i.failures + 1 >= HideAfter THEN NoNumbers ELSE @]

-----------------------------------------------------------------------------
(* A reading.                                                                *)

\* syncAuth begins, under the scope s of epoch e; i is what is known then.
BeginReading(r, i, s, e) ==
    /\ auth' = [i EXCEPT !.sequence = @ + 1]
    /\ reading' = [reading EXCEPT ![r] =
           [NoReading EXCEPT !.pc = "store", !.sequence = i.sequence + 1, !.epoch = e, !.scope = s,
                             !.held = {serverHas[p] : p \in {s} \cap Scopes}]]

StoreIsRead(r) ==
    /\ reading[r].pc = "store"
    /\ reading' = [reading EXCEPT ![r].pc = "probe", ![r].found = storeHas]
    /\ UNCHANGED <<viewed, serverHas, storeHas, turns, selected, authEpoch, auth, flight, flightGeneration,
                   queued, followUp, tick, classifierRoot, syncGeneration, classifier, sync>>

\* The responder of scope s: its proof is keyed by the record it holds now, and
\* matches that of the same record only.
Proves(s, a) == serverHas[s] = a

ServerAnswers(r) ==
    /\ reading[r].pc = "probe" /\ reading[r].scope \in Scopes
    /\ reading' = [reading EXCEPT ![r].pc = "told",
                                  ![r].found = IF Proves(reading[r].scope, @) THEN @ ELSE NoOauth]
    /\ UNCHANGED <<viewed, serverHas, storeHas, turns, selected, authEpoch, auth, flight, flightGeneration,
                   queued, followUp, tick, classifierRoot, syncGeneration, classifier, sync>>

\* No scope, no answer in time, or an epoch that is over.
ReadingFails(r) ==
    /\ reading[r].pc \in {"store", "probe"}
    /\ reading' = [reading EXCEPT ![r].pc = "told", ![r].found = NoOauth]
    /\ UNCHANGED <<viewed, serverHas, storeHas, turns, selected, authEpoch, auth, flight, flightGeneration,
                   queued, followUp, tick, classifierRoot, syncGeneration, classifier, sync>>

-----------------------------------------------------------------------------
(* The scope and the flight.                                                 *)

\* selectScope: what is known afterwards.
Selecting == IF selected = viewed THEN auth ELSE Forgotten(auth)
SelectScope ==
    /\ selected' = viewed
    /\ authEpoch' = IF selected = viewed THEN authEpoch ELSE authEpoch + 1

\* One flight at a time; a call in between may queue one more.  i is what is known.
RefreshCalled(force, i) ==
    IF flight.pc = "off"
    THEN /\ flight' = [NoFetch EXCEPT !.pc = "before", !.force = force]
         /\ flightGeneration' = i.generation
         /\ BeginReading(0, i, selected', authEpoch')
         /\ UNCHANGED queued
    ELSE /\ queued' = (queued \/ force \/ flightGeneration # i.generation)
         /\ auth' = i
         /\ UNCHANGED <<flight, flightGeneration, reading>>

FlightOver(i) ==
    /\ auth' = i /\ flight' = NoFetch
    /\ reading' = [reading EXCEPT ![0] = NoReading]
    /\ queued' = FALSE /\ followUp' = (followUp \/ queued)

FollowUpRuns ==
    /\ followUp /\ followUp' = FALSE
    /\ auth.sequence < MaxReadings
    /\ UNCHANGED <<selected, authEpoch>>
    /\ RefreshCalled(TRUE, auth)
    /\ UNCHANGED <<viewed, serverHas, storeHas, turns, tick, classifierRoot, syncGeneration, classifier, sync>>

\* The flight has its first reading; the record may also have expired.
FlightRead ==
    /\ flight.pc = "before" /\ reading[0].pc = "told"
    /\ LET i == Adopted(auth, 0) IN
       \/ NotNewest(auth, 0) /\ FlightOver(i) /\ UNCHANGED flightGeneration
       \/ /\ ~NotNewest(auth, 0)
          /\ flightGeneration' = i.generation
          /\ IF i.oauth = NoOauth \/ i.oauth = i.rejected \/ i.backoff \/ (i.fresh /\ ~flight.force)
             THEN FlightOver(i)
             ELSE \/ FlightOver(Failed(i, FALSE))
                  \/ /\ flight' = [flight EXCEPT !.pc = "fetching", !.generation = i.generation, !.by = i.oauth]
                     /\ reading' = [reading EXCEPT ![0] = NoReading]
                     /\ auth' = i /\ UNCHANGED <<queued, followUp>>
    /\ UNCHANGED <<viewed, serverHas, storeHas, turns, selected, authEpoch, tick, classifierRoot,
                   syncGeneration, classifier, sync>>

\* fetchUsage is back, and the record is read once more.
UsageAnswers ==
    /\ flight.pc = "fetching"
    /\ \E result \in {"success", "unauthorized", "failed"} :
           flight' = [flight EXCEPT !.pc = "after", !.result = result]
    /\ BeginReading(0, auth, selected, authEpoch)
    /\ UNCHANGED <<viewed, serverHas, storeHas, turns, selected, authEpoch, flightGeneration, queued,
                   followUp, tick, classifierRoot, syncGeneration, classifier, sync>>

\* Does the answer still speak of what is known now?
StillMeant(i) ==
    ~NotNewest(auth, 0) /\ flight.generation = i.generation /\ flight.by = i.oauth

Settled(i) ==
    CASE ~StillMeant(i) -> i
      [] StillMeant(i) /\ flight.result = "success" ->
             [i EXCEPT !.limits = [of |-> flight.by, at |-> selected], !.fresh = TRUE, !.failures = 0,
                       !.backoff = FALSE, !.rejected = NoOauth]
      [] StillMeant(i) /\ flight.result = "unauthorized" -> Failed([i EXCEPT !.rejected = flight.by], TRUE)
      [] OTHER -> Failed(i, FALSE)

FlightEnds ==
    /\ flight.pc = "after" /\ reading[0].pc = "told"
    /\ FlightOver(Settled(Adopted(auth, 0)))
    /\ UNCHANGED <<viewed, serverHas, storeHas, turns, selected, authEpoch, flightGeneration, tick,
                   classifierRoot, syncGeneration, classifier, sync>>

\* The view shows a section without numbers.
ViewRefreshes ==
    /\ auth.oauth # NoOauth /\ selected = viewed /\ auth.limits = NoNumbers
    /\ auth.sequence < MaxReadings
    /\ UNCHANGED <<selected, authEpoch>>
    /\ RefreshCalled(FALSE, auth)
    /\ UNCHANGED <<viewed, serverHas, storeHas, turns, followUp, tick, classifierRoot, syncGeneration,
                   classifier, sync>>

-----------------------------------------------------------------------------
(* The engine.                                                               *)

\* runClassifierSync begins for the session that is viewed.
BeginSync(r, root) ==
    /\ syncGeneration' = syncGeneration + 1
    /\ classifierRoot' = root
    /\ classifier' = IF root = classifierRoot THEN classifier ELSE NoScope
    /\ sync' = [sync EXCEPT ![r] = [pc |-> "asked", generation |-> syncGeneration + 1, root |-> root]]

\* The configuration has named a provider, or none, or could not be read.
SyncAnswers(r) ==
    /\ sync' = [sync EXCEPT ![r] = NoSync]
    /\ IF sync[r].generation = syncGeneration THEN classifier' \in {sync[r].root, NoScope} ELSE UNCHANGED classifier
    /\ UNCHANGED <<classifierRoot, syncGeneration>>

TickBegins(t) ==
    /\ tick[t].pc = "off" /\ auth.sequence < MaxReadings
    /\ \E force \in BOOLEAN : tick' = [tick EXCEPT ![t] = [pc |-> "auth", force |-> force]]
    /\ SelectScope
    /\ BeginReading(t, Selecting, selected', authEpoch')
    /\ UNCHANGED <<viewed, serverHas, storeHas, turns, flight, flightGeneration, queued, followUp,
                   classifierRoot, syncGeneration, classifier, sync>>

TickRead(t) ==
    /\ tick[t].pc = "auth" /\ reading[t].pc = "told"
    /\ auth' = Adopted(auth, t)
    /\ reading' = [reading EXCEPT ![t] = NoReading]
    /\ tick' = [tick EXCEPT ![t].pc = "sync"]
    /\ BeginSync(t, viewed)
    /\ UNCHANGED <<viewed, serverHas, storeHas, turns, selected, authEpoch, flight, flightGeneration,
                   queued, followUp>>

\* The provider concerns the session, or not.
TickRefreshes(t) ==
    /\ tick[t].pc = "sync" /\ SyncAnswers(t)
    /\ tick' = [tick EXCEPT ![t] = [pc |-> "done", force |-> FALSE]]
    /\ \/ SelectScope /\ RefreshCalled(tick[t].force, Selecting)
       \/ UNCHANGED <<selected, authEpoch, auth, flight, flightGeneration, queued, reading>>
    /\ UNCHANGED <<viewed, serverHas, storeHas, turns, followUp>>

ViewSynced ==
    /\ sync[0].pc = "asked" /\ SyncAnswers(0)
    /\ UNCHANGED <<viewed, serverHas, storeHas, turns, selected, authEpoch, auth, flight, flightGeneration,
                   queued, followUp, reading, tick>>

-----------------------------------------------------------------------------
(* The user, the server, time.                                               *)

\* Another session on screen; the view asks for its classifier at once.
ViewChanges ==
    /\ turns < MaxTurns /\ turns' = turns + 1
    /\ sync[0].pc = "off"
    /\ \E s \in Scopes \ {viewed} : viewed' = s /\ BeginSync(0, s)
    /\ UNCHANGED <<serverHas, storeHas, selected, authEpoch, auth, flight, flightGeneration, queued,
                   followUp, reading, tick>>

\* Signing in, out, or a rotated token, on a server or in the terminal's store.
ServerSignsIn ==
    /\ turns < MaxTurns /\ turns' = turns + 1
    /\ \E s \in Scopes, a \in Records \cup {NoOauth} :
           /\ a # serverHas[s] /\ serverHas' = [serverHas EXCEPT ![s] = a]
           /\ reading' = [r \in Readers |-> IF reading[r].scope = s
                                            THEN [reading[r] EXCEPT !.held = @ \cup {a}] ELSE reading[r]]
    /\ UNCHANGED <<viewed, storeHas, selected, authEpoch, auth, flight, flightGeneration, queued,
                   followUp, tick, classifierRoot, syncGeneration, classifier, sync>>

StoreSignsIn ==
    /\ turns < MaxTurns /\ turns' = turns + 1
    /\ storeHas' \in (Records \cup {NoOauth}) \ {storeHas}
    /\ UNCHANGED <<viewed, serverHas, selected, authEpoch, auth, flight, flightGeneration, queued,
                   followUp, reading, tick, classifierRoot, syncGeneration, classifier, sync>>

\* The connection is new: nothing that was proved before counts.
ServerConnects ==
    /\ turns < MaxTurns /\ turns' = turns + 1
    /\ selected' = NoScope /\ authEpoch' = authEpoch + 1 /\ auth' = Forgotten(auth)
    /\ UNCHANGED <<viewed, serverHas, storeHas, flight, flightGeneration, queued, followUp, reading,
                   tick, classifierRoot, syncGeneration, classifier, sync>>

\* The backoff is over, or the numbers are no longer fresh.
TimePasses ==
    /\ auth.backoff \/ auth.fresh
    /\ auth' = [auth EXCEPT !.backoff = FALSE, !.fresh = FALSE]
    /\ UNCHANGED <<viewed, serverHas, storeHas, turns, selected, authEpoch, flight, flightGeneration,
                   queued, followUp, reading, tick, classifierRoot, syncGeneration, classifier, sync>>

ULNext ==
    \/ \E r \in Readers : StoreIsRead(r) \/ ServerAnswers(r) \/ ReadingFails(r)
    \/ \E t \in Ticks : TickBegins(t) \/ TickRead(t) \/ TickRefreshes(t)
    \/ FollowUpRuns \/ FlightRead \/ UsageAnswers \/ FlightEnds \/ ViewRefreshes \/ ViewSynced
    \/ ViewChanges \/ ServerSignsIn \/ StoreSignsIn \/ ServerConnects \/ TimePasses

ULSpec == ULInit /\ [][ULNext]_ulVars

-----------------------------------------------------------------------------
\* The numbers on screen are those of the account known now, obtained under the
\* scope that is selected now, and the classifier on screen is that of the session
\* viewed: nothing survives a change of either.
NumbersAreOwn ==
    /\ auth.limits # NoNumbers =>
           /\ auth.limits.at = selected
           /\ auth.limits.of = auth.oauth \/ SameAccount(auth.limits.of, auth.oauth)
    /\ classifier # NoScope => classifier = viewed

\* A record is adopted from the reading begun last only, and the server of the
\* scope on screen held it at some moment since that reading began.  Numbers are
\* put up only if that server held their record since they were answered.
ProvedSince(a) ==
    \E r \in Readers : /\ a \in reading[r].held /\ reading[r].scope = viewed
                       /\ \A q \in Readers : reading[q].sequence <= reading[r].sequence

LimitsAreOwn ==
    []NumbersAreOwn /\
    [][/\ auth.oauth' \notin {auth.oauth, NoOauth} => ProvedSince(auth.oauth')
       /\ auth.limits' \notin {auth.limits, NoNumbers} =>
              flight.pc = "after" /\ auth.limits'.of \in reading[0].held]_ulVars
=============================================================================
