----------------------------- MODULE TuiControls -----------------------------
(***************************************************************************)
(* The controls of approve-for-me in a terminal                            *)
(* (plugins/approve-for-me/src/tui.tsx and src/shared/instance.ts).  The   *)
(* terminal and the server share nothing but files: it asks over the       *)
(* transport who the server is, derives the files of that instance, proves *)
(* that both see the same ones, mirrors them by watching, and toggles the  *)
(* instance by writing its override file.  The server may be replaced at   *)
(* any moment, and other terminals toggle too.                             *)
(*                                                                         *)
(* A generation or an epoch that has moved on is a flag of the work that   *)
(* had captured it.                                                        *)
(***************************************************************************)
EXTENDS Naturals, Sequences, SequencesExt

CONSTANTS
    MaxServers,     \* instances of the server, one after the other
    MaxToggles,     \* bound on the toggles, of this terminal and of others
    MaxReads        \* bound on the reads in flight

ASSUME TCAssumption == MaxServers \in Nat \ {0}

VARIABLES
    live,       \* the instance that runs
    local,      \* the instances whose files this terminal sees
    hint,       \* server.connected or a disposal, on its way
    override,   \* the override file of each instance
    toggles,
    owner,      \* instanceID
    settled,    \* settledPaths
    available,  \* ~instanceUnavailable
    shared,     \* sharedFilesystem
    adoption,   \* adoptPaths in flight
    proving,    \* the locality flight of this epoch
    watching,   \* the watchers of beginWatching, and whether a change is unseen
    loaded,
    mirror,     \* what the sidebar shows
    reads,      \* reloadOverride in flight, in the order of their start
    press,      \* doToggle
    landed      \* auxiliary: the instance that ran when the toggle was written

envVars == <<live, local, hint, override, toggles>>
idVars == <<owner, settled, available, adoption>>
filesVars == <<shared, proving, watching, loaded, mirror, reads>>
tcVars == <<envVars, idVars, filesVars, press, landed>>

Servers == 1..MaxServers
Nobody == 0
Unset == [on |-> TRUE, by |-> "nobody"]         \* no override: the default
NoFlight == [at |-> "none", answer |-> Nobody, late |-> FALSE]
NoPress == [at |-> "idle", owner |-> Nobody, late |-> FALSE, next |-> TRUE, answer |-> Nobody]

TCInit ==
    /\ live = 1 /\ hint = FALSE /\ toggles = 0
    /\ local \in SUBSET Servers
    /\ override = [i \in Servers |-> Unset]
    /\ owner = Nobody /\ settled = Nobody /\ available = TRUE
    /\ adoption = NoFlight
    /\ shared = "unknown" /\ proving = FALSE /\ watching = "no" /\ loaded = FALSE
    /\ mirror = Unset /\ reads = <<>>
    /\ press = NoPress /\ landed = Nobody

-----------------------------------------------------------------------------
(* The server and the other terminals.                                     *)

Restart ==
    /\ live < MaxServers
    /\ live' = live + 1 /\ hint' = TRUE
    /\ UNCHANGED <<local, override, toggles, idVars, filesVars, press, landed>>

Written(i, value) ==
    /\ override' = [override EXCEPT ![i] = value]
    /\ watching' = IF watching # "no" /\ settled = i THEN "changed" ELSE watching

PeerToggles ==
    /\ toggles < MaxToggles
    /\ toggles' = toggles + 1
    /\ Written(live, [on |-> ~override[live].on, by |-> "peer"])
    /\ UNCHANGED <<live, local, hint, idVars, shared, proving, loaded, mirror, reads, press, landed>>

-----------------------------------------------------------------------------
(* Who the server is.                                                      *)

\* invalidateLocality: a new epoch, in which nothing is known of the files.
Invalidated(sharing) ==
    /\ shared' = sharing /\ proving' = FALSE /\ watching' = "no" /\ loaded' = FALSE
    /\ mirror' = Unset /\ reads' = <<>>
Outdated(p) == [p EXCEPT !.late = @ \/ p.at # "idle"]

Started == [NoFlight EXCEPT !.at = "probing"]
JoinsAdoption == IF adoption.at = "none" THEN Started ELSE adoption

\* invalidateDiscovery.  The probe under way will be asked again.
HintArrives ==
    /\ hint
    /\ hint' = FALSE
    /\ adoption' = IF adoption.at = "none" THEN Started ELSE [adoption EXCEPT !.late = TRUE]
    /\ available' = FALSE
    /\ Invalidated("unknown")
    /\ press' = Outdated(press)
    /\ UNCHANGED <<live, local, override, toggles, owner, settled, landed>>

\* The poll of paths, and the start.
AdoptPaths ==
    /\ adoption.at = "none"
    /\ adoption' = Started
    /\ UNCHANGED <<envVars, owner, settled, available, filesVars, press, landed>>

\* requestInstanceID: the server's answer, on its way.
Responds ==
    /\ adoption.at = "probing" /\ adoption.answer = Nobody
    /\ adoption' = [adoption EXCEPT !.answer = live]
    /\ UNCHANGED <<envVars, owner, settled, available, filesVars, press, landed>>

\* The probe under way when a hint came is followed by another.  A toggle that
\* waited for it goes on.
AdoptionEnds(ok) ==
    /\ adoption' = IF adoption.late THEN Started ELSE NoFlight
    /\ press' = IF press.at # "adopting" THEN press
                ELSE IF ok /\ ~adoption.late /\ ~press.late THEN [press EXCEPT !.at = "gate"] ELSE NoPress

\* The answer, or the probe's timeout.
AnswerArrives ==
    /\ adoption.at = "probing"
    /\ UNCHANGED <<envVars, landed>>
    /\ \E answer \in {Nobody, adoption.answer} :
          \/ /\ adoption.late
             /\ AdoptionEnds(FALSE)
             /\ UNCHANGED <<owner, settled, available, filesVars>>
          \/ /\ ~adoption.late
             /\ answer = Nobody
             /\ available' = FALSE
             /\ AdoptionEnds(FALSE)
             /\ UNCHANGED <<owner, settled, filesVars>>
          \/ /\ ~adoption.late
             /\ answer # Nobody /\ answer = settled
             /\ available' = TRUE
             /\ proving' = (proving \/ shared # "yes")     \* verifyLocality, if it is not proved
             /\ AdoptionEnds(TRUE)
             /\ UNCHANGED <<owner, settled, shared, watching, loaded, mirror, reads>>
          \/ /\ ~adoption.late
             /\ answer # Nobody /\ answer # settled
             /\ available' = TRUE
             /\ owner' = answer /\ settled' = Nobody
             /\ Invalidated("unknown")
             /\ adoption' = [adoption EXCEPT !.at = "resolving", !.answer = Nobody]
             /\ press' = IF press.at = "adopting" THEN press ELSE Outdated(press)

\* resolveTrustedSettingsPaths
Resolved ==
    /\ adoption.at = "resolving"
    /\ IF adoption.late
       THEN AdoptionEnds(FALSE) /\ UNCHANGED <<settled, proving>>
       ELSE /\ settled' = owner /\ proving' = TRUE
            /\ adoption' = [adoption EXCEPT !.at = "proving"]
            /\ UNCHANGED press
    /\ UNCHANGED <<envVars, owner, available, shared, watching, loaded, mirror, reads, landed>>

AdoptionProved ==
    /\ adoption.at = "proving" /\ ~proving
    /\ AdoptionEnds(TRUE)
    /\ UNCHANGED <<envVars, owner, settled, available, filesVars, landed>>

-----------------------------------------------------------------------------
(* The files.                                                              *)

Reading(who) == Append(reads, [who |-> who, value |-> Unset, read |-> FALSE, older |-> FALSE])

\* Mutant of SameFiles: that the server has answered is taken for a proof.
MutSameFiles == settled # Nobody

\* The server has shown that it sees what this terminal sees.
SameFiles == settled \in local

\* verifyFilesystemLocality: proved only when it is so; then the first load.
Proved ==
    /\ proving
    /\ \/ Invalidated("no") /\ press' = Outdated(press)
       \/ /\ SameFiles
          /\ shared' = "yes" /\ proving' = FALSE
          /\ IF watching = "no"
             THEN watching' = "yes" /\ reads' = Reading("watch")
             ELSE UNCHANGED <<watching, reads>>
          /\ UNCHANGED <<loaded, mirror, press>>
    /\ UNCHANGED <<envVars, idVars, landed>>

\* watchFile notices the change and reloads.
WatchFires ==
    /\ watching = "changed" /\ Len(reads) < MaxReads
    /\ watching' = "yes" /\ reads' = Reading("watch")
    /\ UNCHANGED <<envVars, idVars, shared, proving, loaded, mirror, press, landed>>

Samples(k) ==
    /\ ~reads[k].read
    /\ reads' = [reads EXCEPT ![k].read = TRUE, ![k].value = override[settled]]
    /\ UNCHANGED <<envVars, idVars, shared, proving, watching, loaded, mirror, press, landed>>

\* A read that started before one that is shown already.
Overtaken(read) == read.older

\* reloadOverride's result.
Shown(k) == IF Overtaken(reads[k]) THEN mirror ELSE reads[k].value

\* A reload is done; a toggle's own goes on with what is shown.
ReadDone(k) ==
    /\ reads[k].read
    /\ mirror' = Shown(k)
    /\ reads' = RemoveAt([j \in DOMAIN reads |->
                            IF j < k /\ ~Overtaken(reads[k]) THEN [reads[j] EXCEPT !.older = TRUE] ELSE reads[j]], k)
    /\ loaded' = (loaded \/ reads[k].who = "watch")

WatchRead(k) ==
    /\ reads[k].who = "watch"
    /\ ReadDone(k)
    /\ UNCHANGED <<envVars, idVars, shared, proving, watching, press, landed>>

-----------------------------------------------------------------------------
(* doToggle                                                                *)

Press ==
    /\ press.at = "idle" /\ toggles < MaxToggles
    /\ toggles' = toggles + 1
    /\ adoption' = JoinsAdoption
    /\ press' = [NoPress EXCEPT !.at = "adopting"]
    /\ landed' = Nobody
    /\ UNCHANGED <<live, local, hint, override, owner, settled, available, filesVars>>

Steps(at) == press' = [press EXCEPT !.at = at]
Current == available /\ owner = press.owner /\ settled = press.owner
Sound == ~press.late /\ shared = "yes"

\* gatePaths: with the owner known, the files are proved again.
Gate ==
    /\ press.at = "gate"
    /\ IF owner = Nobody \/ ~available \/ press.late
       THEN press' = NoPress /\ UNCHANGED proving
       ELSE press' = [press EXCEPT !.at = "proving", !.owner = owner] /\ proving' = TRUE
    /\ UNCHANGED <<envVars, idVars, shared, watching, loaded, mirror, reads, landed>>

\* The first load is done, and nothing has changed meanwhile; the override is
\* read once more.
ReadsFirst ==
    /\ press.at = "proving" /\ ~proving
    /\ loaded \/ ~Sound
    /\ IF Sound /\ Current
       THEN Len(reads) < MaxReads /\ reads' = Reading("press") /\ Steps("reading")
       ELSE press' = NoPress /\ UNCHANGED reads
    /\ UNCHANGED <<envVars, idVars, shared, proving, watching, loaded, mirror, landed>>

PressRead(k) ==
    /\ reads[k].who = "press"
    /\ ReadDone(k)
    /\ press' = IF ~Sound \/ ~Current THEN NoPress
                ELSE IF press.at = "reading" THEN [press EXCEPT !.at = "writing", !.next = ~Shown(k).on]
                ELSE IF Shown(k) = [on |-> press.next, by |-> "me"] THEN [press EXCEPT !.at = "announced"]
                ELSE NoPress
    /\ UNCHANGED <<envVars, idVars, shared, proving, watching, landed>>

\* The read was dropped with its epoch.
PressLost ==
    /\ press.at \in {"reading", "confirming"} /\ press.late
    /\ press' = NoPress
    /\ UNCHANGED <<envVars, idVars, filesVars, landed>>

Writes ==
    /\ press.at = "writing"
    /\ \/ /\ Written(press.owner, [on |-> press.next, by |-> "me"])
          /\ landed' = live
          /\ Steps("probing")
       \/ press' = NoPress /\ UNCHANGED <<override, watching, landed>>      \* the write fails
    /\ UNCHANGED <<live, local, hint, toggles, idVars, shared, proving, loaded, mirror, reads>>

\* Whoever runs answers the second probe.
RespondsAgain ==
    /\ press.at = "probing" /\ press.answer = Nobody
    /\ IF Sound THEN press' = [press EXCEPT !.answer = live] ELSE press' = NoPress
    /\ UNCHANGED <<envVars, idVars, filesVars, landed>>

\* The instance that was toggled has answered after the write.
StillOwner(answer) == Current /\ answer = press.owner

Confirms ==
    /\ press.at = "probing"
    /\ \E answer \in {Nobody, press.answer} :
          IF ~StillOwner(answer)
          THEN adoption' = JoinsAdoption /\ press' = NoPress /\ UNCHANGED reads
          ELSE /\ UNCHANGED adoption
               /\ IF Sound
                  THEN Len(reads) < MaxReads /\ reads' = Reading("press") /\ Steps("confirming")
                  ELSE press' = NoPress /\ UNCHANGED reads
    /\ UNCHANGED <<envVars, owner, settled, available, shared, proving, watching, loaded, mirror, landed>>

\* The toast has been shown.
Announced ==
    /\ press.at = "announced"
    /\ press' = NoPress
    /\ UNCHANGED <<envVars, idVars, filesVars, landed>>

-----------------------------------------------------------------------------

TCNext ==
    \/ Restart \/ PeerToggles
    \/ HintArrives \/ AdoptPaths \/ Responds \/ AnswerArrives \/ Resolved \/ AdoptionProved
    \/ Proved \/ WatchFires
    \/ \E k \in DOMAIN reads : Samples(k) \/ WatchRead(k) \/ PressRead(k)
    \/ Press \/ Gate \/ ReadsFirst \/ PressLost \/ Writes \/ RespondsAgain \/ Confirms \/ Announced

TCSpec == TCInit /\ [][TCNext]_tcVars

-----------------------------------------------------------------------------

\* The user is told that a toggle took only when it was written for the very
\* instance that ran.
ToggleTakesEffect ==
    press.at = "announced" => landed = press.owner

\* The sidebar shows nothing but the adopted instance's file, seen through a
\* filesystem that is the server's, and that as it is, unless a change has yet
\* to be noticed or read.
MirrorIsTrue ==
    /\ mirror # Unset \/ loaded => settled # Nobody /\ settled \in local
    /\ loaded /\ watching = "yes" /\ reads = <<>> => mirror = override[settled]
    /\ press.at = "writing" => press.owner \in local

ControlsAreTrue == ToggleTakesEffect /\ MirrorIsTrue
=============================================================================
