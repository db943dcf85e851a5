---------------------------- MODULE SessionPins ----------------------------
(***************************************************************************)
(* The classifier model pinned to a session                                *)
(* (plugins/approve-for-me/src/shared/persisted-state.ts, chooseModel in   *)
(* src/tui.tsx, reconcileSessionModels and the session.deleted handler in  *)
(* src/index.ts).  The record of a root session is a file of its own:      *)
(* terminals write and clear it, a starting server clears those of         *)
(* sessions that are gone, and a running one that of a session that is     *)
(* deleted, all at once.  A record's revision tells it from every other.   *)
(***************************************************************************)
EXTENDS Naturals, FiniteSets

CONSTANTS
    Choosers,       \* terminals
    Models,
    MaxPicks        \* bound on the dialogs opened

VARIABLES
    pin,        \* the record of one session
    exists,     \* whether the host knows the session
    holder,     \* who has the store lock of the record
    chooser,    \* chooseModel of each terminal
    sweep,      \* reconcileSessionModels
    deleting,   \* the session.deleted handler
    picks

spVars == <<pin, exists, holder, chooser, sweep, deleting, picks>>

NoRecord == [rev |-> 0, model |-> "none"]
Invalid == [rev |-> 0, model |-> "invalid"]
Inherit == "inherit"
Choosing == [at |-> "idle", seen |-> NoRecord, record |-> NoRecord]
NoSweep == [at |-> "idle", record |-> NoRecord]

SPInit ==
    /\ pin = NoRecord /\ exists = TRUE /\ holder = {} /\ picks = 0 /\ deleting = FALSE
    /\ chooser = [c \in Choosers |-> Choosing]
    /\ sweep = NoSweep

-----------------------------------------------------------------------------
(* The file.                                                               *)

\* sameSessionModelRecord
SameRecord(record, expected) == record = expected

\* withStoreLock, to write or to clear.
LocksRecord(who) == holder = {} /\ holder' = {who}

\* clearTrustedSessionModelIfUnchanged compares first and then unlinks what is
\* there; an unlink that finds nothing is not a success.
RecordGone == pin' = NoRecord

-----------------------------------------------------------------------------
(* A terminal.                                                             *)

ChooserBecomes(c, state) == chooser' = [chooser EXCEPT ![c] = state]
ChooserStays == UNCHANGED <<exists, sweep, deleting, picks>>

\* The dialog opens on what readTrustedSessionModel gave.
OpensDialog(c) ==
    /\ chooser[c].at = "idle" /\ picks < MaxPicks /\ exists
    /\ picks' = picks + 1
    /\ \E seen \in {pin, Invalid} : 
            ChooserBecomes(c, [at |-> "shown", seen |-> seen, record |-> [NoRecord EXCEPT !.rev = picks + 1]])
    /\ UNCHANGED <<pin, exists, holder, sweep, deleting>>

Unaltered(seen, choice) == IF choice = Inherit THEN seen = NoRecord ELSE seen.model = choice

\* The dialog is left, or the pick changes nothing of what was shown; else a
\* record of a new revision is made, or the one that was shown is to be cleared.
Picks(c) ==
    /\ chooser[c].at = "shown"
    /\ UNCHANGED <<pin, holder>> /\ ChooserStays
    /\ \/ ChooserBecomes(c, Choosing)
       \/ \E choice \in Models \cup {Inherit} :
             LET seen == chooser[c].seen
             IN  ChooserBecomes(c, IF Unaltered(seen, choice) THEN Choosing
                                   ELSE IF choice # Inherit
                                   THEN [at |-> "write", seen |-> seen, record |-> [chooser[c].record EXCEPT !.model = choice]]
                                   ELSE IF seen = Invalid THEN Choosing
                                   ELSE [at |-> "clear", seen |-> seen, record |-> seen])

TakesPinLock(c) ==
    /\ chooser[c].at \in {"write", "clear"}
    /\ LocksRecord(c)
    /\ ChooserBecomes(c, [chooser[c] EXCEPT !.at = IF @ = "write" THEN "writing" ELSE "comparing"])
    /\ UNCHANGED pin /\ ChooserStays

\* writeSessionModel publishes, or cannot.
WritesPin(c) ==
    /\ chooser[c].at = "writing"
    /\ pin' \in {pin, chooser[c].record}
    /\ holder' = {} /\ ChooserBecomes(c, Choosing) /\ ChooserStays

ComparesPin(c) ==
    /\ chooser[c].at = "comparing"
    /\ IF SameRecord(pin, chooser[c].record)
       THEN ChooserBecomes(c, [chooser[c] EXCEPT !.at = "clearing"]) /\ UNCHANGED holder
       ELSE ChooserBecomes(c, Choosing) /\ holder' = {}
    /\ UNCHANGED pin /\ ChooserStays

ClearsPin(c) ==
    /\ chooser[c].at = "clearing"
    /\ RecordGone /\ holder' = {}
    /\ ChooserBecomes(c, Choosing) /\ ChooserStays

-----------------------------------------------------------------------------
(* The server.                                                             *)

SweepStays == UNCHANGED <<exists, chooser, deleting, picks>>

\* listTrustedSessionModels, when a server starts.
ListsPins ==
    /\ sweep.at = "idle" /\ pin # NoRecord
    /\ sweep' = [at |-> "lookup", record |-> pin]
    /\ UNCHANGED <<pin, holder>> /\ SweepStays

\* Mutant of NotFound: a failed look-up counts as well.
MutNotFound == TRUE

\* The look-up says 404 and NotFoundError.
NotFound == ~exists

\* Only a session the host does not find loses its record; a failed look-up
\* keeps it.
LooksUp ==
    /\ sweep.at = "lookup"
    /\ \/ NotFound /\ LocksRecord("server") /\ sweep' = [sweep EXCEPT !.at = "comparing"]
       \/ sweep' = NoSweep /\ UNCHANGED holder
    /\ UNCHANGED pin /\ SweepStays

SweepCompares ==
    /\ sweep.at = "comparing"
    /\ IF SameRecord(pin, sweep.record)
       THEN sweep' = [sweep EXCEPT !.at = "clearing"] /\ UNCHANGED holder
       ELSE sweep' = NoSweep /\ holder' = {}
    /\ UNCHANGED pin /\ SweepStays

SweepClears ==
    /\ sweep.at = "clearing"
    /\ RecordGone /\ holder' = {} /\ sweep' = NoSweep
    /\ SweepStays

\* The session is deleted; the handler clears the record without the lock.
SessionGone ==
    /\ exists
    /\ exists' = FALSE /\ deleting' = TRUE
    /\ UNCHANGED <<pin, holder, chooser, sweep, picks>>

ClearTrustedSessionModel ==
    /\ deleting
    /\ deleting' = FALSE
    /\ pin' \in {pin, NoRecord}
    /\ UNCHANGED <<exists, holder, chooser, sweep, picks>>

-----------------------------------------------------------------------------

SPNext ==
    \/ \E c \in Choosers :
          OpensDialog(c) \/ Picks(c) \/ TakesPinLock(c) \/ WritesPin(c) \/ ComparesPin(c) \/ ClearsPin(c)
    \/ ListsPins \/ LooksUp \/ SweepCompares \/ SweepClears
    \/ SessionGone \/ ClearTrustedSessionModel

SPSpec == SPInit /\ [][SPNext]_spVars

-----------------------------------------------------------------------------

\* A session that the host knows loses its pin only to a terminal that clears
\* the very record its user saw, never one that was written meanwhile; and a
\* later choice is never undone by an earlier one's clearing.
PinsAreKept ==
    [][exists /\ pin # NoRecord /\ pin' # pin =>
          \E c \in Choosers :
             \/ pin' = NoRecord /\ chooser[c].at = "clearing" /\ chooser[c].seen = pin
             \/ pin' = chooser[c].record /\ chooser[c].at = "writing"]_spVars
=============================================================================
