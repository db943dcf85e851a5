----------------------------- MODULE PolicyTrust -----------------------------
(***************************************************************************)
(* The settings of approve-for-me that a project brings along              *)
(* (plugins/approve-for-me/src/shared/config-policy.ts and trustProject in *)
(* src/tui.tsx).  An agent can edit the project's OpenCode config, so what *)
(* it says of the plugin counts only in the bytes the user approved: a     *)
(* terminal scans the files, shows them in a dialog and records their      *)
(* hashes in the state directory; the server scans them again for every    *)
(* prompt and pauses when they are not the recorded ones, or when a file   *)
(* that supplied settings is gone.                                         *)
(*                                                                         *)
(* A file's bytes are one content; its hash is the content itself.         *)
(***************************************************************************)
EXTENDS Naturals, Sequences

CONSTANTS
    Terminals,
    MaxEvents       \* bound on the edits of the files and the answered dialogs

VARIABLES
    projectFiles,    \* the files of the project
    blessing,   \* the record in the state directory
    flow,       \* trustProject of each terminal
    events,
    server,     \* readPolicySnapshot
    told        \* auxiliary: what the dialog behind the record in force showed

ptVars == <<projectFiles, blessing, flow, events, server, told>>

\* Two config files, and a plugin source the host loads by itself.
ConfigFiles == {"outer", "inner"}
Source == "source"
Files == ConfigFiles \cup {Source}

\* A config with plugins: with others only, or with an entry of this one.  One
\* without any is like none.
Entries == {"strict", "loose"}
ContentsOf(f) == {"missing"} \cup IF f = Source THEN {"code"} ELSE Entries \cup {"others"}

HasOwnEntry(c) == c \in Entries
DeclaresPlugins(c) == c \in Entries \cup {"others"}

NoBlessing == [files |-> {}, policy |-> {}]
Resting == [at |-> "idle"]

PTInit ==
    /\ projectFiles = [f \in Files |-> "missing"]
    /\ events = 0
    /\ blessing = NoBlessing /\ told = NoBlessing
    /\ flow = [t \in Terminals |-> Resting]
    /\ server = Resting

-----------------------------------------------------------------------------

\* The agent, or the user, changes a file of the project.
ChangeFile(f) ==
    /\ events < MaxEvents
    /\ \E c \in ContentsOf(f) \ {projectFiles[f]} : projectFiles' = [projectFiles EXCEPT ![f] = c]
    /\ events' = events + 1
    /\ UNCHANGED <<blessing, flow, server, told>>

\* scanWorktreeConfig reads one file after the other, scanSideloadSources the
\* sources next to it.
ScanOrder == <<{"outer"}, {"inner", Source}>>
Scanned(scan) ==
    [scan EXCEPT !.k = @ + 1,
                 !.found = @ \cup {<<f, projectFiles[f]>> : f \in {g \in ScanOrder[scan.k] : projectFiles[g] # "missing"}}]
ScanDone(scan) == scan.k > Len(ScanOrder)

\* What a scan has found: files with their contents.  It begins with the first.
Scanning == Scanned([at |-> "scanning", k |-> 1, found |-> {}])

ConfigsOf(found) == {x \in found : x[1] # Source}
Suppliers(found) == {x[1] : x \in {y \in found : HasOwnEntry(y[2])}}

-----------------------------------------------------------------------------
(* The terminal.                                                           *)

TrustProject(t) ==
    /\ flow[t] = Resting /\ events < MaxEvents
    /\ flow' = [flow EXCEPT ![t] = Scanning]
    /\ UNCHANGED <<projectFiles, blessing, events, server, told>>

Reviewed(found) == {x \in found : x[1] = Source \/ DeclaresPlugins(x[2])}

\* Something cannot be read, or there is nothing to approve, not even the
\* removal of what was approved before; else the dialog is shown.
ShowsDialog(t) ==
    /\ flow[t].at = "scanning"
    /\ LET found == Scanned(flow[t]).found
           shown == [files |-> Reviewed(found), policy |-> Suppliers(found)]
       IN  flow' \in {[flow EXCEPT ![t] = Resting],
                      [flow EXCEPT ![t] = IF shown.files = {} /\ blessing.files = {} THEN Resting
                                          ELSE [at |-> "shown", shown |-> shown]]}
    /\ UNCHANGED <<projectFiles, blessing, events, server, told>>

\* The user dismisses the dialog, or the terminal cannot prove any more that it
\* shares the server's files; or the choice is to be recorded.
DialogAnswered(t) ==
    /\ flow[t].at = "shown"
    /\ \/ flow' = [flow EXCEPT ![t] = Resting] /\ UNCHANGED events
       \/ /\ events < MaxEvents
          /\ events' = events + 1
          /\ \E chosen \in {flow[t].shown, NoBlessing} :
                flow' = [flow EXCEPT ![t] = [at |-> "writing", record |-> chosen]]
    /\ UNCHANGED <<projectFiles, blessing, server, told>>

\* Mutant of Recorded: the hashes are taken when the record is written.
MutRecorded(record) ==
    [record EXCEPT !.files = {<<x[1], projectFiles[x[1]]>> : x \in @}]

\* The record holds the hashes of the bytes the dialog was about.
Recorded(record) == record

WritesBlessing(t) ==
    /\ flow[t].at = "writing"
    /\ \/ blessing' = Recorded(flow[t].record) /\ told' = flow[t].record
          /\ server' = IF server.at = "idle" THEN server
                       ELSE [server EXCEPT !.during = @ \cup {flow[t].record}]
       \/ UNCHANGED <<blessing, told, server>>      \* the write fails
    /\ flow' = [flow EXCEPT ![t] = Resting]
    /\ UNCHANGED <<projectFiles, events>>

-----------------------------------------------------------------------------
(* The server reads the record at any moment of its scan.                  *)

Unread == [files |-> {}, policy |-> {}, read |-> FALSE]

ServerStarts ==
    /\ server.at = "idle"
    /\ server' = [at |-> "scanning", k |-> Scanning.k, found |-> Scanning.found,
                  record |-> Unread, during |-> {told}]
    /\ UNCHANGED <<projectFiles, blessing, flow, events, told>>

ServerScans ==
    /\ server.at = "scanning" /\ ~ScanDone(server)
    /\ server' = Scanned(server)
    /\ UNCHANGED <<projectFiles, blessing, flow, events, told>>

ReadsBlessing ==
    /\ server.at = "scanning" /\ server.record = Unread
    /\ server' = [server EXCEPT !.record = blessing]
    /\ UNCHANGED <<projectFiles, blessing, flow, events, told>>

\* Suppliers whose bytes are not the recorded ones, and recorded suppliers that
\* are gone or have changed.
Pending(found, record) ==
    (Suppliers(found) \cup record.policy)
        \ {x[1] : x \in ConfigsOf(found) \cap record.files}

\* Plugins of the project that run beside this one without the user's approval.
Unblessed(found, record) == {x[1] : x \in Reviewed(found) \ record.files}

\* A file, the record, the global config or the project's settings that cannot
\* be read are a fault, and so is a pending file.
Evaluated ==
    /\ server.at = "scanning" /\ ScanDone(server) /\ server.record # Unread
    /\ \/ server' = Resting
       \/ /\ Pending(server.found, server.record) = {}
          /\ server' = [at |-> "ok", found |-> server.found, during |-> server.during,
                        warned |-> Unblessed(server.found, server.record)]
    /\ UNCHANGED <<projectFiles, blessing, flow, events, told>>

\* The snapshot has been used.
SnapshotUsed ==
    /\ server.at = "ok"
    /\ server' = Resting
    /\ UNCHANGED <<projectFiles, blessing, flow, events, told>>

-----------------------------------------------------------------------------

PTNext ==
    \/ \E f \in Files : ChangeFile(f)
    \/ \E t \in Terminals :
          \/ TrustProject(t) \/ ShowsDialog(t)
          \/ DialogAnswered(t) \/ WritesBlessing(t)
    \/ ServerStarts \/ ServerScans \/ ReadsBlessing \/ Evaluated \/ SnapshotUsed

PTSpec == PTInit /\ [][PTNext]_ptVars

-----------------------------------------------------------------------------

\* Settings of the project are in effect only as one dialog showed them, whose
\* answer was in force at some moment of the server's reading: each supplier
\* in the bytes shown, and none of the suppliers it showed missing, though the
\* files change and other terminals answer all the while.  Plugins it did not
\* show are warned of.
PolicyIsReviewed ==
    server.at = "ok" =>
        \E seen \in server.during :
            /\ \A x \in server.found : HasOwnEntry(x[2]) => x \in seen.files
            /\ \A f \in seen.policy : \E x \in server.found : x[1] = f /\ x \in seen.files
            /\ \A x \in Reviewed(server.found) \ seen.files : x[1] \in server.warned
=============================================================================
