---------------------------- MODULE TaskChannel ----------------------------
(***************************************************************************)
(* What the servers of one project tell each other and the terminal about  *)
(* background tasks (plugins/background-tasks/src, index.ts and shared.ts):*)
(* each server owns one state file; two older names hold a merged copy that*)
(* every server rebuilds under a lock; kills asked for in the terminal are *)
(* files in two directories that the servers sweep.                        *)
(*                                                                         *)
(* A server has one task, named by the server, and starts only once: a     *)
(* restart is another server.  The store lock is StoreLock's: held by one  *)
(* server, and taken over when its holder is dead.  Servers of a release   *)
(* without state files of their own are not modelled.                      *)
(***************************************************************************)
EXTENDS Integers, FiniteSets

CONSTANTS
    Servers,       \* the servers, in the order they sort in the terminal
    MaxCrashes     \* bound on crashes

\* The servers' names are ordered, and no server is the lock's "nobody".
ASSUME TCAssumption ==
    /\ Servers \subseteq Nat \ {0}
    /\ \A some \in SUBSET Servers : some # {} => \E s \in some : \A o \in some : s <= o

VARIABLES
    srv,           \* each server: off, adopting, up, closing, leaving, gone, crashed
    bg,            \* its task: absent, running, ended
    debris,        \* tasks of dead servers it has taken over
    file,          \* its state file: what it says of every task, or NoFile
    copy,          \* the merged copies under the two older names
    owner,         \* who holds the lock of the copies
    job,           \* where its queue of writes stands, and what it is writing
    asked,         \* servers with a write queued
    kills          \* the kill requests in the two directories: <<task, stale>>

tcVars == <<srv, bg, debris, file, copy, owner, job, asked, kills>>

Names == {"current", "older"}
Nothing == [t \in Servers |-> "absent"]
NoFile == [t \in Servers |-> "no file"]
Quiet == [pc |-> "idle", text |-> Nothing]

TCInit ==
    /\ srv = [s \in Servers |-> "off"]
    /\ bg = [s \in Servers |-> "absent"]
    /\ debris = [s \in Servers |-> {}]
    /\ file = [s \in Servers |-> NoFile]
    /\ copy = [n \in Names |-> NoFile]
    /\ owner = 0
    /\ job = [s \in Servers |-> Quiet]
    /\ asked = {}
    /\ kills = [n \in Names |-> {}]

Alive(s) == srv[s] \in {"adopting", "loaded", "up", "closing", "leaving"}
Dead(s) == srv[s] \in {"gone", "crashed"}
Crashes == {s \in Servers : srv[s] = "crashed"}
Written == {s \in Servers : file[s] # NoFile}

-----------------------------------------------------------------------------
(* A server starts; its tools work before its files are set up. *)

Boot(s) ==
    /\ srv[s] = "off"
    /\ srv' = [srv EXCEPT ![s] = "adopting"]
    /\ UNCHANGED <<bg, debris, file, copy, owner, job, asked, kills>>

\* The running tasks a text speaks of whose server is dead.
Orphans(text, s) == {t \in Servers \ {s} : text[t] = "running" /\ Dead(t)}

\* The files are read (what each says of its own server's task) ...
LoadFiles(s) ==
    /\ srv[s] = "adopting"
    /\ srv' = [srv EXCEPT ![s] = "loaded"]
    /\ job' = [job EXCEPT ![s].text = [o \in Servers |-> file[o][o]]]
    /\ UNCHANGED <<bg, debris, file, copy, owner, asked, kills>>

\* ... the dead servers' tasks taken over from them, and what was read removed;
\* the copies speak of servers whose files went before.  A write is queued.
Adopt(s) ==
    /\ srv[s] = "loaded"
    /\ LET text == job[s].text
           read == {o \in Servers \ {s} : text[o] # "no file" /\ Dead(o)}
           old == UNION {Orphans(copy[n], s) : n \in Names} \ read
       IN  /\ debris' = [debris EXCEPT ![s] = Orphans(text, s) \cup old]
           /\ file' = [o \in Servers |-> IF o \in read THEN NoFile ELSE file[o]]
    /\ srv' = [srv EXCEPT ![s] = "up"]
    /\ job' = [job EXCEPT ![s] = Quiet]
    /\ asked' = asked \cup {s}
    /\ UNCHANGED <<bg, copy, owner, kills>>

\* A task starts; it ends; each change queues a write.
Change(s) ==
    /\ Alive(s) /\ srv[s] # "leaving"
    /\ \/ bg[s] = "absent" /\ srv[s] # "closing" /\ bg' = [bg EXCEPT ![s] = "running"]
       \/ bg[s] = "running" /\ bg' = [bg EXCEPT ![s] = "ended"]
    /\ asked' = IF srv[s] = "closing" THEN asked ELSE asked \cup {s}
    /\ UNCHANGED <<srv, debris, file, copy, owner, job, kills>>

-----------------------------------------------------------------------------
(* The queue of writes, one at a time. *)

At(s, pc) == ~Dead(s) /\ job[s].pc = pc
Goto(s, pc, text) == job' = [job EXCEPT ![s] = [pc |-> pc, text |-> text]]

Snapshot(s) == [t \in Servers |-> IF t = s THEN bg[s]
                                  ELSE IF t \in debris[s] THEN "orphaned" ELSE "absent"]

\* writeStateFile: the state is taken when the write's turn comes.
TakeState(s) ==
    /\ At(s, "idle") /\ s \in asked /\ srv[s] = "up"
    /\ Goto(s, "write", Snapshot(s))
    /\ asked' = asked \ {s}
    /\ UNCHANGED <<srv, bg, debris, file, copy, owner, kills>>

WriteFile(s) ==
    /\ At(s, "write")
    /\ file' = [file EXCEPT ![s] = job[s].text]
    /\ Goto(s, "sync", Nothing)
    /\ UNCHANGED <<srv, bg, debris, copy, owner, asked, kills>>

\* The entries of all files; of one task the first file's counts.
Merged ==
    [t \in Servers |->
        LET says == {s \in Written : file[s][t] # "absent"}
        IN  IF says = {} THEN "absent"
            ELSE file[CHOOSE s \in says : \A o \in says : s <= o][t]]

LockFree(s) == owner \in {0} \cup Crashes

\* syncLegacyStateFiles: the files are read once the lock is held.
ReadPeers(s) ==
    /\ At(s, "sync") /\ LockFree(s)
    /\ owner' = s
    /\ Goto(s, "current", Merged)
    /\ UNCHANGED <<srv, bg, debris, file, copy, asked, kills>>

\* Both copies are replaced, or removed if there is nothing to tell.
CopyOf(text) == IF text = Nothing THEN NoFile ELSE text

WriteCopy(s, n) ==
    /\ At(s, n)
    /\ copy' = [copy EXCEPT ![n] = CopyOf(job[s].text)]
    /\ IF n = "current"
       THEN Goto(s, "older", job[s].text) /\ UNCHANGED <<owner, srv>>
       ELSE /\ job' = [job EXCEPT ![s] = Quiet]
            /\ owner' = 0
            /\ srv' = [srv EXCEPT ![s] = IF @ = "leaving" THEN "gone" ELSE @]
    /\ UNCHANGED <<bg, debris, file, asked, kills>>

-----------------------------------------------------------------------------
(* Shutdown and crash. *)

\* dispose: what is queued stays queued, but nothing of it is written.
Close(s) ==
    /\ srv[s] = "up"
    /\ srv' = [srv EXCEPT ![s] = "closing"]
    /\ UNCHANGED <<bg, debris, file, copy, owner, job, asked, kills>>

\* Mutant of Drained: the file is removed while a write is on its way.
MutDrained(s) == TRUE

\* writes.drain(): the write that was begun is over.
Drained(s) == job[s].pc = "idle"

\* The file is removed, and the copies rebuilt without it.
Leave(s) ==
    /\ srv[s] = "closing" /\ Drained(s)
    /\ srv' = [srv EXCEPT ![s] = "leaving"]
    /\ file' = [file EXCEPT ![s] = NoFile]
    /\ bg' = [bg EXCEPT ![s] = "ended"]
    /\ IF job[s].pc = "idle" THEN Goto(s, "sync", Nothing) ELSE UNCHANGED job
    /\ asked' = asked \ {s}
    /\ UNCHANGED <<debris, copy, owner, kills>>

Crash(s) ==
    /\ Alive(s) /\ Cardinality(Crashes) < MaxCrashes
    /\ srv' = [srv EXCEPT ![s] = "crashed"]
    /\ UNCHANGED <<bg, debris, file, copy, owner, job, asked, kills>>

-----------------------------------------------------------------------------
(* The terminal. *)

\* What the terminal lists: the servers' own files, or the copies when there
\* is none; of one task the first file's entry counts.
Listed == IF Written # {} THEN Merged
          ELSE IF copy["current"] # NoFile THEN copy["current"]
          ELSE IF copy["older"] # NoFile THEN copy["older"] ELSE Nothing

\* splitTasks: listed as running only while its writer lives.
ListedRunning == {t \in Servers : Listed[t] = "running" /\ Alive(t)}

\* requestKill: one file in each directory.
AskKill(t) ==
    /\ t \in ListedRunning
    /\ \A n \in Names : kills[n] = {}  \* one request at a time bounds the model
    /\ kills' = [n \in Names |-> kills[n] \cup {[task |-> t, stale |-> FALSE]}]
    /\ UNCHANGED <<srv, bg, debris, file, copy, owner, job, asked>>

\* FOREIGN_KILL_REQUEST_TTL_MS pass: many sweeps of a server that has a task.
Grow(n, k) ==
    /\ k \in kills[n] /\ ~k.stale
    /\ ~(Alive(k.task) /\ bg[k.task] = "running")
    /\ kills' = [kills EXCEPT ![n] = (@ \ {k}) \cup {[k EXCEPT !.stale = TRUE]}]
    /\ UNCHANGED <<srv, bg, debris, file, copy, owner, job, asked>>

\* Mutant of NotMine: another's request is swept while it is fresh.
MutNotMine(s, k) == FALSE

\* A request that is left to its server.
NotMine(s, k) == k.task # s /\ ~k.stale

\* sweepKillRequests, one file: at the start (before the task), and while the task runs.  The task
\* of one's own request is killed and ends.
Sweep(s, n, k) ==
    /\ k \in kills[n] /\ ~NotMine(s, k)
    /\ srv[s] = "up" /\ bg[s] \in {"absent", "running"}
    /\ kills' = [kills EXCEPT ![n] = @ \ {k}]
    /\ bg' = IF k.task = s /\ bg[s] = "running" THEN [bg EXCEPT ![s] = "ended"] ELSE bg
    /\ asked' = IF bg' # bg THEN asked \cup {s} ELSE asked
    /\ UNCHANGED <<srv, debris, file, copy, owner, job>>

TCNext ==
    \/ \E s \in Servers :
          \/ Boot(s) \/ LoadFiles(s) \/ Adopt(s) \/ Change(s)
          \/ TakeState(s) \/ WriteFile(s) \/ ReadPeers(s) \/ Close(s) \/ Leave(s) \/ Crash(s)
          \/ AskKill(s)
          \/ \E n \in Names :
                \/ WriteCopy(s, n)
                \/ \E k \in kills[n] : Sweep(s, n, k)
    \/ \E n \in Names : \E k \in kills[n] : Grow(n, k)

TCSpec == TCInit /\ [][TCNext]_tcVars

-----------------------------------------------------------------------------
\* No server has anything left to write, and none died over it.
AllWritten == /\ asked = {}
              /\ \A s \in Servers : /\ srv[s] \notin {"closing", "leaving"}
                                    /\ job[s].pc = "idle"

\* Once the writes are done the terminal lists every running task of a live
\* server as running and every task taken over as dead, and both copies say
\* what the files say: no server's rewriting hides another's task.  A server that
\* left has no file, whatever write was on its way, and the task of a server that
\* lives is never taken for an orphan.
ListsAreTrue ==
    /\ \A s \in Servers : /\ srv[s] = "gone" => file[s] = NoFile
                          /\ \A t \in debris[s] : Dead(t)
    /\ AllWritten =>
          /\ \A s \in Servers :
                srv[s] = "up" => /\ bg[s] = "running" <=> s \in ListedRunning
                                 /\ \A t \in debris[s] : Listed[t] # "absent"
          /\ \A n \in Names : copy[n] = CopyOf(Merged)

\* A kill asked for in the terminal is not lost on the way: while its task runs,
\* no sweep of another server, and no restart, takes the last request away.
KillsNotEaten ==
    [][\A t \in Servers :
          LET asks == {n \in Names : [task |-> t, stale |-> FALSE] \in kills[n]}
              left == {n \in Names : [task |-> t, stale |-> FALSE] \in kills'[n]}
          IN  asks # {} /\ left = {} => bg'[t] # "running" \/ ~Alive(t)]_tcVars
=============================================================================
