---------------------------- MODULE ProcessGroup ----------------------------
(***************************************************************************)
(* The keeper of a process group and the server that holds its IPC         *)
(* connection (plugins/background-tasks/src/process-group.ts).  The keeper *)
(* is the only one that signals the group; the server must not take a      *)
(* group for dead because its connection is.                               *)
(*                                                                         *)
(* Both directions of the connection are in order.  The end of the keeper  *)
(* reaches the server as two events, disconnect and exit, in either order, *)
(* and exit may overtake messages still unread.  The keeper may be lost at *)
(* any time but the instant between its word that it kills the group and   *)
(* doing so.  Descendants may outlive the command and keep its output open.*)
(***************************************************************************)
EXTENDS Integers, Sequences, FiniteSets

CONSTANTS MaxSignals   \* bound on the signals the server asks for

VARIABLES
    keeper,    \* "none", "idle", "on", "acked", "dead" (killed its group) or "lost"
    command,   \* "no", "alive" or "exited"
    members,   \* is anything of the group alive, the keeper aside?
    toKeeper, toServer,
    linked,    \* child.connected
    exitSeen,  \* the exit event was delivered
    spawned,   \* the promises: "open", or how they were settled
    closed,
    group,     \* groupResult, which is also groupClosed
    started, exit, failure, killAcked,
    outputs,   \* are both streams open?
    pending,   \* the unanswered requests, each an id and its signal
    sent       \* requests made

pgVars == <<keeper, command, members, toKeeper, toServer, linked, exitSeen, spawned, closed,
            group, started, exit, failure, killAcked, outputs, pending, sent>>

keeperVars == <<keeper, command, members>>
promises == <<spawned, closed, group, exit, failure, pending>>

PGInit ==
    /\ keeper = "none" /\ command = "no" /\ members = FALSE
    /\ toKeeper = <<>> /\ toServer = <<>>
    /\ linked = TRUE /\ exitSeen = FALSE
    /\ spawned = "open" /\ closed = "open" /\ group = "open"
    /\ started = FALSE /\ exit = FALSE /\ failure = FALSE /\ killAcked = FALSE
    /\ outputs = TRUE
    /\ pending = {} /\ sent = 0

KeeperGone == keeper \in {"dead", "lost"}

-----------------------------------------------------------------------------
(* The keeper's side. *)

Reports(m) == toServer' = Append(toServer, m)

\* One message is handled; each carries the id of its request.
KeeperReads ==
    /\ keeper \in {"idle", "on"} /\ toKeeper # <<>>
    /\ toKeeper' = Tail(toKeeper)
    /\ LET type == Head(toKeeper)[1]
           id == Head(toKeeper)[2]
       IN  \/ /\ type = "start" /\ keeper = "idle"
              /\ keeper' = "on"
              /\ \/ command' = "alive" /\ members' = TRUE /\ Reports(<<"spawned", 0>>)
                 \/ Reports(<<"error", 0>>) /\ UNCHANGED <<command, members>>
           \/ /\ type = "SIGTERM"
              /\ \E m \in {"signalled", "unconfirmed"} : Reports(<<m, id>>)
              /\ UNCHANGED keeperVars
           \/ /\ type = "SIGKILL"
              /\ Reports(<<"killing", id>>)
              /\ keeper' = "acked"
              /\ UNCHANGED <<command, members>>
    /\ UNCHANGED <<linked, exitSeen, promises, started, killAcked, outputs, sent>>

GroupDies ==
    /\ keeper' = "dead" /\ members' = FALSE
    /\ command' = IF command = "alive" THEN "exited" ELSE command

\* SIGKILL to the whole group: it was asked for, or the connection is cut.
KeeperKills ==
    /\ keeper = "acked" \/ (keeper \in {"idle", "on"} /\ ~linked)
    /\ GroupDies
    /\ UNCHANGED <<toKeeper, toServer, linked, exitSeen, promises, started, killAcked, outputs, sent>>

KeeperLost ==
    /\ keeper \in {"idle", "on"}
    /\ keeper' = "lost"
    /\ UNCHANGED <<command, members, toKeeper, toServer, linked, exitSeen, promises, started,
                   killAcked, outputs, sent>>

\* The command ends; it may leave descendants behind.
CommandExits ==
    /\ command = "alive"
    /\ command' = "exited"
    /\ members' \in BOOLEAN
    /\ IF keeper = "on" THEN Reports(<<"exit", 0>>) ELSE UNCHANGED toServer
    /\ UNCHANGED <<keeper, toKeeper, linked, exitSeen, promises, started, killAcked, outputs, sent>>

-----------------------------------------------------------------------------
(* The server's side. *)

\* spawnProcessGroup: the keeper is started, and told to start the command.
SpawnProcessGroup ==
    /\ keeper = "none"
    /\ keeper' = "idle"
    /\ toKeeper' = <<<<"start", 0>>>>
    /\ UNCHANGED <<command, members, toServer, linked, exitSeen, promises, started, killAcked,
                   outputs, sent>>

\* The state of the promises, so that finishCommand and finishGroup compose.
Now == [spawned |-> spawned, closed |-> closed, group |-> group, exit |-> exit,
        failure |-> failure, pending |-> pending]

Becomes(p) ==
    /\ spawned' = p.spawned /\ closed' = p.closed /\ group' = p.group
    /\ exit' = p.exit /\ failure' = p.failure /\ pending' = p.pending

\* finishCommand: a started command settles when its output is closed.
FinishCommand(p, open, begun) ==
    IF p.closed # "open" THEN p
    ELSE IF p.exit /\ ~open THEN [p EXCEPT !.closed = "exit"]
    ELSE IF p.failure /\ ~(begun /\ open) THEN [p EXCEPT !.closed = "error"]
    ELSE p

\* finishGroup: once; every request in flight is answered.
FinishGroup(p, result) ==
    IF p.group # "open" THEN p
    ELSE FinishCommand(
            [p EXCEPT !.group = result,
                      !.spawned = IF p.spawned = "open" THEN "error" ELSE p.spawned,
                      !.exit = p.exit \/ result = "complete",
                      !.failure = p.failure \/ (~p.exit /\ result # "complete"),
                      !.pending = {}],
            outputs, started)

\* Mutant of Proven: the end of the keeper is taken for the end of its group.
MutProven == KeeperGone

\* An exit by SIGKILL after the acknowledgement.
Proven == keeper = "dead" /\ killAcked

Spawns(p, how) == [p EXCEPT !.spawned = IF p.spawned = "open" THEN how ELSE p.spawned]
Answered(p, id) == [p EXCEPT !.pending = {r \in p.pending : r[1] # id}]

\* An acknowledgement counts only while its request is still pending.
ServerReads ==
    /\ toServer # <<>>
    /\ toServer' = Tail(toServer)
    /\ LET type == Head(toServer)[1]
           id == Head(toServer)[2]
       IN  /\ started' = (started \/ (type = "spawned" /\ group = "open"))
           /\ killAcked' = (killAcked \/ (type = "killing" /\ <<id, "SIGKILL">> \in pending))
           /\ Becomes(CASE type = "spawned" -> Spawns(Now, "ok")
                        [] type = "exit" -> FinishCommand([Now EXCEPT !.exit = TRUE], outputs, started)
                        [] type = "error" ->
                              FinishCommand([Spawns(Now, "error") EXCEPT !.failure = TRUE],
                                            outputs, started)
                        [] type = "killing" -> Now
                        [] OTHER -> Answered(Now, id))
    /\ UNCHANGED <<keeperVars, toKeeper, linked, exitSeen, outputs, sent>>

\* The streams close once nobody holds them; a redirected descendant does not.
OutputsClose ==
    /\ outputs
    /\ command # "alive" /\ (command = "exited" \/ keeper \notin {"none", "idle"})
    /\ outputs' = FALSE
    /\ Becomes(FinishCommand(Now, FALSE, started))
    /\ UNCHANGED <<keeperVars, toKeeper, toServer, linked, exitSeen, started, killAcked, sent>>

ExitEvent ==
    /\ KeeperGone /\ ~exitSeen
    /\ exitSeen' = TRUE
    /\ Becomes(FinishGroup(Now, IF Proven THEN "complete" ELSE "unverified"))
    /\ UNCHANGED <<keeperVars, toKeeper, toServer, linked, started, killAcked, outputs, sent>>

\* Messages come before the end of their channel.  A kill that is in flight, or
\* acknowledged, is left to the exit event.
Disconnected ==
    /\ KeeperGone /\ linked /\ toServer = <<>>
    /\ linked' = FALSE
    /\ Becomes(IF killAcked \/ \E r \in pending : r[2] = "SIGKILL" THEN Now
               ELSE FinishGroup(Now, "unverified"))
    /\ UNCHANGED <<keeperVars, toKeeper, toServer, exitSeen, started, killAcked, outputs, sent>>

\* release: the connection is given up, and the keeper takes its group along.
ReleaseGroup ==
    /\ linked /\ keeper # "none"
    /\ linked' = FALSE
    /\ Becomes(FinishGroup(Now, "unverified"))
    /\ UNCHANGED <<keeperVars, toKeeper, toServer, exitSeen, started, killAcked, outputs, sent>>

\* The command was not reported started in time, or start could not be sent.
StartupTimeout ==
    /\ spawned = "open" /\ group = "open" /\ keeper # "none"
    /\ Becomes(FinishGroup(Now, "unverified"))
    /\ linked' = FALSE
    /\ UNCHANGED <<keeperVars, toKeeper, toServer, exitSeen, started, killAcked, outputs, sent>>

\* signal: answered at once when the group is settled or the connection is not.
Signal ==
    /\ sent < MaxSignals /\ spawned # "open"
    /\ group = "open" /\ linked
    /\ sent' = sent + 1
    /\ \E s \in {"SIGTERM", "SIGKILL"} :
          pending' = pending \cup {<<sent', s>>} /\ toKeeper' = Append(toKeeper, <<s, sent'>>)
    /\ UNCHANGED <<keeperVars, toServer, linked, exitSeen, spawned, closed, group, exit, failure,
                   started, killAcked, outputs>>

\* SIGNAL_CONFIRM_MS pass: unconfirmed, and a connection lost meanwhile counts.
SignalTimeout ==
    /\ \E r \in pending :
          LET p == Answered(Now, r[1]) IN
          Becomes(IF ~linked /\ ~killAcked THEN FinishGroup(p, "unverified") ELSE p)
    /\ UNCHANGED <<keeperVars, toKeeper, toServer, linked, exitSeen, started, killAcked, outputs, sent>>

PGNext ==
    \/ SpawnProcessGroup \/ KeeperReads \/ KeeperKills \/ KeeperLost \/ CommandExits
    \/ ServerReads \/ OutputsClose \/ ExitEvent \/ Disconnected
    \/ ReleaseGroup \/ StartupTimeout \/ Signal \/ SignalTimeout

\* Timers, events and the keeper run on.
PGFairness ==
    /\ WF_pgVars(KeeperKills) /\ WF_pgVars(ServerReads) /\ WF_pgVars(ExitEvent)
    /\ WF_pgVars(Disconnected) /\ WF_pgVars(StartupTimeout) /\ WF_pgVars(SignalTimeout)
    /\ WF_pgVars(OutputsClose)

PGSpec == PGInit /\ [][PGNext]_pgVars

-----------------------------------------------------------------------------
\* A group is reported gone only when every member of it is dead, whatever was
\* lost, late or out of order; and the end of a command that had started is told
\* only with all of its output.
GroupClaims ==
    /\ group = "complete" => ~members
    /\ closed # "open" /\ started => ~outputs

\* A server that gives up its connection leaves no group behind, unless the
\* keeper is lost; and every promise it made about a signal or the group is kept.
ReleasedDies ==
    /\ ~linked ~> KeeperGone
    /\ KeeperGone ~> (group # "open" /\ pending = {})
=============================================================================
