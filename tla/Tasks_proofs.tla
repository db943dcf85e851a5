---------------------------- MODULE Tasks_proofs ----------------------------
(***************************************************************************)
(* What runs beside a session.  Background commands: the keeper of a       *)
(* process group (ProcessGroup), the life of the tasks of a session        *)
(* (BackgroundTasks) and what the servers tell each other and the terminal *)
(* about them (TaskChannel).  Side questions: the exchanges with a forked  *)
(* session (SideThread).  Each part has its inductive invariant; the four  *)
(* share no state.                                                         *)
(***************************************************************************)
EXTENDS ProcessGroup, BackgroundTasks, TaskChannel, SideThread,
        FiniteSetTheorems, SequenceTheorems, TLAPS

-----------------------------------------------------------------------------
(* ProcessGroup: GroupClaims, from what the keeper has said of the start.  *)

Messages == {"spawned", "error", "exit", "signalled", "unconfirmed", "killing"} \X Nat

Promises ==
    [spawned : {"open", "ok", "error"}, closed : {"open", "exit", "error"},
     group : {"open", "complete", "unverified"}, exit : BOOLEAN, failure : BOOLEAN,
     pending : SUBSET (Nat \X {"SIGTERM", "SIGKILL"})]

\* Messages about the start of the command.
News == {"spawned", "error"}

\* The keeper has told of the start, and the server has read it.
NewsRead == /\ keeper \notin {"none", "idle"}
            /\ \A i \in 1..Len(toServer) : toServer[i][1] \notin News

PGTypeOK ==
    /\ toServer \in Seq(Messages) /\ toKeeper \in Seq({"start", "SIGTERM", "SIGKILL"} \X Nat)
    /\ Now \in Promises /\ sent \in Nat
    /\ started \in BOOLEAN /\ outputs \in BOOLEAN /\ members \in BOOLEAN

\* The start is told of once, and a failure that leaves the group open has been
\* read: so nothing can be started after an end that was told for not starting.
NewsOnce ==
    /\ keeper \in {"none", "idle"} => \A i \in 1..Len(toServer) : toServer[i][1] \notin News
    /\ \A i, j \in 1..Len(toServer) : toServer[i][1] \in News /\ toServer[j][1] \in News => i = j
    /\ failure /\ group = "open" => NewsRead
    /\ closed # "open" /\ outputs => failure

PGInv ==
    /\ PGTypeOK /\ NewsOnce /\ GroupClaims
    /\ keeper = "dead" => ~members /\ command # "alive"
    /\ group = "complete" => keeper = "dead"

LEMMA NowFacts ==
    ASSUME Now \in Promises
    PROVE  /\ spawned \in {"open", "ok", "error"} /\ closed \in {"open", "exit", "error"}
           /\ group \in {"open", "complete", "unverified"}
           /\ exit \in BOOLEAN /\ failure \in BOOLEAN
           /\ pending \in SUBSET (Nat \X {"SIGTERM", "SIGKILL"})
  BY DEF Now, Promises

LEMMA FinishCommandFacts ==
    ASSUME NEW p \in Promises, NEW open \in BOOLEAN, NEW begun \in BOOLEAN
    PROVE  /\ FinishCommand(p, open, begun) \in Promises
           /\ FinishCommand(p, open, begun).group = p.group
           /\ FinishCommand(p, open, begun).failure = p.failure
           /\ p.closed # "open" => FinishCommand(p, open, begun).closed = p.closed
           /\ p.closed = "open" /\ FinishCommand(p, open, begun).closed # "open" =>
                 ~open \/ (p.failure /\ ~begun)
  <1>1. p.failure \in BOOLEAN /\ p.exit \in BOOLEAN /\ p.closed \in {"open", "exit", "error"}
    BY DEF Promises
  <1>2. [p EXCEPT !.closed = "exit"] \in Promises /\ [p EXCEPT !.closed = "error"] \in Promises
    BY DEF Promises
  <1>3. CASE p.closed # "open"
    BY <1>3 DEF FinishCommand
  <1>4. CASE p.closed = "open" /\ p.exit /\ ~open
    <2>1. FinishCommand(p, open, begun) = [p EXCEPT !.closed = "exit"]
      BY <1>4 DEF FinishCommand
    <2>. QED
      BY <2>1, <1>2, <1>4 DEF Promises
  <1>5. CASE p.closed = "open" /\ ~(p.exit /\ ~open) /\ p.failure /\ ~(begun /\ open)
    <2>1. FinishCommand(p, open, begun) = [p EXCEPT !.closed = "error"]
      BY <1>5 DEF FinishCommand
    <2>. QED
      BY <2>1, <1>2, <1>5 DEF Promises
  <1>6. CASE p.closed = "open" /\ ~(p.exit /\ ~open) /\ ~(p.failure /\ ~(begun /\ open))
    BY <1>6 DEF FinishCommand
  <1>. QED
    BY <1>3, <1>4, <1>5, <1>6

LEMMA FinishGroupFacts ==
    ASSUME PGTypeOK, NEW p \in Promises, NEW result \in {"complete", "unverified"}
    PROVE  /\ FinishGroup(p, result) \in Promises
           /\ FinishGroup(p, result).group = IF p.group = "open" THEN result ELSE p.group
           /\ p.failure => FinishGroup(p, result).failure
           /\ p.closed # "open" => FinishGroup(p, result).closed = p.closed
           /\ p.closed = "open" /\ FinishGroup(p, result).closed # "open" =>
                 ~outputs \/ (FinishGroup(p, result).failure /\ ~started)
  <1>1. CASE p.group # "open"
    BY <1>1 DEF FinishGroup
  <1>2. CASE p.group = "open"
    <2>. DEFINE q == [p EXCEPT !.group = result,
                               !.spawned = IF p.spawned = "open" THEN "error" ELSE p.spawned,
                               !.exit = p.exit \/ result = "complete",
                               !.failure = p.failure \/ (~p.exit /\ result # "complete"),
                               !.pending = {}]
    <2>1. FinishGroup(p, result) = FinishCommand(q, outputs, started)
      BY <1>2 DEF FinishGroup
    <2>2. /\ q \in Promises /\ q.group = result /\ q.closed = p.closed
          /\ p.failure => q.failure
      BY DEF Promises
    <2>. HIDE DEF q
    <2>3. outputs \in BOOLEAN /\ started \in BOOLEAN
      BY DEF PGTypeOK
    <2>. QED
      BY <2>1, <2>2, <2>3, <1>2, FinishCommandFacts
  <1>. QED
    BY <1>1, <1>2

\* A step of the server that reads no message.
LEMMA ServerStep ==
    ASSUME PGInv, NEW p \in Promises, Becomes(p),
           UNCHANGED <<keeperVars, toServer, started>>,
           toKeeper' \in Seq({"start", "SIGTERM", "SIGKILL"} \X Nat), sent' \in Nat,
           outputs' \in BOOLEAN, outputs' => outputs,
           p.group = "complete" => group = "complete" \/ keeper = "dead",
           p.failure /\ p.group = "open" => failure /\ group = "open",
           failure => p.failure,
           p.closed # "open" => closed # "open" \/ ~outputs' \/ (p.failure /\ ~started)
    PROVE  PGInv'
  <1>1. /\ PGTypeOK /\ NewsOnce /\ GroupClaims
        /\ keeper' = keeper /\ members' = members /\ command' = command
        /\ toServer' = toServer /\ started' = started
    BY DEF PGInv, keeperVars
  <1>2. /\ spawned' = p.spawned /\ closed' = p.closed /\ group' = p.group
        /\ exit' = p.exit /\ failure' = p.failure /\ pending' = p.pending
    BY DEF Becomes
  <1>3. Now' = p
    BY <1>2 DEF Now, Promises
  <1>4. PGTypeOK'
    BY <1>1, <1>3 DEF PGTypeOK
  <1>5. p.failure \in BOOLEAN /\ failure \in BOOLEAN /\ started \in BOOLEAN
    BY <1>1, NowFacts DEF Promises, PGTypeOK
  <1>6. NewsOnce'
    <2>1. NewsRead' <=> NewsRead
      BY <1>1 DEF NewsRead
    <2>2. failure' /\ group' = "open" => NewsRead'
      BY <2>1, <1>1, <1>2, <1>5 DEF NewsOnce
    <2>3. closed' # "open" /\ outputs' => failure'
      BY <1>1, <1>2, <1>5 DEF NewsOnce
    <2>. QED
      BY <2>2, <2>3, <1>1 DEF NewsOnce
  <1>7. GroupClaims' /\ (group' = "complete" => keeper' = "dead")
    <2>1. group' = "complete" => keeper' = "dead" /\ ~members'
      BY <1>1, <1>2 DEF PGInv
    <2>2. closed' # "open" /\ started' => ~outputs'
      BY <1>1, <1>2, <1>5 DEF GroupClaims
    <2>. QED
      BY <2>1, <2>2 DEF GroupClaims
  <1>. QED
    BY <1>1, <1>4, <1>6, <1>7 DEF PGInv

\* A step of the keeper or the command that says nothing of the start.
LEMMA KeeperStep ==
    ASSUME PGInv, UNCHANGED <<promises, started, outputs, sent>>,
           toKeeper' \in Seq({"start", "SIGTERM", "SIGKILL"} \X Nat), members' \in BOOLEAN,
           \/ toServer' = toServer
           \/ \E m \in Messages : m[1] \notin News /\ toServer' = Append(toServer, m),
           keeper \notin {"none", "idle"} => keeper' \notin {"none", "idle"},
           keeper = "dead" => keeper' = "dead" /\ members' = members /\ command' = command,
           keeper' = "dead" => keeper = "dead" \/ (~members' /\ command' # "alive")
    PROVE  PGInv'
  <1>1. /\ PGTypeOK /\ NewsOnce /\ GroupClaims
        /\ spawned' = spawned /\ closed' = closed /\ group' = group /\ exit' = exit
        /\ failure' = failure /\ pending' = pending
        /\ started' = started /\ outputs' = outputs /\ sent' = sent
    BY DEF PGInv, promises
  <1>2. toServer \in Seq(Messages) /\ Len(toServer) \in Nat
    BY <1>1 DEF PGTypeOK
  <1>3. /\ toServer' \in Seq(Messages) /\ Len(toServer') \in Nat
        /\ \A i \in 1..Len(toServer') :
              \/ toServer'[i][1] \notin News
              \/ i \in 1..Len(toServer) /\ toServer'[i] = toServer[i]
    <2>1. CASE toServer' = toServer
      BY <2>1, <1>2
    <2>2. ASSUME NEW m \in Messages, m[1] \notin News, toServer' = Append(toServer, m)
          PROVE  /\ toServer' \in Seq(Messages) /\ Len(toServer') \in Nat
                 /\ \A i \in 1..Len(toServer') :
                       \/ toServer'[i][1] \notin News
                       \/ i \in 1..Len(toServer) /\ toServer'[i] = toServer[i]
      BY <2>2, <1>2, AppendProperties
    <2>. QED
      BY <2>1, <2>2
  <1>4. Now' = Now
    BY <1>1 DEF Now
  <1>5. PGTypeOK'
    BY <1>1, <1>3, <1>4 DEF PGTypeOK
  <1>6. NewsOnce'
    <2>1. keeper' \in {"none", "idle"} => \A i \in 1..Len(toServer') : toServer'[i][1] \notin News
      BY <1>1, <1>3 DEF NewsOnce
    <2>2. \A i, j \in 1..Len(toServer') :
             toServer'[i][1] \in News /\ toServer'[j][1] \in News => i = j
      BY <1>1, <1>3 DEF NewsOnce
    <2>3. NewsRead => NewsRead'
      BY <1>3 DEF NewsRead
    <2>. QED
      BY <2>1, <2>2, <2>3, <1>1 DEF NewsOnce
  <1>7. /\ keeper' = "dead" => ~members' /\ command' # "alive"
        /\ group' = "complete" => keeper' = "dead"
    BY <1>1 DEF PGInv
  <1>8. GroupClaims'
    BY <1>1, <1>7 DEF GroupClaims
  <1>. QED
    BY <1>5, <1>6, <1>7, <1>8 DEF PGInv

LEMMA KeeperReadsKeeps ==
    ASSUME PGInv, KeeperReads
    PROVE  PGInv'
  <1>. DEFINE m == Head(toKeeper)
  <1>1. /\ PGTypeOK /\ NewsOnce /\ GroupClaims /\ keeper \in {"idle", "on"} /\ toKeeper # <<>>
        /\ toKeeper' = Tail(toKeeper)
        /\ UNCHANGED <<linked, exitSeen, promises, started, killAcked, outputs, sent>>
    BY DEF PGInv, KeeperReads
  <1>2. /\ toKeeper' \in Seq({"start", "SIGTERM", "SIGKILL"} \X Nat)
        /\ m \in {"start", "SIGTERM", "SIGKILL"} \X Nat /\ m[2] \in Nat
    <2>1. toKeeper \in Seq({"start", "SIGTERM", "SIGKILL"} \X Nat)
      BY <1>1 DEF PGTypeOK
    <2>. QED
      BY <2>1, <1>1, HeadTailProperties
  <1>3. members \in BOOLEAN /\ toServer \in Seq(Messages) /\ Len(toServer) \in Nat
    BY <1>1 DEF PGTypeOK
  <1>. HIDE DEF m
  <1>4. CASE /\ keeper = "idle" /\ keeper' = "on"
             /\ members' \in BOOLEAN
             /\ \E w \in Messages : w[1] \in News /\ toServer' = Append(toServer, w)
    <2>1. /\ spawned' = spawned /\ closed' = closed /\ group' = group /\ exit' = exit
          /\ failure' = failure /\ pending' = pending
          /\ started' = started /\ outputs' = outputs /\ sent' = sent
      BY <1>1 DEF promises
    <2>2. PICK w \in Messages : w[1] \in News /\ toServer' = Append(toServer, w)
      BY <1>4
    <2>3. \A i \in 1..Len(toServer) : toServer[i][1] \notin News
      BY <1>1, <1>4 DEF NewsOnce
    <2>4. /\ toServer' \in Seq(Messages) /\ Len(toServer') = Len(toServer) + 1
          /\ \A i \in 1..Len(toServer) : toServer'[i] = toServer[i]
      BY <2>2, <1>3, AppendProperties
    <2>5. \A i \in 1..Len(toServer') : toServer'[i][1] \in News => i = Len(toServer) + 1
      BY <2>3, <2>4, <1>3
    <2>6. ~(failure /\ group = "open")
      BY <1>1, <1>4 DEF NewsOnce, NewsRead
    <2>7. NewsOnce'
      <3>1. \A i, j \in 1..Len(toServer') :
               toServer'[i][1] \in News /\ toServer'[j][1] \in News => i = j
        BY <2>5
      <3>2. keeper' \notin {"none", "idle"}
        BY <1>4
      <3>. QED
        BY <3>1, <3>2, <2>1, <2>6, <1>1 DEF NewsOnce
    <2>8. Now' = Now
      BY <2>1 DEF Now
    <2>9. PGTypeOK'
      BY <1>1, <1>2, <1>4, <2>1, <2>4, <2>8 DEF PGTypeOK
    <2>10. group' # "complete" /\ keeper' # "dead"
      BY <1>4, <2>1 DEF PGInv
    <2>11. GroupClaims'
      BY <2>1, <2>10, <1>1 DEF GroupClaims
    <2>. QED
      BY <2>7, <2>9, <2>10, <2>11 DEF PGInv
  <1>5. CASE /\ keeper' \in {keeper, "acked"} /\ members' = members /\ command' = command
             /\ \E w \in Messages : w[1] \notin News /\ toServer' = Append(toServer, w)
    <2>1. members' \in BOOLEAN /\ keeper' # "dead" /\ (keeper = "on" => keeper' \notin {"none", "idle"})
      BY <1>1, <1>3, <1>5
    <2>2. UNCHANGED <<promises, started, outputs, sent>>
      BY <1>1
    <2>. QED
      BY <2>1, <2>2, <1>1, <1>2, <1>5, KeeperStep
  <1>6. \/ /\ keeper = "idle" /\ keeper' = "on"
           /\ members' \in BOOLEAN
           /\ \E w \in Messages : w[1] \in News /\ toServer' = Append(toServer, w)
        \/ /\ keeper' \in {keeper, "acked"} /\ members' = members /\ command' = command
           /\ \E w \in Messages : w[1] \notin News /\ toServer' = Append(toServer, w)
    <2>1. CASE m[1] = "start"
      <3>1. /\ <<"spawned", 0>> \in Messages /\ <<"spawned", 0>>[1] \in News
            /\ <<"error", 0>> \in Messages /\ <<"error", 0>>[1] \in News
        BY DEF Messages, News
      <3>. QED
        BY <3>1, <2>1, <1>3 DEF KeeperReads, Reports, m
    <2>2. CASE m[1] = "SIGTERM"
      <3>1. PICK a \in {"signalled", "unconfirmed"} : Reports(<<a, m[2]>>) /\ UNCHANGED keeperVars
        BY <2>2 DEF KeeperReads, m
      <3>2. <<a, m[2]>> \in Messages /\ <<a, m[2]>>[1] \notin News
        BY <1>2 DEF Messages, News
      <3>. QED
        BY <3>1, <3>2 DEF Reports, keeperVars
    <2>3. CASE m[1] = "SIGKILL"
      <3>1. Reports(<<"killing", m[2]>>) /\ keeper' = "acked" /\ members' = members /\ command' = command
        BY <2>3 DEF KeeperReads, m
      <3>2. <<"killing", m[2]>> \in Messages /\ <<"killing", m[2]>>[1] \notin News
        BY <1>2 DEF Messages, News
      <3>. QED
        BY <3>1, <3>2 DEF Reports
    <2>. QED
      BY <2>1, <2>2, <2>3 DEF KeeperReads, m
  <1>. QED
    BY <1>4, <1>5, <1>6

LEMMA ServerReadsKeeps ==
    ASSUME PGInv, ServerReads
    PROVE  PGInv'
  <1>. DEFINE m == Head(toServer)
  <1>1. /\ PGTypeOK /\ NewsOnce /\ GroupClaims /\ toServer # <<>> /\ toServer' = Tail(toServer)
        /\ keeper' = keeper /\ command' = command /\ members' = members
        /\ toKeeper' = toKeeper /\ outputs' = outputs /\ sent' = sent
        /\ started' = (started \/ (m[1] = "spawned" /\ group = "open"))
    BY DEF PGInv, ServerReads, keeperVars
  <1>2. /\ m \in Messages /\ m = toServer[1] /\ 1 \in 1..Len(toServer)
        /\ toServer' \in Seq(Messages) /\ Len(toServer') = Len(toServer) - 1
        /\ \A i \in 1..Len(toServer') : i + 1 \in 1..Len(toServer) /\ toServer'[i] = toServer[i + 1]
    <2>1. toServer \in Seq(Messages) /\ Len(toServer) \in Nat
      BY <1>1 DEF PGTypeOK
    <2>2. Len(toServer) \in Nat \ {0}
      BY <2>1, <1>1, EmptySeq
    <2>3. toServer' \in Seq(Messages) /\ m \in Messages /\ m = toServer[1]
      BY <2>1, <1>1, HeadTailProperties
    <2>4. Len(toServer') = Len(toServer) - 1
      BY <2>1, <1>1, HeadTailProperties
    <2>5. \A i \in 1..Len(Tail(toServer)) : Tail(toServer)[i] = toServer[i + 1]
      BY <2>1, <1>1, HeadTailProperties
    <2>. QED
      BY <2>2, <2>3, <2>4, <2>5, <1>1
  <1>. HIDE DEF m
  <1>3. /\ Now \in Promises /\ started \in BOOLEAN /\ outputs \in BOOLEAN /\ m[2] \in Nat
        /\ m[1] \in {"spawned", "error", "exit", "signalled", "unconfirmed", "killing"}
    BY <1>1, <1>2 DEF PGTypeOK, Messages
  <1>. DEFINE spawnedNow == [Now EXCEPT !.spawned = IF Now.spawned = "open" THEN "ok" ELSE Now.spawned]
              exitNow == [Now EXCEPT !.exit = TRUE]
              errorNow == [Spawns(Now, "error") EXCEPT !.failure = TRUE]
              answered == [Now EXCEPT !.pending = {r \in Now.pending : r[1] # m[2]}]
  <1>4. PICK p \in Promises :
           /\ Becomes(p) /\ p.group = group
           /\ p.failure = (failure \/ m[1] = "error")
           /\ closed # "open" => p.closed = closed
           /\ closed = "open" /\ p.closed # "open" => ~outputs \/ (p.failure /\ ~started)
    <2>1. /\ Now.group = group /\ Now.failure = failure /\ Now.closed = closed
          /\ failure \in BOOLEAN
      BY <1>3, NowFacts DEF Now
    <2>2. CASE m[1] = "spawned"
      <3>1. spawnedNow \in Promises /\ Becomes(spawnedNow)
        BY <2>2, <1>3 DEF ServerReads, Spawns, m, Promises
      <3>2. spawnedNow.group = group /\ spawnedNow.failure = failure /\ spawnedNow.closed = closed
        BY <1>3, <2>1 DEF Promises
      <3>. HIDE DEF spawnedNow
      <3>. QED
        BY <2>1, <2>2, <3>1, <3>2
    <2>3. CASE m[1] = "exit"
      <3>1. /\ exitNow \in Promises /\ exitNow.group = group /\ exitNow.failure = failure
            /\ exitNow.closed = closed
        BY <1>3, <2>1 DEF Promises
      <3>2. Becomes(FinishCommand(exitNow, outputs, started))
        BY <2>3 DEF ServerReads, m
      <3>. HIDE DEF exitNow
      <3>. DEFINE p == FinishCommand(exitNow, outputs, started)
      <3>3. /\ p \in Promises /\ p.group = group /\ p.failure = failure
            /\ closed # "open" => p.closed = closed
            /\ closed = "open" /\ p.closed # "open" => ~outputs \/ (p.failure /\ ~started)
        BY <3>1, <1>3, FinishCommandFacts
      <3>. HIDE DEF p
      <3>. QED
        BY <2>1, <2>3, <3>2, <3>3 DEF p
    <2>4. CASE m[1] = "error"
      <3>1. /\ errorNow \in Promises /\ errorNow.group = group /\ errorNow.failure = TRUE
            /\ errorNow.closed = closed
        BY <1>3, <2>1 DEF Promises, Spawns
      <3>2. Becomes(FinishCommand(errorNow, outputs, started))
        BY <2>4 DEF ServerReads, m
      <3>. HIDE DEF errorNow
      <3>. DEFINE p == FinishCommand(errorNow, outputs, started)
      <3>3. /\ p \in Promises /\ p.group = group /\ p.failure = TRUE
            /\ closed # "open" => p.closed = closed
            /\ closed = "open" /\ p.closed # "open" => ~outputs \/ (p.failure /\ ~started)
        BY <3>1, <1>3, FinishCommandFacts
      <3>. HIDE DEF p
      <3>. QED
        BY <2>1, <2>4, <3>2, <3>3 DEF p
    <2>5. CASE m[1] = "killing"
      <3>1. Becomes(Now)
        BY <2>5 DEF ServerReads, m
      <3>. QED
        BY <2>1, <2>5, <3>1, <1>3
    <2>6. CASE m[1] \in {"signalled", "unconfirmed"}
      <3>1. Becomes(answered)
        BY <2>6 DEF ServerReads, Answered, m
      <3>2. /\ answered \in Promises /\ answered.group = group /\ answered.failure = failure
            /\ answered.closed = closed
        BY <1>3, <2>1 DEF Promises
      <3>. HIDE DEF answered
      <3>. QED
        BY <2>1, <2>6, <3>1, <3>2
    <2>. QED
      BY <1>3, <2>2, <2>3, <2>4, <2>5, <2>6
  <1>5. /\ spawned' = p.spawned /\ closed' = p.closed /\ group' = p.group
        /\ exit' = p.exit /\ failure' = p.failure /\ pending' = p.pending
    BY <1>4 DEF Becomes
  <1>6. PGTypeOK'
    <2>1. Now' = p
      BY <1>5 DEF Now, Promises
    <2>2. started' \in BOOLEAN
      BY <1>1, <1>3
    <2>. QED
      BY <2>1, <2>2, <1>1, <1>2, <1>4 DEF PGTypeOK
  <1>7. failure \in BOOLEAN /\ p.failure \in BOOLEAN
    BY <1>3, <1>4, NowFacts DEF Promises
  <1>8. NewsOnce'
    <2>1. keeper' \in {"none", "idle"} => \A i \in 1..Len(toServer') : toServer'[i][1] \notin News
      BY <1>1, <1>2 DEF NewsOnce
    <2>2. ASSUME NEW i \in 1..Len(toServer'), NEW j \in 1..Len(toServer'),
                 toServer'[i][1] \in News, toServer'[j][1] \in News
          PROVE  i = j
      <3>1. i + 1 = j + 1
        BY <2>2, <1>1, <1>2 DEF NewsOnce
      <3>. QED
        BY <3>1
    <2>3. NewsRead => NewsRead'
      BY <1>1, <1>2 DEF NewsRead
    <2>4. CASE m[1] = "error"
      <3>1. ASSUME NEW i \in 1..Len(toServer'), toServer'[i][1] \in News
            PROVE  FALSE
        <4>1. i + 1 = 1
          BY <2>4, <3>1, <1>1, <1>2 DEF NewsOnce, News
        <4>. QED
          BY <4>1
      <3>2. keeper \notin {"none", "idle"}
        BY <2>4, <1>1, <1>2 DEF NewsOnce, News
      <3>3. NewsRead'
        BY <3>1, <3>2, <1>1 DEF NewsRead
      <3>. QED
        BY <2>1, <2>2, <3>3, <2>4, <1>4, <1>5, <1>7 DEF NewsOnce
    <2>5. CASE m[1] # "error"
      <3>1. failure' /\ group' = "open" => NewsRead'
        BY <2>3, <2>5, <1>1, <1>4, <1>5, <1>7 DEF NewsOnce
      <3>2. closed' # "open" /\ outputs' => failure'
        BY <2>5, <1>1, <1>3, <1>4, <1>5, <1>7 DEF NewsOnce
      <3>. QED
        BY <2>1, <2>2, <3>1, <3>2 DEF NewsOnce
    <2>. QED
      BY <2>4, <2>5
  <1>9. closed' # "open" /\ started' => ~outputs'
    <2>1. CASE m[1] = "spawned" /\ group = "open"
      <3>1. ~failure
        BY <2>1, <1>1, <1>2 DEF NewsOnce, NewsRead, News
      <3>. QED
        BY <3>1, <2>1, <1>1, <1>3, <1>4, <1>5, <1>7 DEF NewsOnce
    <2>2. CASE ~(m[1] = "spawned" /\ group = "open")
      BY <2>2, <1>1, <1>3, <1>4, <1>5, <1>7 DEF GroupClaims
    <2>. QED
      BY <2>1, <2>2
  <1>10. /\ keeper' = "dead" => ~members' /\ command' # "alive"
         /\ group' = "complete" => keeper' = "dead"
    BY <1>1, <1>4, <1>5 DEF PGInv
  <1>. QED
    BY <1>6, <1>8, <1>9, <1>10 DEF PGInv, GroupClaims

LEMMA GroupStep ==
    ASSUME PGInv, PGNext
    PROVE  PGInv'
  <1>1. /\ PGTypeOK /\ NewsOnce /\ GroupClaims
        /\ group = "complete" => keeper = "dead"
    BY DEF PGInv
  <1>2. /\ Now \in Promises /\ Now.group = group /\ Now.failure = failure /\ Now.closed = closed
        /\ failure \in BOOLEAN /\ started \in BOOLEAN /\ outputs \in BOOLEAN /\ members \in BOOLEAN
        /\ toKeeper \in Seq({"start", "SIGTERM", "SIGKILL"} \X Nat) /\ sent \in Nat
    BY <1>1, NowFacts DEF PGTypeOK, Now
  <1>3. ASSUME NEW p \in Promises, Becomes(p), p.group = group, p.failure = failure, p.closed = closed,
               UNCHANGED <<keeperVars, toServer, started, sent, toKeeper, outputs>>
        PROVE  PGInv'
    BY <1>1, <1>2, <1>3, ServerStep
  \* The group is settled: complete only when the keeper is known to have died.
  <1>4. ASSUME NEW p \in Promises, NEW result \in {"complete", "unverified"},
               Becomes(FinishGroup(p, result)), result = "complete" => keeper = "dead",
               p.group = group, p.failure = failure, p.closed = closed,
               UNCHANGED <<keeperVars, toServer, started, sent, toKeeper, outputs>>
        PROVE  PGInv'
    <2>. DEFINE q == FinishGroup(p, result)
    <2>1. /\ q \in Promises /\ q.group = IF p.group = "open" THEN result ELSE p.group
          /\ p.failure => q.failure
          /\ p.closed # "open" => q.closed = p.closed
          /\ p.closed = "open" /\ q.closed # "open" => ~outputs \/ (q.failure /\ ~started)
      BY <1>1, FinishGroupFacts
    <2>2. Becomes(q)
      BY <1>4
    <2>3. p.group = group /\ p.failure = failure /\ p.closed = closed
      BY <1>4
    <2>. HIDE DEF q
    <2>4. /\ q.group = "complete" => group = "complete" \/ keeper = "dead"
          /\ q.failure /\ q.group = "open" => failure /\ group = "open"
          /\ failure => q.failure
          /\ q.closed # "open" => closed # "open" \/ ~outputs \/ (q.failure /\ ~started)
      BY <2>1, <2>3, <1>1, <1>4
    <2>. QED
      BY <2>1, <2>2, <2>4, <1>1, <1>2, <1>4, ServerStep
  <1>5. CASE SpawnProcessGroup
    <2>1. toKeeper' \in Seq({"start", "SIGTERM", "SIGKILL"} \X Nat)
      BY <1>5 DEF SpawnProcessGroup
    <2>. QED
      BY <2>1, <1>1, <1>2, <1>5, KeeperStep DEF SpawnProcessGroup
  <1>6. CASE KeeperReads
    BY <1>6, KeeperReadsKeeps
  <1>7. CASE KeeperKills
    BY <1>1, <1>2, <1>7, KeeperStep DEF KeeperKills, GroupDies
  <1>8. CASE KeeperLost
    BY <1>1, <1>2, <1>8, KeeperStep DEF KeeperLost
  <1>9. CASE CommandExits
    <2>1. \/ toServer' = toServer
          \/ \E m \in Messages : m[1] \notin News /\ toServer' = Append(toServer, m)
      <3>1. <<"exit", 0>> \in Messages /\ <<"exit", 0>>[1] \notin News
        BY DEF Messages, News
      <3>. QED
        BY <3>1, <1>9 DEF CommandExits, Reports
    <2>2. keeper # "dead"
      BY <1>9 DEF CommandExits, PGInv
    <2>. QED
      BY <2>1, <2>2, <1>1, <1>2, <1>9, KeeperStep DEF CommandExits
  <1>10. CASE ServerReads
    BY <1>10, ServerReadsKeeps
  <1>11. CASE OutputsClose
    <2>. DEFINE q == FinishCommand(Now, FALSE, started)
    <2>1. /\ q \in Promises /\ q.group = group /\ q.failure = failure
          /\ closed # "open" => q.closed = closed
      BY <1>2, FinishCommandFacts
    <2>2. Becomes(q) /\ outputs' = FALSE
          /\ UNCHANGED <<keeperVars, toServer, started, sent, toKeeper>>
      BY <1>11 DEF OutputsClose
    <2>. HIDE DEF q
    <2>. QED
      BY <2>1, <2>2, <1>1, <1>2, ServerStep
  <1>12. CASE ExitEvent
    <2>. DEFINE result == IF Proven THEN "complete" ELSE "unverified"
    <2>1. result \in {"complete", "unverified"} /\ (result = "complete" => keeper = "dead")
      BY DEF Proven
    <2>2. /\ Becomes(FinishGroup(Now, result))
          /\ UNCHANGED <<keeperVars, toServer, started, sent, toKeeper, outputs>>
      BY <1>12 DEF ExitEvent
    <2>. HIDE DEF result
    <2>. QED
      BY <2>1, <2>2, <1>2, <1>4
  <1>13. ASSUME Becomes(FinishGroup(Now, "unverified")),
                UNCHANGED <<keeperVars, toServer, started, sent, toKeeper, outputs>>
         PROVE  PGInv'
    BY <1>2, <1>4, <1>13
  <1>14. CASE Disconnected
    <2>1. UNCHANGED <<keeperVars, toServer, started, sent, toKeeper, outputs>>
      BY <1>14 DEF Disconnected
    <2>2. CASE killAcked \/ \E r \in pending : r[2] = "SIGKILL"
      <3>1. Becomes(Now)
        BY <2>2, <1>14 DEF Disconnected
      <3>. QED
        BY <2>1, <3>1, <1>2, <1>3
    <2>3. CASE ~(killAcked \/ \E r \in pending : r[2] = "SIGKILL")
      <3>1. Becomes(FinishGroup(Now, "unverified"))
        BY <2>3, <1>14 DEF Disconnected
      <3>. QED
        BY <2>1, <3>1, <1>13
    <2>. QED
      BY <2>2, <2>3
  <1>15. CASE ReleaseGroup \/ StartupTimeout
    BY <1>13, <1>15 DEF ReleaseGroup, StartupTimeout
  <1>16. CASE Signal
    <2>1. PICK s \in {"SIGTERM", "SIGKILL"} :
             pending' = pending \cup {<<sent', s>>} /\ toKeeper' = Append(toKeeper, <<s, sent'>>)
      BY <1>16 DEF Signal
    <2>2. sent' \in Nat /\ sent' = sent + 1
      BY <1>2, <1>16 DEF Signal
    <2>3. toKeeper' \in Seq({"start", "SIGTERM", "SIGKILL"} \X Nat)
      BY <2>1, <2>2, <1>2, AppendProperties
    <2>. DEFINE p == [Now EXCEPT !.pending = pending \cup {<<sent', s>>}]
    <2>4. p \in Promises
      BY <2>1, <2>2, <1>2, NowFacts DEF Promises
    <2>5. Becomes(p) /\ p.group = group /\ p.failure = failure /\ p.closed = closed
      BY <2>1, <1>16 DEF Signal, Becomes, Now
    <2>6. UNCHANGED <<keeperVars, toServer, started, outputs>>
      BY <1>16 DEF Signal
    <2>. HIDE DEF p
    <2>. QED
      BY <2>2, <2>3, <2>4, <2>5, <2>6, <1>1, <1>2, ServerStep
  <1>17. CASE SignalTimeout
    <2>1. PICK r \in pending :
             Becomes(IF ~linked /\ ~killAcked THEN FinishGroup(Answered(Now, r[1]), "unverified")
                     ELSE Answered(Now, r[1]))
      BY <1>17 DEF SignalTimeout
    <2>2. UNCHANGED <<keeperVars, toServer, started, sent, toKeeper, outputs>>
      BY <1>17 DEF SignalTimeout
    <2>. DEFINE p == Answered(Now, r[1])
    <2>3. p \in Promises /\ p.group = group /\ p.failure = failure /\ p.closed = closed
      BY <1>2 DEF Answered, Promises
    <2>4. Becomes(FinishGroup(p, "unverified")) \/ Becomes(p)
      BY <2>1
    <2>. HIDE DEF p
    <2>. QED
      BY <2>2, <2>3, <2>4, <1>3, <1>4
  <1>. QED
    BY <1>5, <1>6, <1>7, <1>8, <1>9, <1>10, <1>11, <1>12, <1>14, <1>15, <1>16, <1>17 DEF PGNext

\* A group is reported gone only when every member of it is dead, and the end of
\* a started command is told only with all of its output.
THEOREM GroupClaimsHolds == PGSpec => []GroupClaims
  <1>1. PGInit => PGInv
    <2>. SUFFICES ASSUME PGInit
                  PROVE  PGInv
      OBVIOUS
    <2>1. Now \in Promises
      BY DEF PGInit, Now, Promises
    <2>2. toServer = <<>> /\ toKeeper = <<>> /\ Len(toServer) = 0
      BY DEF PGInit
    <2>3. toServer \in Seq(Messages) /\ toKeeper \in Seq({"start", "SIGTERM", "SIGKILL"} \X Nat)
      BY <2>2
    <2>4. PGTypeOK
      BY <2>1, <2>3 DEF PGTypeOK, PGInit
    <2>5. NewsOnce
      BY <2>2 DEF NewsOnce, PGInit
    <2>. QED
      BY <2>4, <2>5 DEF PGInv, GroupClaims, PGInit
  <1>2. PGInv /\ [PGNext]_pgVars => PGInv'
    <2>1. ASSUME PGInv, UNCHANGED pgVars
          PROVE  PGInv'
      BY <2>1 DEF pgVars, PGInv, PGTypeOK, NewsOnce, NewsRead, GroupClaims, Now
    <2>. QED
      BY <2>1, GroupStep
  <1>3. PGInv => GroupClaims
    BY DEF PGInv
  <1>. QED
    BY <1>1, <1>2, <1>3, PTL DEF PGSpec
-----------------------------------------------------------------------------
(* BackgroundTasks: TasksInHand.                                           *)

Tasks ==
    [reg : BOOLEAN, state : {"none", "running", "ended"}, reason : {"none", "kill", "dispose"},
     inline : BOOLEAN, killWaiters : Int, unread : BOOLEAN, discard : BOOLEAN,
     cleanup : {"pending", "complete", "unverified"}, esc : {"no", "timer", "kill"},
     tries : 0..(MaxEscalations - 1), note : {"no", "dropped", "suppressed", "raised"}]

Calls ==
    [pc : {"ready", "confirming", "waiting", "done"}, of : Runs \cup {0}, pattern : BOOLEAN,
     exit : BOOLEAN]

OnTheWay == {"scan", "ask", "askDir", "spawn"}

BTTypeOK ==
    /\ run \in [Runs -> OnTheWay \cup {"ready", "live", "failed"}]
    /\ aborted \subseteq Runs /\ pendingRuns \in Nat
    /\ task \in [Runs -> Tasks] /\ tool \in [Kills \cup Waits -> Calls]
    /\ disposed \in BOOLEAN /\ posix \in BOOLEAN

\* The kills that wait for the end of r.
Confirming(r) == {c \in DOMAIN tool : tool[c].pc = "confirming" /\ tool[c].of = r}

\* What the calls wait for: each kill that waits is counted, and while the command
\* runs its exit is claimed exactly when one does.
CallsOK ==
    /\ \A c \in DOMAIN tool :
          /\ tool[c].exit => /\ tool[c].pc = "done"
                             /\ tool[c].of \in Runs => task[tool[c].of].state = "ended"
          /\ tool[c].pc = "confirming" => /\ tool[c].of \in Runs
                                          /\ task[tool[c].of].state # "none"
    /\ \A r \in Runs :
          /\ task[r].killWaiters = Cardinality(Confirming(r))
          /\ task[r].state = "running" => (task[r].inline <=> Confirming(r) # {})
          /\ task[r].state # "ended" => task[r].note = "no"
    /\ ReportedOnce

Reserved == {r \in Runs : run[r] \in OnTheWay /\ r \notin aborted}

\* A reservation is counted until it is given back, which it is once.
SlotsOK ==
    /\ \A r \in Runs : run[r] # "live" => task[r].state = "none"
    /\ \A r \in aborted : run[r] \in OnTheWay
    /\ pendingRuns = IF disposed THEN 0 ELSE Cardinality(Reserved)
    /\ SlotsHold

\* A listed task runs or has ended, and one that is to be ended has a timer or a
\* signal out, or its group is settled.
InHand(t, off) ==
    /\ t.reg => t.state # "none"
    /\ t.reg /\ (t.discard \/ (off /\ t.state = "running")) => t.esc # "no" \/ t.cleanup # "pending"

BTInv ==
    /\ BTTypeOK /\ CallsOK /\ SlotsOK
    /\ \A r \in Runs : InHand(task[r], disposed)

\* What no step of a kill, a cleanup or a pruning changes.
Keeps(t, u) ==
    /\ u \in Tasks
    /\ u.state = t.state /\ u.note = t.note /\ u.killWaiters = t.killWaiters
    /\ t.state = "running" => u.reg = t.reg /\ u.inline = t.inline
    /\ u.reg => t.reg
    /\ \A off \in BOOLEAN : InHand(t, off) => InHand(u, off)

Settled(t) == t.esc # "no" \/ t.cleanup # "pending"

LEMMA KeepsItself ==
    ASSUME NEW t \in Tasks
    PROVE  Keeps(t, t)
  BY DEF Keeps

LEMMA KeepsTransitive ==
    ASSUME NEW t, NEW u, NEW v, Keeps(t, u), Keeps(u, v)
    PROVE  Keeps(t, v)
  BY DEF Keeps

LEMMA GoneKeeps ==
    ASSUME NEW t \in Tasks, t.state = "ended", t.reg
    PROVE  Keeps(t, Gone(t))
  <1>1. Gone(t) \in Tasks
    <2>1. 0 \in 0..(MaxEscalations - 1)
      BY BTAssumption
    <2>2. NoTask \in Tasks
      BY <2>1 DEF NoTask, Tasks
    <2>. QED
      BY <2>2 DEF Gone, Tasks
  <1>2. /\ Gone(t).state = "ended" /\ Gone(t).note = t.note /\ Gone(t).killWaiters = t.killWaiters
        /\ Gone(t).reg = FALSE
    BY DEF Gone, NoTask
  <1>. QED
    BY <1>1, <1>2 DEF Keeps, InHand

LEMMA KeptKeeps ==
    ASSUME NEW t \in Tasks
    PROVE  Keeps(t, Kept(t)) /\ (Settled(t) => Settled(Kept(t)) \/ ~Kept(t).reg)
  <1>1. CASE t.reg /\ Over(t) /\ t.discard /\ t.cleanup # "pending"
    <2>1. Kept(t) = Gone(t) /\ t.state = "ended"
      BY <1>1 DEF Kept, Over
    <2>2. Gone(t).reg = FALSE
      BY DEF Gone, NoTask
    <2>. QED
      BY <2>1, <2>2, <1>1, GoneKeeps
  <1>2. CASE ~(t.reg /\ Over(t) /\ t.discard /\ t.cleanup # "pending")
    BY <1>2, KeepsItself DEF Kept
  <1>. QED
    BY <1>1, <1>2

LEMMA CleanedKeeps ==
    ASSUME NEW t \in Tasks, NEW result \in {"complete", "unverified"}
    PROVE  Keeps(t, Cleaned(t, result)) /\ (Settled(Cleaned(t, result)) \/ ~Cleaned(t, result).reg)
  <1>1. CASE t.cleanup # "pending"
    BY <1>1, KeepsItself DEF Cleaned, Settled
  <1>2. CASE t.cleanup = "pending"
    <2>. DEFINE u == [t EXCEPT !.cleanup = result, !.esc = "no", !.tries = 0]
    <2>0. 0 \in 0..(MaxEscalations - 1)
      BY BTAssumption
    <2>1. u \in Tasks
      BY <2>0 DEF Tasks
    <2>2. /\ u.state = t.state /\ u.note = t.note /\ u.killWaiters = t.killWaiters
          /\ u.reg = t.reg /\ u.inline = t.inline /\ u.cleanup = result
      BY DEF Tasks
    <2>3. Cleaned(t, result) = Kept(u)
      BY <1>2 DEF Cleaned
    <2>. HIDE DEF u
    <2>4. Keeps(t, u) /\ Settled(u)
      BY <2>1, <2>2 DEF Keeps, InHand, Settled
    <2>. QED
      BY <2>1, <2>3, <2>4, KeptKeeps, KeepsTransitive
  <1>. QED
    BY <1>1, <1>2

LEMMA KillGroupKeeps ==
    ASSUME NEW t \in Tasks, NEW reason \in {"none", "kill", "dispose"}
    PROVE  /\ Keeps(t, KillGroup(t, reason))
           /\ Settled(KillGroup(t, reason)) \/ ~KillGroup(t, reason).reg
  <1>1. CASE t.cleanup = "pending" /\ ~Needs(t)
    <2>1. KillGroup(t, reason) = Cleaned(t, "complete")
      BY <1>1 DEF KillGroup, Probed
    <2>. QED
      BY <2>1, CleanedKeeps
  <1>2. CASE ~(t.cleanup = "pending" /\ ~Needs(t)) /\ (~Needs(t) \/ t.esc # "no")
    <2>1. KillGroup(t, reason) = t
      BY <1>2 DEF KillGroup, Probed
    <2>. QED
      BY <2>1, <1>2, KeepsItself DEF Settled, Needs
  <1>3. CASE Needs(t) /\ t.esc = "no"
    <2>. DEFINE u == [t EXCEPT !.reason = IF ~Over(t) /\ t.reason = "none" THEN reason ELSE t.reason,
                               !.esc = "timer"]
    <2>1. KillGroup(t, reason) = u
      BY <1>3 DEF KillGroup
    <2>2. u \in Tasks
      BY DEF Tasks
    <2>3. /\ u.state = t.state /\ u.note = t.note /\ u.killWaiters = t.killWaiters
          /\ u.reg = t.reg /\ u.inline = t.inline /\ u.esc = "timer"
      BY DEF Tasks
    <2>. HIDE DEF u
    <2>. QED
      BY <2>1, <2>2, <2>3 DEF Keeps, InHand, Settled
  <1>. QED
    BY <1>1, <1>2, <1>3

LEMMA DiscardTaskKeeps ==
    ASSUME NEW t \in Tasks, NEW reason \in {"none", "kill", "dispose"}
    PROVE  Keeps(t, DiscardTask(t, reason))
  <1>. DEFINE d == [t EXCEPT !.discard = TRUE]
              g == KillGroup(d, reason)
  <1>1. d \in Tasks
    BY DEF Tasks
  <1>2. /\ d.state = t.state /\ d.note = t.note /\ d.killWaiters = t.killWaiters
        /\ d.reg = t.reg /\ d.inline = t.inline
    BY DEF Tasks
  <1>3. DiscardTask(t, reason) = Kept(g)
    BY DEF DiscardTask
  <1>. HIDE DEF d
  <1>4. Keeps(d, g) /\ (Settled(g) \/ ~g.reg)
    BY <1>1, KillGroupKeeps
  <1>. HIDE DEF g
  <1>5. Keeps(t, g)
    BY <1>2, <1>4 DEF Keeps, InHand, Settled
  <1>6. Keeps(g, Kept(g))
    BY <1>4, KeptKeeps DEF Keeps
  <1>. QED
    BY <1>3, <1>5, <1>6, KeepsTransitive

\* Pruning keeps every task in this sense.
LEMMA PruneKeeps ==
    ASSUME NEW ts \in [Runs -> Tasks], Prune(ts)
    PROVE  task' \in [Runs -> Tasks] /\ \A r \in Runs : Keeps(ts[r], task'[r])
  <1>1. PICK old \in SUBSET {r \in Finished(ts) : ~ts[r].unread} : task' = Pruned(ts, old)
    BY DEF Prune
  <1>. DEFINE aged == [r \in Runs |-> IF r \in old THEN DiscardTask(ts[r], "none") ELSE ts[r]]
              over == {r \in Finished(aged) :
                          Cardinality({s \in Finished(aged) : s > r}) >= MaxFinished}
  <1>2. task' = [r \in Runs |-> IF r \in over THEN DiscardTask(aged[r], "none") ELSE aged[r]]
    BY <1>1 DEF Pruned
  <1>3. ASSUME NEW r \in Runs
        PROVE  Keeps(ts[r], aged[r])
    BY DiscardTaskKeeps, KeepsItself
  <1>. HIDE DEF over, aged
  <1>4. ASSUME NEW r \in Runs
        PROVE  Keeps(ts[r], task'[r])
    <2>1. aged[r] \in Tasks
      BY <1>3 DEF Keeps
    <2>2. Keeps(aged[r], task'[r])
      BY <1>2, <2>1, DiscardTaskKeeps, KeepsItself
    <2>. QED
      BY <1>3, <2>2, KeepsTransitive
  <1>5. \A r \in Runs : task'[r] \in Tasks
    BY <1>4 DEF Keeps
  <1>. QED
    BY <1>2, <1>4, <1>5

-----------------------------------------------------------------------------

\* A call that neither starts nor stops waiting for an end it would tell of.
Quietly(c) == \/ tool'[c] = tool[c]
              \/ /\ tool[c].pc \in {"ready", "waiting"}
                 /\ tool'[c].pc \in {"waiting", "done"} /\ ~tool'[c].exit

\* What becomes of a task that does not end: it may be the one just started.
Moves(t, u) ==
    /\ u.note = t.note /\ u.killWaiters = t.killWaiters
    /\ t.state = "running" => u.inline = t.inline
    /\ u.state = t.state \/ (t.state = "none" /\ u.state = "running" /\ ~u.inline)

LEMMA CallsStay ==
    ASSUME BTTypeOK, CallsOK,
           tool' \in [Kills \cup Waits -> Calls], \A c \in DOMAIN tool : Quietly(c),
           \A r \in Runs : Moves(task[r], task'[r])
    PROVE  CallsOK'
  <1>1. /\ DOMAIN tool = Kills \cup Waits /\ DOMAIN tool' = DOMAIN tool
        /\ \A c \in DOMAIN tool : tool[c] \in Calls /\ tool'[c] \in Calls
    BY DEF BTTypeOK
  <1>2. \A c \in DOMAIN tool : /\ tool[c].exit => tool'[c] = tool[c]
                               /\ tool[c].pc = "confirming" => tool'[c] = tool[c]
                               /\ tool'[c].exit => tool'[c] = tool[c]
                               /\ tool'[c].pc = "confirming" => tool'[c] = tool[c]
    <2>. SUFFICES ASSUME NEW c \in DOMAIN tool
                  PROVE  /\ tool[c].exit => tool'[c] = tool[c]
                         /\ tool[c].pc = "confirming" => tool'[c] = tool[c]
                         /\ tool'[c].exit => tool'[c] = tool[c]
                         /\ tool'[c].pc = "confirming" => tool'[c] = tool[c]
      OBVIOUS
    <2>1. tool[c].exit => tool[c].pc = "done"
      BY DEF CallsOK
    <2>2. Quietly(c)
      OBVIOUS
    <2>. QED
      BY <2>1, <2>2 DEF Quietly
  <1>3. \A r \in Runs : Confirming(r)' = Confirming(r) /\ Tellers(r)' = Tellers(r)
    BY <1>1, <1>2 DEF Confirming, Tellers
  <1>4. \A r \in Runs : /\ task'[r].note = task[r].note
                        /\ task'[r].killWaiters = task[r].killWaiters
    BY DEF Moves
  <1>5. ASSUME NEW c \in DOMAIN tool'
        PROVE  /\ tool'[c].exit => /\ tool'[c].pc = "done"
                                   /\ tool'[c].of \in Runs => task'[tool'[c].of].state = "ended"
               /\ tool'[c].pc = "confirming" => /\ tool'[c].of \in Runs
                                                /\ task'[tool'[c].of].state # "none"
    BY <1>1, <1>2 DEF CallsOK, Moves
  <1>6. ASSUME NEW r \in Runs
        PROVE  /\ task'[r].killWaiters = Cardinality(Confirming(r)')
               /\ task'[r].state = "running" => (task'[r].inline <=> Confirming(r)' # {})
               /\ task'[r].state # "ended" => task'[r].note = "no"
    <2>1. Moves(task[r], task'[r]) /\ task'[r].killWaiters = Cardinality(Confirming(r))
      BY <1>4 DEF CallsOK
    <2>2. task[r].state = "none" => Confirming(r) = {}
      BY DEF CallsOK, Confirming
    <2>3. task[r].state # "ended" => task[r].note = "no"
      BY DEF CallsOK
    <2>4. task[r].state = "running" => (task[r].inline <=> Confirming(r) # {})
      BY DEF CallsOK
    <2>5. task'[r].state = "running" => (task'[r].inline <=> Confirming(r) # {})
      BY <2>1, <2>2, <2>4 DEF Moves
    <2>. QED
      BY <1>3, <2>1, <2>3, <2>5 DEF Moves
  <1>7. ReportedOnce'
    BY <1>3, <1>4 DEF CallsOK, ReportedOnce
  <1>. QED
    BY <1>5, <1>6, <1>7 DEF CallsOK

LEMMA KeepsMoves ==
    ASSUME NEW t, NEW u, Keeps(t, u)
    PROVE  Moves(t, u)
  BY DEF Keeps, Moves

\* Slots, as long as no task starts.
LEMMA SlotsStay ==
    ASSUME BTTypeOK, SlotsOK, UNCHANGED <<run, aborted, pendingRuns, disposed>>,
           task' \in [Runs -> Tasks],
           \A r \in Runs : /\ task'[r].state = "running" /\ task'[r].reg =>
                                 task[r].state = "running" /\ task[r].reg
                           /\ task[r].state = "none" => task'[r].state = "none"
    PROVE  SlotsOK'
  <1>1. Running(task') \subseteq Running(task) /\ Running(task) \subseteq Runs
    BY DEF Running
  <1>2. Cardinality(Running(task')) <= Cardinality(Running(task))
    BY <1>1, BTAssumption, FS_Subset
  <1>3. Cardinality(Running(task)) \in Nat /\ Cardinality(Running(task')) \in Nat
    BY <1>1, BTAssumption, FS_Subset, FS_CardinalityType
  <1>4. SlotsHold'
    BY <1>2, <1>3, BTAssumption DEF SlotsOK, SlotsHold, BTTypeOK
  <1>5. Reserved' = Reserved
    BY DEF Reserved
  <1>. QED
    BY <1>4, <1>5 DEF SlotsOK

\* A step that only keeps the tasks.
LEMMA TasksStay ==
    ASSUME BTInv, UNCHANGED <<run, aborted, pendingRuns, disposed, posix>>,
           tool' \in [Kills \cup Waits -> Calls], \A c \in DOMAIN tool : Quietly(c),
           task' \in [Runs -> Tasks], \A r \in Runs : Keeps(task[r], task'[r])
    PROVE  BTInv'
  <1>1. BTTypeOK'
    BY DEF BTInv, BTTypeOK
  <1>2. CallsOK'
    BY KeepsMoves, CallsStay DEF BTInv
  <1>3. SlotsOK'
    <2>1. \A r \in Runs : /\ task'[r].state = "running" /\ task'[r].reg =>
                                 task[r].state = "running" /\ task[r].reg
                          /\ task[r].state = "none" => task'[r].state = "none"
      BY DEF Keeps
    <2>. QED
      BY <2>1, SlotsStay DEF BTInv
  <1>4. \A r \in Runs : InHand(task'[r], disposed)
    BY DEF BTInv, Keeps, BTTypeOK
  <1>. QED
    BY <1>1, <1>2, <1>3, <1>4 DEF BTInv

\* Without the calls.
LEMMA OnlyTasksStay ==
    ASSUME BTInv, UNCHANGED <<run, aborted, pendingRuns, tool, disposed, posix>>,
           task' \in [Runs -> Tasks], \A r \in Runs : Keeps(task[r], task'[r])
    PROVE  BTInv'
  <1>1. tool' \in [Kills \cup Waits -> Calls] /\ \A c \in DOMAIN tool : Quietly(c)
    BY DEF BTInv, BTTypeOK, Quietly
  <1>. QED
    BY <1>1, TasksStay

\* Changing one task and pruning.
LEMMA WithKeeps ==
    ASSUME BTTypeOK, NEW r \in Runs, NEW u, Keeps(task[r], u)
    PROVE  With(r, u) \in [Runs -> Tasks] /\ \A s \in Runs : Keeps(task[s], With(r, u)[s])
  BY KeepsItself DEF BTTypeOK, Keeps, With

LEMMA WithPruneKeeps ==
    ASSUME BTTypeOK, NEW r \in Runs, NEW u, Keeps(task[r], u), Prune(With(r, u))
    PROVE  task' \in [Runs -> Tasks] /\ \A s \in Runs : Keeps(task[s], task'[s])
  <1>1. With(r, u) \in [Runs -> Tasks] /\ \A s \in Runs : Keeps(task[s], With(r, u)[s])
    BY WithKeeps
  <1>2. task' \in [Runs -> Tasks] /\ \A s \in Runs : Keeps(With(r, u)[s], task'[s])
    BY <1>1, PruneKeeps
  <1>. QED
    BY <1>1, <1>2, KeepsTransitive

-----------------------------------------------------------------------------
\* The reservation of a run is given back once.
LEMMA ReleaseFacts ==
    ASSUME BTTypeOK, SlotsOK, NEW r \in Runs, run[r] \in OnTheWay, Release(r), disposed' = disposed,
           Reserved' = Reserved \ {r}
    PROVE  /\ pendingRuns' \in Nat
           /\ pendingRuns' = IF disposed' THEN 0 ELSE Cardinality(Reserved')
           /\ pendingRuns' <= pendingRuns
           /\ ~disposed /\ r \notin aborted => pendingRuns' + 1 = pendingRuns
  <1>1. /\ \A p \in Nat : p >= 1 => Max({0, p - 1}) = p - 1
        /\ Max({0, -1}) = 0
    BY DEF Max
  <1>2. /\ pendingRuns \in Nat
        /\ pendingRuns = IF disposed THEN 0 ELSE Cardinality(Reserved)
    BY DEF BTTypeOK, SlotsOK
  <1>3. Reserved \subseteq Runs /\ IsFiniteSet(Reserved) /\ Cardinality(Reserved) \in Nat
    BY BTAssumption, FS_Subset, FS_CardinalityType DEF Reserved
  <1>4. CASE r \in aborted
    <2>1. Reserved' = Reserved /\ pendingRuns' = pendingRuns
      BY <1>4 DEF Reserved, Release
    <2>. QED
      BY <2>1, <1>2, <1>4
  <1>5. CASE r \notin aborted
    <2>1. r \in Reserved /\ pendingRuns' = Max({0, pendingRuns - 1})
      BY <1>5 DEF Reserved, Release
    <2>2. Cardinality(Reserved') = Cardinality(Reserved) - 1
      BY <2>1, <1>3, FS_RemoveElement
    <2>3. Cardinality(Reserved) >= 1
      BY <2>1, <1>3, FS_EmptySet
    <2>4. CASE disposed
      BY <2>1, <2>4, <1>1, <1>2
    <2>5. CASE ~disposed
      BY <2>1, <2>2, <2>3, <2>5, <1>1, <1>2, <1>3
    <2>. QED
      BY <2>4, <2>5
  <1>. QED
    BY <1>4, <1>5

\* The calls and the tasks stay as they are.
LEMMA OnlyRunsMove ==
    ASSUME BTInv, UNCHANGED <<task, tool, disposed, posix>>,
           run' \in [Runs -> OnTheWay \cup {"ready", "live", "failed"}],
           aborted' \subseteq Runs, pendingRuns' \in Nat,
           \A r \in Runs : run'[r] # "live" => run[r] # "live",
           \A r \in aborted' : run'[r] \in OnTheWay,
           pendingRuns' = IF disposed THEN 0 ELSE Cardinality(Reserved'),
           Cardinality(Running(task)) + pendingRuns' <= MaxTasks
    PROVE  BTInv'
  <1>1. BTTypeOK'
    BY DEF BTInv, BTTypeOK
  <1>2. CallsOK'
    <2>1. \A r \in Runs : Confirming(r)' = Confirming(r) /\ Tellers(r)' = Tellers(r)
      BY DEF Confirming, Tellers
    <2>. QED
      BY <2>1 DEF BTInv, CallsOK, ReportedOnce
  <1>3. SlotsOK'
    BY DEF BTInv, SlotsOK, SlotsHold
  <1>. QED
    BY <1>1, <1>2, <1>3 DEF BTInv

LEMMA StartRunKeeps ==
    ASSUME BTInv, NEW r \in Runs, StartRun(r)
    PROVE  BTInv'
  <1>1. /\ BTTypeOK /\ SlotsOK /\ run[r] = "ready" /\ disposed = FALSE
        /\ UNCHANGED <<aborted, task, tool, disposed, posix>>
    BY DEF BTInv, StartRun, BTTypeOK
  <1>2. r \notin aborted
    BY <1>1 DEF SlotsOK, OnTheWay
  <1>3. IsFiniteSet(Reserved) /\ r \notin Reserved /\ Cardinality(Reserved) \in Nat
    <2>1. Reserved \subseteq Runs
      BY DEF Reserved
    <2>. QED
      BY <2>1, <1>1, BTAssumption, FS_Subset, FS_CardinalityType DEF Reserved, OnTheWay
  <1>4. CASE Fails(r) /\ UNCHANGED pendingRuns
    <2>1. Reserved' = Reserved
      BY <1>1, <1>4 DEF Reserved, Fails, OnTheWay, BTTypeOK
    <2>2. \A s \in Runs : run'[s] = IF s = r THEN "failed" ELSE run[s]
      BY <1>4, <1>1 DEF Fails, BTTypeOK
    <2>3. run' \in [Runs -> OnTheWay \cup {"ready", "live", "failed"}]
      BY <1>4, <1>1 DEF Fails, BTTypeOK
    <2>. QED
      BY <2>1, <2>2, <2>3, <1>1, <1>2, <1>4, OnlyRunsMove DEF SlotsOK, SlotsHold, BTTypeOK
  <1>5. CASE /\ Cardinality(Running(task)) + pendingRuns < MaxTasks
             /\ run' = [run EXCEPT ![r] = "scan"]
             /\ pendingRuns' = pendingRuns + 1
    <2>1. \A s \in Runs : run'[s] = IF s = r THEN "scan" ELSE run[s]
      BY <1>5, <1>1 DEF BTTypeOK
    <2>2. run' \in [Runs -> OnTheWay \cup {"ready", "live", "failed"}]
      BY <1>5, <1>1 DEF BTTypeOK, OnTheWay
    <2>3. Reserved' = Reserved \cup {r}
      BY <2>1, <1>1, <1>2 DEF Reserved, OnTheWay
    <2>4. Cardinality(Reserved') = Cardinality(Reserved) + 1
      BY <2>3, <1>3, FS_AddElement
    <2>5. pendingRuns' = IF disposed THEN 0 ELSE Cardinality(Reserved')
      BY <2>4, <1>1, <1>5 DEF SlotsOK
    <2>6. Cardinality(Running(task)) \in Nat
      BY BTAssumption, FS_Subset, FS_CardinalityType DEF Running
    <2>7. Cardinality(Running(task)) + pendingRuns' <= MaxTasks /\ pendingRuns' \in Nat
      BY <2>6, <1>1, <1>5, BTAssumption DEF BTTypeOK
    <2>8. \A s \in aborted' : run'[s] \in OnTheWay
      BY <2>1, <1>1, <1>2 DEF SlotsOK, BTTypeOK
    <2>. QED
      BY <2>1, <2>2, <2>5, <2>7, <2>8, <1>1, OnlyRunsMove DEF BTTypeOK
  <1>. QED
    BY <1>4, <1>5 DEF StartRun

LEMMA AbortRunKeeps ==
    ASSUME BTInv, NEW r \in Runs, AbortRun(r)
    PROVE  BTInv'
  <1>1. /\ BTTypeOK /\ SlotsOK /\ run[r] \in OnTheWay /\ r \notin aborted
        /\ aborted' = aborted \cup {r} /\ Release(r)
        /\ UNCHANGED <<run, task, tool, disposed, posix>>
    BY DEF BTInv, AbortRun, OnTheWay
  <1>2. Reserved' = Reserved \ {r}
    BY <1>1 DEF Reserved
  <1>3. /\ pendingRuns' \in Nat
        /\ pendingRuns' = IF disposed' THEN 0 ELSE Cardinality(Reserved')
        /\ pendingRuns' <= pendingRuns
    BY <1>1, <1>2, ReleaseFacts
  <1>4. Cardinality(Running(task)) \in Nat
    BY BTAssumption, FS_Subset, FS_CardinalityType DEF Running
  <1>5. Cardinality(Running(task)) + pendingRuns' <= MaxTasks
    BY <1>1, <1>3, <1>4, BTAssumption DEF SlotsOK, SlotsHold, BTTypeOK
  <1>. QED
    BY <1>1, <1>3, <1>5, OnlyRunsMove DEF BTTypeOK, SlotsOK

LEMMA ResumeKeeps ==
    ASSUME BTInv, NEW r \in Runs, Resume(r)
    PROVE  BTInv'
  <1>1. /\ BTTypeOK /\ SlotsOK /\ run[r] \in OnTheWay
        /\ UNCHANGED <<task, tool, disposed, posix>>
    BY DEF BTInv, Resume, OnTheWay
  <1>2. Cardinality(Running(task)) \in Nat
    BY BTAssumption, FS_Subset, FS_CardinalityType DEF Running
  <1>3. CASE /\ \E to \in OnTheWay : run' = [run EXCEPT ![r] = to]
             /\ UNCHANGED <<pendingRuns, aborted>>
    <2>1. PICK to \in OnTheWay : run' = [run EXCEPT ![r] = to]
      BY <1>3
    <2>2. \A s \in Runs : run'[s] = IF s = r THEN to ELSE run[s]
      BY <2>1, <1>1 DEF BTTypeOK
    <2>3. run' \in [Runs -> OnTheWay \cup {"ready", "live", "failed"}]
      BY <2>1, <1>1 DEF BTTypeOK
    <2>4. Reserved' = Reserved
      BY <2>2, <1>1, <1>3 DEF Reserved
    <2>5. \A s \in aborted' : run'[s] \in OnTheWay
      BY <2>2, <1>1, <1>3 DEF SlotsOK, BTTypeOK
    <2>6. \A s \in Runs : run'[s] # "live" => run[s] # "live"
      BY <2>2, <1>1 DEF OnTheWay
    <2>. QED
      BY <2>3, <2>4, <2>5, <2>6, <1>1, <1>3, OnlyRunsMove DEF BTTypeOK, SlotsOK, SlotsHold
  <1>4. CASE Fails(r) /\ Release(r) /\ aborted' = aborted \ {r}
    <2>2. \A s \in Runs : run'[s] = IF s = r THEN "failed" ELSE run[s]
      BY <1>4, <1>1 DEF BTTypeOK, Fails
    <2>3. run' \in [Runs -> OnTheWay \cup {"ready", "live", "failed"}]
      BY <1>4, <1>1 DEF BTTypeOK, Fails
    <2>4. Reserved' = Reserved \ {r}
      BY <2>2, <1>1, <1>4 DEF Reserved, OnTheWay
    <2>5. /\ pendingRuns' \in Nat
          /\ pendingRuns' = IF disposed' THEN 0 ELSE Cardinality(Reserved')
          /\ pendingRuns' <= pendingRuns
      BY <2>4, <1>1, <1>4, ReleaseFacts
    <2>6. Cardinality(Running(task)) + pendingRuns' <= MaxTasks
      BY <2>5, <1>1, <1>2, BTAssumption DEF SlotsOK, SlotsHold, BTTypeOK
    <2>7. \A s \in aborted' : run'[s] \in OnTheWay
      BY <2>2, <1>1, <1>4 DEF SlotsOK, BTTypeOK
    <2>8. \A s \in Runs : run'[s] # "live" => run[s] # "live"
      BY <2>2, <1>1 DEF OnTheWay
    <2>. QED
      BY <2>3, <2>5, <2>6, <2>7, <2>8, <1>1, <1>4, OnlyRunsMove DEF BTTypeOK
  <1>. QED
    <2>1. \A to : to \in {"ask"} \/ to \in {"askDir", "spawn"} \/ to \in {"spawn"} => to \in OnTheWay
      BY DEF OnTheWay
    <2>. QED
      BY <2>1, <1>3, <1>4 DEF Resume

LEMMA SpawnedKeeps ==
    ASSUME BTInv, NEW r \in Runs, Spawned(r)
    PROVE  BTInv'
  <1>1. /\ BTTypeOK /\ SlotsOK /\ CallsOK /\ run[r] = "spawn" /\ run[r] \in OnTheWay
        /\ Release(r) /\ aborted' = aborted \ {r}
        /\ tool' = tool /\ disposed' = disposed /\ posix' = posix
    BY DEF BTInv, Spawned, OnTheWay
  <1>2. PICK to \in {"failed", "live"} : run' = [run EXCEPT ![r] = to]
    BY DEF Spawned, Fails
  <1>3. \A s \in Runs : run'[s] = IF s = r THEN to ELSE run[s]
    BY <1>1, <1>2 DEF BTTypeOK
  <1>4. run' \in [Runs -> OnTheWay \cup {"ready", "live", "failed"}]
    BY <1>1, <1>2 DEF BTTypeOK
  <1>5. Reserved' = Reserved \ {r}
    BY <1>1, <1>3 DEF Reserved, OnTheWay
  <1>6. /\ pendingRuns' \in Nat
        /\ pendingRuns' = IF disposed' THEN 0 ELSE Cardinality(Reserved')
        /\ pendingRuns' <= pendingRuns
        /\ ~disposed /\ r \notin aborted => pendingRuns' + 1 = pendingRuns
    BY <1>1, <1>5, ReleaseFacts
  <1>7. \A s \in aborted' : run'[s] \in OnTheWay
    BY <1>1, <1>3 DEF SlotsOK, BTTypeOK
  <1>8. /\ Cardinality(Running(task)) \in Nat /\ IsFiniteSet(Running(task))
        /\ Running(task) \subseteq Runs
    BY BTAssumption, FS_Subset, FS_CardinalityType DEF Running
  <1>9. CASE Fails(r) /\ UNCHANGED task
    <2>1. Cardinality(Running(task)) + pendingRuns' <= MaxTasks
      BY <1>1, <1>6, <1>8, BTAssumption DEF SlotsOK, SlotsHold, BTTypeOK
    <2>2. \A s \in Runs : run'[s] # "live" => run[s] # "live"
      BY <1>1, <1>3
    <2>3. aborted' \subseteq Runs
      BY <1>1 DEF BTTypeOK
    <2>. QED
      BY <2>1, <2>2, <2>3, <1>1, <1>4, <1>6, <1>7, <1>9, OnlyRunsMove
  <1>10. CASE /\ ~Unwanted(r) /\ run' = [run EXCEPT ![r] = "live"]
              /\ Prune(With(r, [NoTask EXCEPT !.reg = TRUE, !.state = "running"]))
    <2>. DEFINE new == [NoTask EXCEPT !.reg = TRUE, !.state = "running"]
                ts == With(r, new)
    <2>1. new \in Tasks
      <3>1. 0 \in 0..(MaxEscalations - 1)
        BY BTAssumption
      <3>2. NoTask \in Tasks
        BY <3>1 DEF NoTask, Tasks
      <3>. QED
        BY <3>2 DEF Tasks
    <2>2. /\ new.state = "running" /\ new.note = "no" /\ new.killWaiters = 0 /\ new.inline = FALSE
          /\ new.discard = FALSE /\ new.reg = TRUE
      BY DEF NoTask
    <2>3. Prune(ts)
      BY <1>10
    <2>. HIDE DEF new
    <2>4. ts \in [Runs -> Tasks] /\ \A s \in Runs : ts[s] = IF s = r THEN new ELSE task[s]
      BY <2>1, <1>1 DEF With, BTTypeOK
    <2>. HIDE DEF ts
    <2>5. task' \in [Runs -> Tasks] /\ \A s \in Runs : Keeps(ts[s], task'[s])
      BY <2>3, <2>4, PruneKeeps
    <2>6. task[r].state = "none" /\ task[r].note = "no" /\ task[r].killWaiters = 0
      <3>1. task[r].state = "none"
        BY <1>1 DEF SlotsOK
      <3>2. Confirming(r) = {}
        BY <3>1, <1>1 DEF CallsOK, Confirming
      <3>. QED
        BY <3>1, <3>2, <1>1, FS_EmptySet DEF CallsOK
    <2>7. \A s \in Runs : Moves(task[s], task'[s])
      BY <2>2, <2>4, <2>5, <2>6 DEF Keeps, Moves
    <2>8. CallsOK'
      <3>1. tool' \in [Kills \cup Waits -> Calls] /\ \A c \in DOMAIN tool : Quietly(c)
        BY <1>1 DEF BTTypeOK, Quietly
      <3>. QED
        BY <3>1, <2>7, <1>1, CallsStay
    <2>9. \A s \in Runs : run'[s] # "live" => task'[s].state = "none"
      <3>. SUFFICES ASSUME NEW s \in Runs, run'[s] # "live"
                    PROVE  task'[s].state = "none"
        OBVIOUS
      <3>1. s # r
        BY <1>10, <1>1 DEF BTTypeOK
      <3>2. ts[s].state = "none"
        BY <3>1, <2>4, <1>1, <1>3 DEF SlotsOK
      <3>. QED
        BY <3>2, <2>5 DEF Keeps
    <2>10. Cardinality(Running(task')) + pendingRuns' <= MaxTasks
      <3>1. Running(task') \subseteq Running(task) \cup {r}
        BY <2>4, <2>5 DEF Running, Keeps
      <3>2. r \notin Running(task)
        BY <2>6 DEF Running
      <3>3. /\ Cardinality(Running(task) \cup {r}) = Cardinality(Running(task)) + 1
            /\ IsFiniteSet(Running(task) \cup {r})
        BY <3>2, <1>8, FS_AddElement
      <3>4. Cardinality(Running(task')) <= Cardinality(Running(task)) + 1
        BY <3>1, <3>3, FS_Subset
      <3>5. Cardinality(Running(task')) \in Nat
        BY <3>1, <3>3, FS_Subset, FS_CardinalityType
      <3>6. pendingRuns' + 1 = pendingRuns
        BY <1>6, <1>10 DEF Unwanted
      <3>7. Cardinality(Running(task)) + pendingRuns <= MaxTasks
        BY <1>1 DEF SlotsOK, SlotsHold
      <3>. QED
        BY <3>4, <3>5, <3>6, <3>7, <1>6, <1>8, BTAssumption
    <2>11. SlotsOK'
      BY <2>9, <2>10, <1>6, <1>7 DEF SlotsOK, SlotsHold
    <2>12. BTTypeOK'
      BY <2>5, <1>1, <1>4, <1>6 DEF BTTypeOK
    <2>13. ASSUME NEW s \in Runs
           PROVE  InHand(task'[s], disposed')
      <3>1. InHand(ts[s], disposed)
        <4>1. CASE s = r
          BY <4>1, <2>2, <2>4, <1>10 DEF InHand, Unwanted
        <4>2. CASE s # r
          BY <4>2, <2>4 DEF BTInv
        <4>. QED
          BY <4>1, <4>2
      <3>. QED
        BY <3>1, <2>5, <1>1 DEF Keeps, BTTypeOK
    <2>. QED
      BY <2>8, <2>11, <2>12, <2>13 DEF BTInv
  <1>. QED
    BY <1>9, <1>10 DEF Spawned

LEMMA FinalizeKeeps ==
    ASSUME BTInv, NEW r \in Runs, Finalize(r)
    PROVE  BTInv'
  <1>1. /\ BTTypeOK /\ SlotsOK /\ CallsOK /\ task[r].state = "running" /\ task[r] \in Tasks
        /\ UNCHANGED <<run, aborted, pendingRuns, disposed, posix>>
    BY DEF BTInv, Finalize, BTTypeOK
  <1>2. PICK hits \in SUBSET {w \in Waiting(r) : tool[w].pattern}, unread \in BOOLEAN :
           /\ Prune(With(r, Kept(Probed([task[r] EXCEPT
                       !.state = "ended", !.unread = unread, !.inline = FALSE,
                       !.note = Note(task[r], task[r].inline \/ Waiting(r) \ hits # {})]))))
           /\ tool' = Exits(r, hits)
    BY DEF Finalize
  <1>. DEFINE told == Waiting(r) \ hits
              n == Note(task[r], task[r].inline \/ told # {})
              t == [task[r] EXCEPT !.state = "ended", !.unread = unread, !.inline = FALSE, !.note = n]
              u == Kept(Probed(t))
              ts == With(r, u)
  <1>3. /\ n \in {"dropped", "suppressed", "raised"}
        /\ n = "suppressed" => task[r].inline \/ told # {}
        /\ n = "raised" => ~task[r].inline /\ told = {}
    BY <1>1 DEF Note, Tasks
  <1>. HIDE DEF n
  <1>4. /\ t \in Tasks /\ t.state = "ended" /\ t.note = n /\ t.killWaiters = task[r].killWaiters
        /\ t.reg = task[r].reg /\ t.discard = task[r].discard /\ t.esc = task[r].esc
        /\ t.cleanup = task[r].cleanup
    BY <1>1, <1>3 DEF Tasks
  <1>5. Prune(ts)
    BY <1>2 DEF n
  <1>. HIDE DEF t
  <1>6. Keeps(t, u)
    <2>1. Keeps(t, Probed(t))
      BY <1>4, CleanedKeeps, KeepsItself DEF Probed
    <2>2. Probed(t) \in Tasks
      BY <2>1 DEF Keeps
    <2>. QED
      BY <2>1, <2>2, KeptKeeps, KeepsTransitive
  <1>. HIDE DEF u
  <1>7. /\ u \in Tasks /\ u.state = "ended" /\ u.note = n /\ u.killWaiters = task[r].killWaiters
        /\ InHand(u, disposed)
    <2>1. InHand(t, disposed)
      BY <1>4 DEF InHand, BTInv
    <2>. QED
      BY <2>1, <1>1, <1>4, <1>6 DEF Keeps, BTTypeOK
  <1>8. ts \in [Runs -> Tasks] /\ \A s \in Runs : ts[s] = IF s = r THEN u ELSE task[s]
    BY <1>1, <1>7 DEF With, BTTypeOK
  <1>. HIDE DEF ts
  <1>9. task' \in [Runs -> Tasks] /\ \A s \in Runs : Keeps(ts[s], task'[s])
    BY <1>5, <1>8, PruneKeeps
  <1>10. /\ task'[r].state = "ended" /\ task'[r].note = n
         /\ task'[r].killWaiters = task[r].killWaiters
         /\ \A s \in Runs \ {r} : Keeps(task[s], task'[s])
    BY <1>7, <1>8, <1>9 DEF Keeps
  <1>11. /\ DOMAIN tool = Kills \cup Waits /\ DOMAIN tool' = DOMAIN tool
         /\ \A c \in DOMAIN tool :
               /\ tool[c] \in Calls
               /\ tool'[c] = IF c \in hits THEN Done(c)
                             ELSE IF c \in Waiting(r) THEN Told(c) ELSE tool[c]
    BY <1>1, <1>2 DEF BTTypeOK, Exits
  <1>12. /\ hits \subseteq Waiting(r) /\ Waiting(r) \subseteq DOMAIN tool
         /\ \A w \in Waiting(r) : tool[w].pc = "waiting" /\ tool[w].of = r /\ tool[w].exit = FALSE
    <2>1. hits \subseteq Waiting(r) /\ Waiting(r) \subseteq DOMAIN tool
      BY <1>11 DEF Waiting
    <2>2. \A w \in Waiting(r) : tool[w].pc = "waiting" /\ tool[w].of = r
      BY DEF Waiting
    <2>3. \A w \in Waiting(r) : tool[w].exit \in BOOLEAN
      BY <2>1, <1>11 DEF Calls
    <2>4. \A w \in DOMAIN tool : tool[w].exit => tool[w].pc = "done"
      BY <1>1 DEF CallsOK
    <2>. QED
      BY <2>1, <2>2, <2>3, <2>4
  <1>13. /\ \A c \in hits : tool'[c] \in Calls /\ tool'[c].pc = "done" /\ ~tool'[c].exit
         /\ \A c \in told : /\ tool'[c] \in Calls /\ tool'[c].pc = "done" /\ tool'[c].exit
                            /\ tool'[c].of = r
         /\ \A c \in DOMAIN tool \ Waiting(r) : tool'[c] = tool[c]
    <2>1. ASSUME NEW c \in hits
          PROVE  tool'[c] \in Calls /\ tool'[c].pc = "done" /\ ~tool'[c].exit
      <3>1. tool'[c] = Done(c) /\ tool[c] \in Calls /\ tool[c].exit = FALSE
        BY <1>11, <1>12
      <3>. QED
        BY <3>1 DEF Done, Calls
    <2>2. ASSUME NEW c \in told
          PROVE  tool'[c] \in Calls /\ tool'[c].pc = "done" /\ tool'[c].exit /\ tool'[c].of = r
      <3>1. tool'[c] = Told(c) /\ tool[c] \in Calls /\ tool[c].of = r
        BY <1>11, <1>12
      <3>. QED
        BY <3>1 DEF Told, Calls
    <2>3. \A c \in DOMAIN tool \ Waiting(r) : tool'[c] = tool[c]
      BY <1>11, <1>12
    <2>. QED
      BY <2>1, <2>2, <2>3
  <1>14. tool' \in [Kills \cup Waits -> Calls]
    <2>1. \A c \in Kills \cup Waits : tool'[c] \in Calls
      BY <1>11, <1>12, <1>13
    <2>. QED
      BY <2>1, <1>2, <1>11 DEF Exits
  <1>15. BTTypeOK'
    BY <1>1, <1>9, <1>14 DEF BTTypeOK
  <1>16. SlotsOK'
    <2>1. \A s \in Runs : /\ task'[s].state = "running" /\ task'[s].reg =>
                                 task[s].state = "running" /\ task[s].reg
                          /\ task[s].state = "none" => task'[s].state = "none"
      BY <1>1, <1>10 DEF Keeps
    <2>. QED
      BY <2>1, <1>1, <1>9, SlotsStay
  <1>17. \A s \in Runs : Confirming(s)' = Confirming(s)
    BY <1>11, <1>12, <1>13 DEF Confirming
  <1>18. \A s \in Runs \ {r} : Tellers(s)' = Tellers(s)
    BY <1>11, <1>12, <1>13 DEF Tellers
  <1>19. Tellers(r)' = Confirming(r) \cup told
    <2>1. \A c \in DOMAIN tool : tool[c].of = r => ~tool[c].exit
      BY <1>1 DEF CallsOK
    <2>2. \A c \in DOMAIN tool : c \in Waiting(r) <=> c \in hits \/ c \in told
      BY <1>12
    <2>. QED
      BY <2>1, <2>2, <1>11, <1>12, <1>13 DEF Tellers, Confirming
  <1>20. ReportedOnce'
    <2>1. /\ n = "raised" => Tellers(r)' = {}
          /\ n = "suppressed" => Tellers(r)' # {}
      BY <1>1, <1>3, <1>19 DEF CallsOK
    <2>2. \A s \in Runs \ {r} : task'[s].note = task[s].note
      BY <1>10 DEF Keeps
    <2>. QED
      BY <2>1, <2>2, <1>1, <1>10, <1>18 DEF CallsOK, ReportedOnce
  <1>21. CallsOK'
    <2>1. ASSUME NEW c \in DOMAIN tool'
          PROVE  /\ tool'[c].exit => /\ tool'[c].pc = "done"
                                     /\ tool'[c].of \in Runs => task'[tool'[c].of].state = "ended"
                 /\ tool'[c].pc = "confirming" => /\ tool'[c].of \in Runs
                                                  /\ task'[tool'[c].of].state # "none"
      <3>1. CASE c \in hits
        BY <3>1, <1>13
      <3>2. CASE c \in told
        BY <3>2, <1>10, <1>13
      <3>3. CASE c \in DOMAIN tool \ Waiting(r)
        BY <3>3, <1>1, <1>10, <1>13 DEF CallsOK, Keeps
      <3>. QED
        BY <3>1, <3>2, <3>3, <1>11
    <2>2. ASSUME NEW s \in Runs
          PROVE  /\ task'[s].killWaiters = Cardinality(Confirming(s)')
                 /\ task'[s].state = "running" => (task'[s].inline <=> Confirming(s)' # {})
                 /\ task'[s].state # "ended" => task'[s].note = "no"
      BY <1>1, <1>10, <1>17 DEF CallsOK, Keeps
    <2>. QED
      BY <2>1, <2>2, <1>20 DEF CallsOK
  <1>22. \A s \in Runs : InHand(task'[s], disposed)
    <2>1. \A s \in Runs : InHand(ts[s], disposed)
      BY <1>7, <1>8 DEF BTInv
    <2>. QED
      BY <2>1, <1>1, <1>9 DEF Keeps, BTTypeOK
  <1>. QED
    BY <1>1, <1>15, <1>16, <1>21, <1>22 DEF BTInv

LEMMA KillGroupOf ==
    ASSUME BTTypeOK, NEW r \in Runs, NEW reason \in {"none", "kill", "dispose"}
    PROVE  Keeps(task[r], KillGroup(task[r], reason))
  BY KillGroupKeeps DEF BTTypeOK

\* The unread output is read, which changes nothing else.
LEMMA UnreadKeeps ==
    ASSUME NEW t \in Tasks, NEW b \in BOOLEAN
    PROVE  Keeps(t, [t EXCEPT !.unread = b])
  <1>. DEFINE u == [t EXCEPT !.unread = b]
  <1>1. u \in Tasks
    BY DEF Tasks
  <1>2. /\ u.state = t.state /\ u.note = t.note /\ u.killWaiters = t.killWaiters
        /\ u.reg = t.reg /\ u.inline = t.inline /\ u.discard = t.discard
        /\ u.esc = t.esc /\ u.cleanup = t.cleanup
    BY DEF Tasks
  <1>. HIDE DEF u
  <1>3. Keeps(t, u)
    BY <1>1, <1>2 DEF Keeps, InHand
  <1>. QED
    BY <1>3 DEF u

LEMMA DoneFacts ==
    ASSUME BTInv, NEW c \in DOMAIN tool, tool[c].pc \in {"ready", "waiting"}
    PROVE  /\ Done(c) \in Calls /\ Done(c).pc = "done" /\ Done(c).exit = FALSE
  BY DEF BTInv, BTTypeOK, CallsOK, Done, Calls

LEMMA KillAnsweredKeeps ==
    ASSUME BTInv, NEW r \in Runs, KillAnswered(r)
    PROVE  BTInv'
  <1>1. PICK confirmed \in {FALSE, posix} : Prune(With(r, AfterKill(task[r], confirmed)))
    BY DEF KillAnswered
  <1>2. task[r] \in Tasks /\ BTTypeOK
    BY DEF BTInv, BTTypeOK
  <1>3. Keeps(task[r], AfterKill(task[r], confirmed))
    <2>1. CASE confirmed \/ ~(task[r].tries + 1 < MaxEscalations)
      BY <2>1, <1>2, CleanedKeeps DEF AfterKill
    <2>2. CASE ~confirmed /\ task[r].tries + 1 < MaxEscalations
      <3>. DEFINE u == [task[r] EXCEPT !.esc = "timer", !.tries = task[r].tries + 1]
      <3>1. task[r].tries + 1 \in 0..(MaxEscalations - 1)
        BY <2>2, <1>2, BTAssumption DEF Tasks
      <3>2. u \in Tasks
        BY <3>1, <1>2 DEF Tasks
      <3>3. /\ u.state = task[r].state /\ u.note = task[r].note /\ u.reg = task[r].reg
            /\ u.killWaiters = task[r].killWaiters /\ u.inline = task[r].inline /\ u.esc = "timer"
        BY <1>2 DEF Tasks
      <3>4. AfterKill(task[r], confirmed) = u
        BY <2>2 DEF AfterKill
      <3>. HIDE DEF u
      <3>. QED
        BY <3>2, <3>3, <3>4 DEF Keeps, InHand
    <2>. QED
      BY <2>1, <2>2
  <1>4. task' \in [Runs -> Tasks] /\ \A s \in Runs : Keeps(task[s], task'[s])
    BY <1>1, <1>2, <1>3, WithPruneKeeps
  <1>. QED
    BY <1>4, OnlyTasksStay DEF KillAnswered

LEMMA EscalateKeeps ==
    ASSUME BTInv, NEW r \in Runs, Escalate(r)
    PROVE  BTInv'
  <1>. DEFINE u == [task[r] EXCEPT !.esc = "kill"]
  <1>1. task[r] \in Tasks /\ BTTypeOK
    BY DEF BTInv, BTTypeOK
  <1>2. u \in Tasks
    BY <1>1 DEF Tasks
  <1>3. /\ u.state = task[r].state /\ u.note = task[r].note /\ u.reg = task[r].reg
        /\ u.killWaiters = task[r].killWaiters /\ u.inline = task[r].inline /\ u.esc = "kill"
    BY <1>1 DEF Tasks
  <1>4. task' = With(r, u)
    BY DEF Escalate
  <1>. HIDE DEF u
  <1>5. Keeps(task[r], u)
    BY <1>2, <1>3 DEF Keeps, InHand
  <1>6. task' \in [Runs -> Tasks] /\ \A s \in Runs : Keeps(task[s], task'[s])
    BY <1>1, <1>4, <1>5, WithKeeps
  <1>. QED
    BY <1>6, OnlyTasksStay DEF Escalate

LEMMA GroupClosedKeeps ==
    ASSUME BTInv, NEW r \in Runs, GroupClosed(r)
    PROVE  BTInv'
  <1>1. PICK result \in {"complete", "unverified"} : Prune(With(r, Cleaned(task[r], result)))
    BY DEF GroupClosed
  <1>2. task[r] \in Tasks /\ BTTypeOK
    BY DEF BTInv, BTTypeOK
  <1>3. task' \in [Runs -> Tasks] /\ \A s \in Runs : Keeps(task[s], task'[s])
    BY <1>1, <1>2, CleanedKeeps, WithPruneKeeps
  <1>. QED
    BY <1>3, OnlyTasksStay DEF GroupClosed

LEMMA ReadKeeps ==
    ASSUME BTInv, NEW r \in Runs, Read(r)
    PROVE  BTInv'
  <1>1. task[r] \in Tasks /\ BTTypeOK
    BY DEF BTInv, BTTypeOK
  <1>2. task' \in [Runs -> Tasks] /\ \A s \in Runs : Keeps(task[s], task'[s])
    BY <1>1, UnreadKeeps, WithKeeps DEF Read, ReadUnread
  <1>. QED
    BY <1>2, OnlyTasksStay DEF Read

LEMMA StopKeeps ==
    ASSUME BTInv, NEW r \in Runs, Stop(r)
    PROVE  BTInv'
  <1>1. BTTypeOK
    BY DEF BTInv
  <1>2. task' \in [Runs -> Tasks] /\ \A s \in Runs : Keeps(task[s], task'[s])
    BY <1>1, KillGroupOf, WithKeeps DEF Stop
  <1>. QED
    BY <1>2, OnlyTasksStay DEF Stop

LEMMA SessionGoneKeeps ==
    ASSUME BTInv, SessionGone
    PROVE  BTInv'
  <1>1. BTTypeOK /\ \A r \in Runs : task[r] \in Tasks
    BY DEF BTInv, BTTypeOK
  <1>2. \A r \in Runs : Keeps(task[r], IF task[r].reg THEN DiscardTask(task[r], "kill") ELSE task[r])
    BY <1>1, DiscardTaskKeeps, KeepsItself
  <1>3. task' = [r \in Runs |-> IF task[r].reg THEN DiscardTask(task[r], "kill") ELSE task[r]]
    BY DEF SessionGone
  <1>4. task' \in [Runs -> Tasks] /\ \A s \in Runs : Keeps(task[s], task'[s])
    BY <1>2, <1>3 DEF Keeps
  <1>. QED
    BY <1>4, OnlyTasksStay DEF SessionGone

\* Of one call, which has not told of an end and does not wait for one.
LEMMA OneCallQuiet ==
    ASSUME BTInv, NEW c \in DOMAIN tool, NEW call \in Calls, tool' = [tool EXCEPT ![c] = call],
           tool[c].pc \in {"ready", "waiting"}, call.pc \in {"waiting", "done"}, ~call.exit
    PROVE  tool' \in [Kills \cup Waits -> Calls] /\ \A d \in DOMAIN tool : Quietly(d)
  BY DEF BTInv, BTTypeOK, Quietly

LEMMA OutputKeeps ==
    ASSUME BTInv, NEW r \in Runs, Output(r)
    PROVE  BTInv'
  <1>1. PICK hit \in {w \in Waiting(r) : tool[w].pattern} : tool' = [tool EXCEPT ![hit] = Done(hit)]
    BY DEF Output
  <1>2. hit \in DOMAIN tool /\ tool[hit].pc = "waiting"
    BY DEF Waiting, BTInv, BTTypeOK
  <1>3. tool' \in [Kills \cup Waits -> Calls] /\ \A d \in DOMAIN tool : Quietly(d)
    BY <1>1, <1>2, DoneFacts, OneCallQuiet
  <1>4. task' \in [Runs -> Tasks] /\ \A s \in Runs : Keeps(task[s], task'[s])
    BY KeepsItself DEF Output, BTInv, BTTypeOK
  <1>. QED
    BY <1>3, <1>4, TasksStay DEF Output

LEMMA EndWaitKeeps ==
    ASSUME BTInv, NEW w \in Waits, EndWait(w)
    PROVE  BTInv'
  <1>1. w \in DOMAIN tool /\ tool[w].pc = "waiting" /\ tool' = [tool EXCEPT ![w] = Done(w)]
    BY DEF EndWait, BTInv, BTTypeOK
  <1>2. tool' \in [Kills \cup Waits -> Calls] /\ \A d \in DOMAIN tool : Quietly(d)
    BY <1>1, DoneFacts, OneCallQuiet
  <1>3. task' \in [Runs -> Tasks] /\ \A s \in Runs : Keeps(task[s], task'[s])
    BY KeepsItself DEF EndWait, BTInv, BTTypeOK
  <1>. QED
    BY <1>2, <1>3, TasksStay DEF EndWait

LEMMA StartWaitKeeps ==
    ASSUME BTInv, NEW w \in Waits, NEW r \in Runs, StartWait(w, r)
    PROVE  BTInv'
  <1>1. /\ w \in DOMAIN tool /\ tool[w].pc = "ready" /\ task[r] \in Tasks /\ BTTypeOK
        /\ UNCHANGED <<run, aborted, pendingRuns, disposed, posix>>
    BY DEF StartWait, BTInv, BTTypeOK
  <1>2. task' = task \/ ReadUnread(r)
    BY DEF StartWait
  <1>3. task' \in [Runs -> Tasks] /\ \A s \in Runs : Keeps(task[s], task'[s])
    <2>1. CASE task' = task
      BY <2>1, <1>1, KeepsItself DEF BTTypeOK
    <2>2. CASE ReadUnread(r)
      BY <2>2, <1>1, UnreadKeeps, WithKeeps DEF ReadUnread
    <2>. QED
      BY <1>2, <2>1, <2>2
  <1>4. \/ tool' = [tool EXCEPT ![w] = Done(w)]
        \/ \E pattern \in BOOLEAN :
              tool' = [tool EXCEPT ![w] = [Idle EXCEPT !.pc = "waiting", !.of = r, !.pattern = pattern]]
    BY DEF StartWait
  <1>5. tool' \in [Kills \cup Waits -> Calls] /\ \A d \in DOMAIN tool : Quietly(d)
    <2>1. CASE tool' = [tool EXCEPT ![w] = Done(w)]
      BY <2>1, <1>1, DoneFacts, OneCallQuiet
    <2>2. ASSUME NEW pattern \in BOOLEAN,
                 tool' = [tool EXCEPT ![w] = [Idle EXCEPT !.pc = "waiting", !.of = r,
                                                          !.pattern = pattern]]
          PROVE  tool' \in [Kills \cup Waits -> Calls] /\ \A d \in DOMAIN tool : Quietly(d)
      <3>. DEFINE call == [Idle EXCEPT !.pc = "waiting", !.of = r, !.pattern = pattern]
      <3>1. call \in Calls /\ call.pc = "waiting" /\ call.exit = FALSE
        BY DEF Calls, Idle
      <3>. HIDE DEF call
      <3>. QED
        BY <3>1, <2>2, <1>1, OneCallQuiet DEF call
    <2>. QED
      BY <1>4, <2>1, <2>2
  <1>. QED
    BY <1>1, <1>3, <1>5, TasksStay

LEMMA StartKillKeeps ==
    ASSUME BTInv, NEW k \in Kills, NEW r \in Runs, StartKill(k, r)
    PROVE  BTInv'
  <1>. DEFINE g == KillGroup(task[r], "kill")
  <1>1. /\ k \in DOMAIN tool /\ tool[k].pc = "ready" /\ task[r] \in Tasks /\ task[r].reg
        /\ BTTypeOK /\ CallsOK /\ SlotsOK
        /\ UNCHANGED <<run, aborted, pendingRuns, disposed, posix>>
    BY DEF StartKill, BTInv, BTTypeOK
  <1>2. Keeps(task[r], g) /\ g \in Tasks
    BY <1>1, KillGroupOf DEF Keeps
  <1>3. CASE Over(task[r])
    <2>1. tool' = [tool EXCEPT ![k] = Done(k)] /\ task' = With(r, [g EXCEPT !.unread = FALSE])
      BY <1>3 DEF StartKill
    <2>. HIDE DEF g
    <2>2. tool' \in [Kills \cup Waits -> Calls] /\ \A d \in DOMAIN tool : Quietly(d)
      BY <2>1, <1>1, DoneFacts, OneCallQuiet
    <2>3. Keeps(task[r], [g EXCEPT !.unread = FALSE])
      BY <1>2, UnreadKeeps, KeepsTransitive
    <2>4. task' \in [Runs -> Tasks] /\ \A s \in Runs : Keeps(task[s], task'[s])
      BY <2>1, <2>3, <1>1, WithKeeps
    <2>. QED
      BY <2>2, <2>4, <1>1, TasksStay
  <1>4. CASE ~Over(task[r])
    <2>. DEFINE call == [Idle EXCEPT !.pc = "confirming", !.of = r]
                u == [g EXCEPT !.inline = TRUE, !.killWaiters = task[r].killWaiters + 1]
    <2>1. tool' = [tool EXCEPT ![k] = call] /\ task' = With(r, u)
      BY <1>4 DEF StartKill
    <2>. HIDE DEF g
    <2>2. /\ call \in Calls /\ call.pc = "confirming" /\ call.of = r /\ call.exit = FALSE
      BY DEF Calls, Idle
    <2>. HIDE DEF call
    <2>3. /\ u \in Tasks /\ u.state = g.state /\ u.note = g.note /\ u.reg = g.reg
          /\ u.inline = TRUE /\ u.killWaiters = task[r].killWaiters + 1
          /\ u.discard = g.discard /\ u.esc = g.esc /\ u.cleanup = g.cleanup
      <3>1. task[r].killWaiters + 1 \in Int
        BY <1>1 DEF Tasks
      <3>. QED
        BY <3>1, <1>2 DEF Tasks
    <2>. HIDE DEF u
    <2>4. /\ g.state = task[r].state /\ g.note = task[r].note
          /\ task[r].state # "ended" /\ task[r].state # "none"
      <3>1. task[r].state # "ended"
        BY <1>4 DEF Over
      <3>2. g.state = task[r].state /\ g.note = task[r].note
        BY <1>2 DEF Keeps
      <3>3. task[r].state # "none"
        BY <1>1 DEF BTInv, InHand
      <3>. QED
        BY <3>1, <3>2, <3>3
    <2>5. \A s \in Runs : task'[s] = IF s = r THEN u ELSE task[s]
      BY <2>1, <1>1 DEF With, BTTypeOK
    <2>6. task' \in [Runs -> Tasks]
      BY <2>1, <2>3, <1>1 DEF With, BTTypeOK
    <2>7. /\ tool' \in [Kills \cup Waits -> Calls] /\ DOMAIN tool' = DOMAIN tool
          /\ \A c \in DOMAIN tool : tool'[c] = IF c = k THEN call ELSE tool[c]
      BY <2>1, <2>2, <1>1 DEF BTTypeOK
    <2>8. tool[k].exit = FALSE
      <3>1. tool[k].exit \in BOOLEAN
        BY <1>1 DEF BTTypeOK, Calls
      <3>. QED
        BY <3>1, <1>1 DEF CallsOK
    <2>9. /\ Confirming(r)' = Confirming(r) \cup {k} /\ k \notin Confirming(r)
          /\ \A s \in Runs \ {r} : Confirming(s)' = Confirming(s)
      BY <2>2, <2>7, <1>1 DEF Confirming
    <2>10. \A s \in Runs \ {r} : Tellers(s)' = Tellers(s)
      BY <2>2, <2>7, <2>8, <1>1 DEF Tellers
    <2>11. Cardinality(Confirming(r)') = Cardinality(Confirming(r)) + 1
      <3>1. Confirming(r) \subseteq Kills \cup Waits /\ IsFiniteSet(Kills \cup Waits)
        BY <1>1, BTAssumption, FS_Union DEF Confirming, BTTypeOK
      <3>2. IsFiniteSet(Confirming(r))
        BY <3>1, FS_Subset
      <3>. QED
        BY <3>2, <2>9, FS_AddElement
    <2>12. CallsOK'
      <3>1. ASSUME NEW c \in DOMAIN tool'
            PROVE  /\ tool'[c].exit => /\ tool'[c].pc = "done"
                                       /\ tool'[c].of \in Runs => task'[tool'[c].of].state = "ended"
                   /\ tool'[c].pc = "confirming" => /\ tool'[c].of \in Runs
                                                    /\ task'[tool'[c].of].state # "none"
        <4>1. CASE c = k
          BY <4>1, <2>2, <2>3, <2>4, <2>5, <2>7
        <4>2. CASE c # k
          <5>1. tool'[c] = tool[c] /\ \A s \in Runs : task'[s].state = task[s].state
            BY <4>2, <2>3, <2>4, <2>5, <2>7
          <5>. QED
            BY <5>1, <2>7, <1>1 DEF CallsOK
        <4>. QED
          BY <4>1, <4>2
      <3>2. ASSUME NEW s \in Runs
            PROVE  /\ task'[s].killWaiters = Cardinality(Confirming(s)')
                   /\ task'[s].state = "running" => (task'[s].inline <=> Confirming(s)' # {})
                   /\ task'[s].state # "ended" => task'[s].note = "no"
        <4>1. CASE s = r
          <5>1. task'[s] = u /\ Confirming(s)' # {}
            BY <4>1, <2>5, <2>9
          <5>2. task[r].killWaiters = Cardinality(Confirming(r)) /\ task[r].note = "no"
            BY <2>4, <1>1 DEF CallsOK
          <5>. QED
            BY <4>1, <5>1, <5>2, <2>3, <2>4, <2>11
        <4>2. CASE s # r
          BY <4>2, <2>5, <2>9, <1>1 DEF CallsOK
        <4>. QED
          BY <4>1, <4>2
      <3>3. ReportedOnce'
        <4>1. task'[r].note = "no"
          BY <2>3, <2>4, <2>5, <1>1 DEF CallsOK
        <4>2. \A s \in Runs \ {r} : task'[s].note = task[s].note /\ Tellers(s)' = Tellers(s)
          BY <2>5, <2>10
        <4>. QED
          BY <4>1, <4>2, <1>1 DEF CallsOK, ReportedOnce
      <3>. QED
        BY <3>1, <3>2, <3>3 DEF CallsOK
    <2>13. BTTypeOK'
      BY <2>6, <2>7, <1>1 DEF BTTypeOK
    <2>14. SlotsOK'
      <3>1. \A s \in Runs : /\ task'[s].state = "running" /\ task'[s].reg =>
                                   task[s].state = "running" /\ task[s].reg
                            /\ task[s].state = "none" => task'[s].state = "none"
        BY <2>3, <2>4, <2>5, <1>1
      <3>. QED
        BY <3>1, <2>6, <1>1, SlotsStay
    <2>15. \A s \in Runs : InHand(task'[s], disposed)
      <3>1. InHand(g, disposed)
        BY <1>1, <1>2 DEF BTInv, Keeps, BTTypeOK
      <3>2. InHand(u, disposed)
        BY <3>1, <2>3 DEF InHand
      <3>. QED
        BY <3>2, <2>5 DEF BTInv
    <2>. QED
      BY <2>12, <2>13, <2>14, <2>15, <1>1 DEF BTInv
  <1>. QED
    BY <1>3, <1>4

LEMMA EndKillKeeps ==
    ASSUME BTInv, NEW k \in Kills, EndKill(k)
    PROVE  BTInv'
  <1>1. /\ k \in DOMAIN tool /\ tool[k].pc = "confirming" /\ tool[k] \in Calls
        /\ BTTypeOK /\ CallsOK /\ SlotsOK
        /\ UNCHANGED <<run, aborted, pendingRuns, disposed, posix>>
    BY DEF EndKill, BTInv, BTTypeOK
  <1>2. PICK r \in Runs : r = tool[k].of
    BY <1>1 DEF CallsOK
  <1>3. task[r] \in Tasks /\ task[r].state # "none"
    BY <1>1, <1>2 DEF BTTypeOK, CallsOK
  <1>. DEFINE call == IF Over(task[r]) THEN Told(k) ELSE Done(k)
              inl == task[r].inline /\ ~Unsuppressed(task[r])
              unr == task[r].unread /\ ~Over(task[r])
              u == [task[r] EXCEPT !.killWaiters = task[r].killWaiters - 1, !.inline = inl,
                                   !.unread = unr]
  <1>4. tool' = [tool EXCEPT ![k] = call] /\ task' = With(r, u)
    BY <1>2 DEF EndKill
  <1>5. tool[k].exit = FALSE
    <2>1. tool[k].exit \in BOOLEAN
      BY <1>1 DEF Calls
    <2>. QED
      BY <2>1, <1>1 DEF CallsOK
  <1>6. /\ call \in Calls /\ call.pc = "done"
        /\ Over(task[r]) => call.exit /\ call.of = r
        /\ ~Over(task[r]) => call.exit = FALSE
    BY <1>1, <1>2, <1>5 DEF Told, Done, Calls
  <1>. HIDE DEF call
  <1>7. inl \in BOOLEAN /\ unr \in BOOLEAN /\ task[r].killWaiters - 1 \in Int
    BY <1>3 DEF Tasks
  <1>8. inl <=> task[r].inline /\ ~(task[r].state # "ended" /\ task[r].killWaiters = 1)
    BY DEF Unsuppressed, Over
  <1>. HIDE DEF inl, unr
  <1>9. /\ u \in Tasks /\ u.state = task[r].state /\ u.note = task[r].note /\ u.reg = task[r].reg
        /\ u.inline = inl /\ u.killWaiters = task[r].killWaiters - 1
        /\ u.discard = task[r].discard /\ u.esc = task[r].esc /\ u.cleanup = task[r].cleanup
    BY <1>3, <1>7 DEF Tasks
  <1>. HIDE DEF u
  <1>10. \A s \in Runs : task'[s] = IF s = r THEN u ELSE task[s]
    BY <1>1, <1>4 DEF With, BTTypeOK
  <1>11. task' \in [Runs -> Tasks]
    BY <1>1, <1>4, <1>9 DEF With, BTTypeOK
  <1>12. /\ tool' \in [Kills \cup Waits -> Calls] /\ DOMAIN tool' = DOMAIN tool
         /\ \A c \in DOMAIN tool : tool'[c] = IF c = k THEN call ELSE tool[c]
    BY <1>1, <1>4, <1>6 DEF BTTypeOK
  <1>13. /\ Confirming(r)' = Confirming(r) \ {k} /\ k \in Confirming(r)
         /\ \A s \in Runs \ {r} : Confirming(s)' = Confirming(s)
    BY <1>1, <1>2, <1>6, <1>12 DEF Confirming
  <1>14. /\ IsFiniteSet(Confirming(r)) /\ Cardinality(Confirming(r)) \in Nat
         /\ Cardinality(Confirming(r)') = Cardinality(Confirming(r)) - 1
         /\ IsFiniteSet(Confirming(r)')
    <2>1. Confirming(r) \subseteq Kills \cup Waits /\ IsFiniteSet(Kills \cup Waits)
      BY <1>1, BTAssumption, FS_Union DEF Confirming, BTTypeOK
    <2>2. IsFiniteSet(Confirming(r))
      BY <2>1, FS_Subset
    <2>. QED
      BY <2>2, <1>13, FS_RemoveElement, FS_CardinalityType
  <1>15. Confirming(r)' # {} <=> Cardinality(Confirming(r)) # 1
    <2>1. Cardinality(Confirming(r)') = 0 <=> Confirming(r)' = {}
      BY <1>14, FS_EmptySet
    <2>. QED
      BY <2>1, <1>14
  <1>16. \A s \in Runs : task'[s].state = task[s].state /\ task'[s].note = task[s].note
    BY <1>9, <1>10
  <1>17. /\ \A s \in Runs \ {r} : Tellers(s)' = Tellers(s)
         /\ task[r].state = "ended" => Tellers(r)' = Tellers(r)
    <2>1. \A s \in Runs \ {r} : Tellers(s)' = Tellers(s)
      <3>1. call.exit => call.of = r
        BY <1>6
      <3>. QED
        BY <3>1, <1>1, <1>2, <1>5, <1>6, <1>12 DEF Tellers
    <2>2. task[r].state = "ended" => Tellers(r)' = Tellers(r)
      BY <1>1, <1>2, <1>6, <1>12 DEF Tellers, Over
    <2>. QED
      BY <2>1, <2>2
  <1>18. CallsOK'
    <2>1. ASSUME NEW c \in DOMAIN tool'
          PROVE  /\ tool'[c].exit => /\ tool'[c].pc = "done"
                                     /\ tool'[c].of \in Runs => task'[tool'[c].of].state = "ended"
                 /\ tool'[c].pc = "confirming" => /\ tool'[c].of \in Runs
                                                  /\ task'[tool'[c].of].state # "none"
      <3>1. CASE c = k
        BY <3>1, <1>6, <1>12, <1>16 DEF Over
      <3>2. CASE c # k
        BY <3>2, <1>1, <1>12, <1>16 DEF CallsOK
      <3>. QED
        BY <3>1, <3>2
    <2>2. ASSUME NEW s \in Runs
          PROVE  /\ task'[s].killWaiters = Cardinality(Confirming(s)')
                 /\ task'[s].state = "running" => (task'[s].inline <=> Confirming(s)' # {})
                 /\ task'[s].state # "ended" => task'[s].note = "no"
      <3>1. CASE s = r
        <4>1. /\ task[r].killWaiters = Cardinality(Confirming(r))
              /\ task[r].state = "running" => (task[r].inline <=> Confirming(r) # {})
              /\ task[r].state # "ended" => task[r].note = "no"
          BY <1>1 DEF CallsOK
        <4>2. task'[r] = u
          BY <1>10
        <4>3. task'[r].killWaiters = Cardinality(Confirming(r)')
          BY <4>1, <4>2, <1>9, <1>14
        <4>4. task'[r].state = "running" => (task'[r].inline <=> Confirming(r)' # {})
          BY <4>1, <4>2, <1>8, <1>9, <1>13, <1>15
        <4>. QED
          BY <3>1, <4>1, <4>3, <4>4, <1>16
      <3>2. CASE s # r
        BY <3>2, <1>1, <1>10, <1>13 DEF CallsOK
      <3>. QED
        BY <3>1, <3>2
    <2>3. ReportedOnce'
      <3>1. task[r].state # "ended" => task[r].note = "no"
        BY <1>1 DEF CallsOK
      <3>. QED
        BY <3>1, <1>1, <1>16, <1>17 DEF CallsOK, ReportedOnce
    <2>. QED
      BY <2>1, <2>2, <2>3 DEF CallsOK
  <1>19. BTTypeOK'
    BY <1>1, <1>11, <1>12 DEF BTTypeOK
  <1>20. SlotsOK'
    <2>1. \A s \in Runs : /\ task'[s].state = "running" /\ task'[s].reg =>
                                 task[s].state = "running" /\ task[s].reg
                          /\ task[s].state = "none" => task'[s].state = "none"
      BY <1>9, <1>10
    <2>. QED
      BY <2>1, <1>1, <1>11, SlotsStay
  <1>21. \A s \in Runs : InHand(task'[s], disposed)
    BY <1>9, <1>10 DEF BTInv, InHand
  <1>. QED
    BY <1>1, <1>18, <1>19, <1>20, <1>21 DEF BTInv

LEMMA DisposeKeeps ==
    ASSUME BTInv, Dispose
    PROVE  BTInv'
  <1>1. /\ BTTypeOK /\ CallsOK /\ SlotsOK /\ \A r \in Runs : task[r] \in Tasks
        /\ disposed' = TRUE /\ pendingRuns' = 0
        /\ UNCHANGED <<run, aborted, tool, posix>>
    BY DEF Dispose, BTInv, BTTypeOK
  <1>2. \A r \in Runs :
           task'[r] = IF task[r].reg THEN KillGroup(task[r], "dispose") ELSE task[r]
    BY DEF Dispose
  <1>3. \A r \in Runs : /\ Keeps(task[r], task'[r])
                        /\ Settled(task'[r]) \/ ~task'[r].reg
    BY <1>1, <1>2, KillGroupKeeps, KeepsItself
  <1>4. task' \in [Runs -> Tasks]
    BY <1>3 DEF Dispose, Keeps
  <1>5. BTTypeOK'
    BY <1>1, <1>4 DEF BTTypeOK
  <1>6. CallsOK'
    <2>1. tool' \in [Kills \cup Waits -> Calls] /\ \A c \in DOMAIN tool : Quietly(c)
      BY <1>1 DEF BTTypeOK, Quietly
    <2>. QED
      BY <2>1, <1>1, <1>3, KeepsMoves, CallsStay
  <1>7. SlotsOK'
    <2>1. Running(task') \subseteq Running(task) /\ Running(task) \subseteq Runs
      BY <1>3 DEF Running, Keeps
    <2>2. /\ Cardinality(Running(task')) <= Cardinality(Running(task))
          /\ Cardinality(Running(task)) \in Nat /\ Cardinality(Running(task')) \in Nat
      BY <2>1, BTAssumption, FS_Subset, FS_CardinalityType
    <2>3. SlotsHold'
      BY <2>2, <1>1, BTAssumption DEF SlotsOK, SlotsHold, BTTypeOK
    <2>4. \A r \in Runs : run'[r] # "live" => task'[r].state = "none"
      BY <1>1, <1>3 DEF SlotsOK, Keeps
    <2>. QED
      BY <2>3, <2>4, <1>1 DEF SlotsOK
  <1>8. \A r \in Runs : InHand(task'[r], disposed')
    BY <1>3 DEF BTInv, Keeps, InHand, Settled
  <1>. QED
    BY <1>5, <1>6, <1>7, <1>8 DEF BTInv

LEMMA TasksStep ==
    ASSUME BTInv, BTNext
    PROVE  BTInv'
  BY StartRunKeeps, AbortRunKeeps, ResumeKeeps, SpawnedKeeps, OutputKeeps, FinalizeKeeps, ReadKeeps,
     EscalateKeeps, KillAnsweredKeeps, GroupClosedKeeps, StopKeeps, StartKillKeeps, StartWaitKeeps,
     EndKillKeeps, EndWaitKeeps, SessionGoneKeeps, DisposeKeeps
     DEF BTNext

\* The end of a command is reported once, the session's cap holds, and no task is
\* forgotten half killed.
THEOREM TasksInHandHolds == BTSpec => []TasksInHand
  <1>1. BTInit => BTInv
    <2>. SUFFICES ASSUME BTInit
                  PROVE  BTInv
      OBVIOUS
    <2>1. NoTask \in Tasks
      <3>1. 0 \in 0..(MaxEscalations - 1)
        BY BTAssumption
      <3>. QED
        BY <3>1 DEF NoTask, Tasks
    <2>2. Idle \in Calls
      BY DEF Idle, Calls
    <2>3. BTTypeOK
      BY <2>1, <2>2 DEF BTInit, BTTypeOK
    <2>4. /\ NoTask.state = "none" /\ NoTask.killWaiters = 0 /\ NoTask.note = "no" /\ NoTask.reg = FALSE
          /\ Idle.pc = "ready" /\ Idle.exit = FALSE
      BY DEF NoTask, Idle
    <2>5. \A r \in Runs : Confirming(r) = {} /\ Cardinality(Confirming(r)) = 0
      BY <2>4, FS_EmptySet DEF Confirming, BTInit
    <2>6. CallsOK
      BY <2>4, <2>5 DEF BTInit, CallsOK, ReportedOnce
    <2>7. Reserved = {} /\ Running(task) = {}
      BY <2>4 DEF BTInit, Reserved, OnTheWay, Running
    <2>8. SlotsOK
      BY <2>4, <2>7, FS_EmptySet, BTAssumption DEF SlotsOK, SlotsHold, BTInit
    <2>9. \A r \in Runs : InHand(task[r], disposed)
      BY <2>4 DEF InHand, BTInit
    <2>. QED
      BY <2>3, <2>6, <2>8, <2>9 DEF BTInv
  <1>2. BTInv /\ [BTNext]_btVars => BTInv'
    <2>1. ASSUME BTInv, UNCHANGED btVars
          PROVE  BTInv'
      <3>1. task' \in [Runs -> Tasks] /\ \A s \in Runs : Keeps(task[s], task'[s])
        BY <2>1, KeepsItself DEF btVars, BTInv, BTTypeOK
      <3>. QED
        BY <2>1, <3>1, OnlyTasksStay DEF btVars
    <2>. QED
      BY <2>1, TasksStep
  <1>3. BTInv => TasksInHand
    <2>. SUFFICES ASSUME BTInv
                  PROVE  TasksInHand
      OBVIOUS
    <2>1. ReportedOnce /\ SlotsHold
      BY DEF BTInv, CallsOK, SlotsOK
    <2>2. \A r \in Runs : task[r].tries < MaxEscalations
      BY BTAssumption DEF BTInv, BTTypeOK, Tasks
    <2>3. KillsInHand
      BY <2>2 DEF BTInv, InHand, KillsInHand
    <2>. QED
      BY <2>1, <2>3 DEF TasksInHand
  <1>. QED
    BY <1>1, <1>2, <1>3, PTL DEF BTSpec
-----------------------------------------------------------------------------
(* TaskChannel: ListsAreTrue and KillsNotEaten.                            *)

Said == {"absent", "running", "ended", "orphaned", "no file"}

TCTypeOK ==
    /\ srv \in [Servers -> {"off", "adopting", "loaded", "up", "closing", "leaving", "gone", "crashed"}]
    /\ bg \in [Servers -> {"absent", "running", "ended"}]
    /\ debris \in [Servers -> SUBSET Servers]
    /\ file \in [Servers -> [Servers -> Said]] /\ copy \in [Names -> [Servers -> Said]]
    /\ job \in [Servers -> [pc : {"idle", "write", "sync", "current", "older"},
                            text : [Servers -> Said]]]
    /\ asked \subseteq Servers /\ owner \in Servers \cup {0}
    /\ kills \in [Names -> SUBSET [task : Servers, stale : BOOLEAN]]

\* What a server says of the others: only that a dead one's task is an orphan.
Speaks(f, s) == \A t \in Servers \ {s} : \/ f[t] = "absent"
                                         \/ f[t] = "orphaned" /\ Dead(t)

\* The file of a server with nothing queued says what is so, or is about to.
FilesOK(s) ==
    /\ file[s] = NoFile \/ Speaks(file[s], s)
    /\ job[s].pc = "write" => Speaks(job[s].text, s)
    /\ \A t \in debris[s] : Dead(t) /\ t # s
    /\ srv[s] = "up" /\ s \notin asked =>
          IF job[s].pc = "write" THEN job[s].text = Snapshot(s) ELSE file[s] = Snapshot(s)
    /\ srv[s] \in {"leaving", "gone"} => file[s] = NoFile
    /\ srv[s] = "leaving" => job[s].pc \notin {"idle", "write"}
    /\ srv[s] \in {"off", "adopting", "loaded"} => job[s].pc = "idle"

\* A live server that writes the copies.
Holds(s) == job[s].pc \in {"current", "older"} /\ ~Dead(s)

\* Nothing is left to write, but for the copies.
Clean == asked = {} /\ \A s \in Servers : job[s].pc = "idle" \/ Holds(s)

\* One server at a time writes the copies, and it writes what the files say.
CopiesOK ==
    /\ \A s \in Servers : Holds(s) => owner = s
    /\ Clean =>
          /\ \A s \in Servers :
                Holds(s) => /\ job[s].text = Merged
                            /\ job[s].pc = "older" => copy["current"] = CopyOf(Merged)
          /\ (\A s \in Servers : job[s].pc = "idle") =>
                copy["current"] = CopyOf(Merged) /\ copy["older"] = CopyOf(Merged)

TCInv == TCTypeOK /\ (\A s \in Servers : FilesOK(s)) /\ CopiesOK

LEMMA TextFacts ==
    ASSUME TCTypeOK
    PROVE  /\ Nothing \in [Servers -> Said] /\ NoFile \in [Servers -> Said]
           /\ \A s \in Servers : Snapshot(s) \in [Servers -> Said]
           /\ \A f \in [Servers -> Said] : CopyOf(f) \in [Servers -> Said]
  BY DEF TCTypeOK, Nothing, NoFile, Snapshot, Said, CopyOf

\* The first of the files that speak of a task.
LEMMA MergedFacts ==
    ASSUME TCTypeOK
    PROVE  /\ Merged \in [Servers -> Said]
           /\ \A t \in Servers : \A s \in Written :
                 file[s][t] # "absent" =>
                    \E o \in Written : file[o][t] # "absent" /\ Merged[t] = file[o][t]
           /\ \A t \in Servers : (\A s \in Written : file[s][t] = "absent") => Merged[t] = "absent"
  <1>. DEFINE Says(t) == {s \in Written : file[s][t] # "absent"}
              First(t) == CHOOSE s \in Says(t) : \A o \in Says(t) : s <= o
  <1>1. Merged = [t \in Servers |-> IF Says(t) = {} THEN "absent" ELSE file[First(t)][t]]
    BY DEF Merged
  <1>2. ASSUME NEW t \in Servers, Says(t) # {}
        PROVE  First(t) \in Says(t)
    <2>1. Says(t) \in SUBSET Servers
      BY DEF Written
    <2>2. \E s \in Says(t) : \A o \in Says(t) : s <= o
      BY <2>1, <1>2, TCAssumption
    <2>. QED
      BY <2>2
  <1>3. \A t \in Servers : Says(t) # {} => First(t) \in Written /\ file[First(t)][t] # "absent"
    BY <1>2
  <1>4. \A t \in Servers : First(t) \in Written => file[First(t)][t] \in Said
    BY DEF Written, TCTypeOK
  <1>. HIDE DEF First
  <1>5. Merged \in [Servers -> Said]
    BY <1>1, <1>3, <1>4 DEF Said
  <1>. QED
    BY <1>1, <1>3, <1>5

\* What a step has to show of one server's file.
LEMMA FilesGoOn ==
    ASSUME NEW t \in Servers, NEW f, NEW j, file'[t] = f, job'[t] = j,
           \A o \in Servers : Dead(o) => Dead(o)',
           f = NoFile \/ Speaks(f, t), j.pc = "write" => Speaks(j.text, t),
           \A o \in debris'[t] : o \in Servers /\ Dead(o) /\ o # t,
           srv'[t] = "up" /\ t \notin asked' =>
              /\ bg'[t] = bg[t] /\ debris'[t] = debris[t]
              /\ IF j.pc = "write" THEN j.text = Snapshot(t) ELSE f = Snapshot(t),
           srv'[t] \in {"leaving", "gone"} => f = NoFile,
           srv'[t] = "leaving" => j.pc \notin {"idle", "write"},
           srv'[t] \in {"off", "adopting", "loaded"} => j.pc = "idle"
    PROVE  FilesOK(t)'
  <1>1. Speaks(f, t) => Speaks(file[t], t)'
    BY DEF Speaks
  <1>2. Speaks(j.text, t) => Speaks(job[t].text, t)'
    BY DEF Speaks
  <1>3. bg'[t] = bg[t] /\ debris'[t] = debris[t] => Snapshot(t)' = Snapshot(t)
    BY DEF Snapshot
  <1>. QED
    BY <1>1, <1>2, <1>3 DEF FilesOK

\* A server that the step does not concern.
LEMMA OthersGoOn ==
    ASSUME TCInv, NEW t \in Servers, file'[t] = file[t] \/ (file'[t] = NoFile /\ Dead(t)),
           job'[t] = job[t], debris'[t] = debris[t],
           srv'[t] = srv[t], bg'[t] = bg[t], t \in asked' <=> t \in asked,
           \A o \in Servers : Dead(o) => Dead(o)'
    PROVE  FilesOK(t)'
  <1>1. FilesOK(t) /\ debris[t] \subseteq Servers
    BY DEF TCInv, TCTypeOK
  <1>2. Dead(t) => srv[t] # "up"
    BY DEF Dead
  <1>3. file'[t] = NoFile \/ Speaks(file'[t], t)
    BY <1>1 DEF FilesOK
  <1>. QED
    BY <1>1, <1>2, <1>3, FilesGoOn DEF FilesOK

-----------------------------------------------------------------------------

LEMMA BootKeeps ==
    ASSUME TCInv, NEW s \in Servers, Boot(s)
    PROVE  TCInv'
  <1>1. TCTypeOK'
    BY DEF TCInv, TCTypeOK, Boot
  <1>2. /\ \A t \in Servers : srv'[t] = IF t = s THEN "adopting" ELSE srv[t]
        /\ srv[s] = "off"
        /\ UNCHANGED <<bg, debris, file, copy, owner, job, asked, kills>>
    BY DEF TCInv, TCTypeOK, Boot
  <1>3. \A t \in Servers : Dead(t)' = Dead(t) /\ Holds(t)' = Holds(t)
    BY <1>2 DEF Dead, Holds
  <1>4. ASSUME NEW t \in Servers
        PROVE  FilesOK(t)'
    <2>1. FilesOK(t) /\ debris[t] \subseteq Servers
      BY DEF TCInv, TCTypeOK
    <2>2. CASE t = s
      BY <2>1, <2>2, <1>2, <1>3, FilesGoOn DEF FilesOK
    <2>3. CASE t # s
      BY <2>3, <1>2, <1>3, OthersGoOn
    <2>. QED
      BY <2>2, <2>3
  <1>5. CopiesOK'
    BY <1>2, <1>3 DEF TCInv, CopiesOK, Clean, Merged, Written
  <1>. QED
    BY <1>1, <1>4, <1>5 DEF TCInv

LEMMA LoadFilesKeeps ==
    ASSUME TCInv, NEW s \in Servers, LoadFiles(s)
    PROVE  TCInv'
  <1>0. [o \in Servers |-> file[o][o]] \in [Servers -> Said] /\ TCTypeOK
    BY DEF TCInv, TCTypeOK
  <1>1. TCTypeOK'
    BY <1>0 DEF TCTypeOK, LoadFiles
  <1>2. /\ \A t \in Servers : srv'[t] = IF t = s THEN "loaded" ELSE srv[t]
        /\ \A t \in Servers : job'[t].pc = job[t].pc /\ (t # s => job'[t] = job[t])
        /\ srv[s] = "adopting"
        /\ UNCHANGED <<bg, debris, file, copy, owner, asked, kills>>
    BY DEF TCInv, TCTypeOK, LoadFiles
  <1>3. \A t \in Servers : Dead(t)' = Dead(t) /\ Holds(t)' = Holds(t)
    BY <1>2 DEF Dead, Holds
  <1>4. job[s].pc = "idle"
    BY <1>2 DEF TCInv, FilesOK
  <1>5. ASSUME NEW t \in Servers
        PROVE  FilesOK(t)'
    <2>1. FilesOK(t) /\ debris[t] \subseteq Servers
      BY DEF TCInv, TCTypeOK
    <2>2. CASE t = s
      BY <2>1, <2>2, <1>2, <1>3, <1>4, FilesGoOn DEF FilesOK
    <2>3. CASE t # s
      BY <2>3, <1>2, <1>3, OthersGoOn
    <2>. QED
      BY <2>2, <2>3
  <1>6. CopiesOK'
    <2>1. \A t \in Servers : Holds(t) => job'[t] = job[t]
      BY <1>2, <1>4 DEF Holds
    <2>. QED
      BY <2>1, <1>2, <1>3 DEF TCInv, CopiesOK, Clean, Merged, Written
  <1>. QED
    BY <1>1, <1>5, <1>6 DEF TCInv

LEMMA AdoptKeeps ==
    ASSUME TCInv, NEW s \in Servers, Adopt(s)
    PROVE  TCInv'
  <1>. DEFINE text == job[s].text
              read == {o \in Servers \ {s} : text[o] # "no file" /\ Dead(o)}
              taken == Orphans(text, s) \cup (UNION {Orphans(copy[n], s) : n \in Names} \ read)
  <1>1. /\ TCTypeOK /\ srv[s] = "loaded"
        /\ debris' = [debris EXCEPT ![s] = taken]
        /\ file' = [o \in Servers |-> IF o \in read THEN NoFile ELSE file[o]]
        /\ srv' = [srv EXCEPT ![s] = "up"] /\ job' = [job EXCEPT ![s] = Quiet]
        /\ asked' = asked \cup {s}
        /\ UNCHANGED <<bg, copy, owner, kills>>
    BY DEF TCInv, Adopt
  <1>2. taken \subseteq Servers /\ \A t \in taken : Dead(t) /\ t # s
    BY DEF Orphans
  <1>3. \A o \in read : Dead(o) /\ o # s
    OBVIOUS
  <1>. HIDE DEF taken, read
  <1>4. Quiet \in [pc : {"idle", "write", "sync", "current", "older"}, text : [Servers -> Said]]
        /\ Quiet.pc = "idle"
    BY <1>1, TextFacts DEF Quiet
  <1>5. TCTypeOK'
    <2>1. file' \in [Servers -> [Servers -> Said]]
      BY <1>1, TextFacts DEF TCTypeOK
    <2>. QED
      BY <2>1, <1>1, <1>2, <1>4 DEF TCTypeOK
  <1>6. /\ \A t \in Servers : srv'[t] = IF t = s THEN "up" ELSE srv[t]
        /\ \A t \in Servers : debris'[t] = IF t = s THEN taken ELSE debris[t]
        /\ \A t \in Servers : job'[t] = IF t = s THEN Quiet ELSE job[t]
        /\ \A t \in Servers : file'[t] = IF t \in read THEN NoFile ELSE file[t]
    BY <1>1 DEF TCTypeOK
  <1>7. \A t \in Servers : Dead(t)' = Dead(t)
    BY <1>1, <1>6 DEF Dead
  <1>8. ASSUME NEW t \in Servers
        PROVE  FilesOK(t)'
    <2>1. CASE t = s
      <3>1. /\ file'[s] = file[s] /\ job'[s] = Quiet /\ debris'[s] = taken /\ srv'[s] = "up"
            /\ s \in asked'
        BY <1>1, <1>3, <1>6
      <3>2. file[s] = NoFile \/ Speaks(file[s], s)
        BY DEF TCInv, FilesOK
      <3>. QED
        BY <2>1, <3>1, <3>2, <1>2, <1>4, <1>7, FilesGoOn
    <2>2. CASE t # s
      <3>1. /\ srv'[t] = srv[t] /\ debris'[t] = debris[t] /\ job'[t] = job[t] /\ bg'[t] = bg[t]
            /\ t \in asked' <=> t \in asked
            /\ file'[t] = file[t] \/ (file'[t] = NoFile /\ Dead(t))
        BY <2>2, <1>1, <1>3, <1>6
      <3>. QED
        BY <3>1, <1>7, OthersGoOn
    <2>. QED
      BY <2>1, <2>2
  <1>9. CopiesOK'
    <2>1. \A t \in Servers : Holds(t)' => Holds(t)
      BY <1>4, <1>6, <1>7 DEF Holds
    <2>2. ~Clean'
      BY <1>1 DEF Clean
    <2>. QED
      BY <2>1, <2>2, <1>1 DEF TCInv, CopiesOK
  <1>. QED
    BY <1>5, <1>8, <1>9 DEF TCInv

\* A step that leaves the files, the copies and their writers alone.
LEMMA AsideKeeps ==
    ASSUME TCInv, UNCHANGED <<debris, file, copy, owner, job>>,
           srv' \in [Servers -> {"off", "adopting", "loaded", "up", "closing", "leaving", "gone", "crashed"}],
           bg' \in [Servers -> {"absent", "running", "ended"}], asked' \subseteq Servers,
           kills' \in [Names -> SUBSET [task : Servers, stale : BOOLEAN]],
           asked \subseteq asked',
           \A t \in Servers : Dead(t) => Dead(t)',
           \A t \in Servers : /\ srv'[t] = "up" /\ t \notin asked' => srv[t] = "up" /\ bg'[t] = bg[t]
                              /\ srv'[t] # srv[t] => srv'[t] \in {"closing", "crashed"}
    PROVE  TCInv'
  <1>1. TCTypeOK'
    BY DEF TCInv, TCTypeOK
  <1>2. ASSUME NEW t \in Servers
        PROVE  FilesOK(t)'
    <2>1. FilesOK(t) /\ debris[t] \subseteq Servers
      BY DEF TCInv, TCTypeOK
    <2>2. srv'[t] = "up" /\ t \notin asked' => srv[t] = "up" /\ t \notin asked /\ bg'[t] = bg[t]
      OBVIOUS
    <2>3. srv'[t] \in {"leaving", "gone", "off", "adopting", "loaded"} => srv'[t] = srv[t]
      OBVIOUS
    <2>. QED
      BY <2>1, <2>2, <2>3, FilesGoOn DEF FilesOK
  <1>3. CopiesOK'
    <2>1. \A t \in Servers : Holds(t)' => Holds(t)
      BY DEF Holds
    <2>2. Merged' = Merged
      BY DEF Merged, Written
    <2>3. Clean' => Clean
      BY <2>1 DEF Clean
    <2>. QED
      BY <2>1, <2>2, <2>3 DEF TCInv, CopiesOK
  <1>. QED
    BY <1>1, <1>2, <1>3 DEF TCInv

LEMMA ChangeKeeps ==
    ASSUME TCInv, NEW s \in Servers, Change(s) \/ Close(s) \/ Crash(s)
    PROVE  TCInv'
  <1>1. TCTypeOK
    BY DEF TCInv
  <1>2. UNCHANGED <<debris, file, copy, owner, job, kills>>
    BY DEF Change, Close, Crash
  <1>3. CASE Change(s)
    <2>1. /\ srv' = srv /\ bg' \in [Servers -> {"absent", "running", "ended"}]
          /\ \A t \in Servers \ {s} : bg'[t] = bg[t]
          /\ asked' = IF srv[s] = "closing" THEN asked ELSE asked \cup {s}
      BY <1>1, <1>3 DEF Change, TCTypeOK
    <2>2. asked' \subseteq Servers /\ asked \subseteq asked'
      BY <2>1, <1>1 DEF TCTypeOK
    <2>3. \A t \in Servers : Dead(t)' = Dead(t)
      BY <2>1 DEF Dead
    <2>4. \A t \in Servers : srv'[t] = "up" /\ t \notin asked' => srv[t] = "up" /\ bg'[t] = bg[t]
      BY <2>1
    <2>. QED
      BY <2>1, <2>2, <2>3, <2>4, <1>1, <1>2, AsideKeeps DEF TCTypeOK
  <1>4. ASSUME NEW to \in {"closing", "crashed"}, srv' = [srv EXCEPT ![s] = to], Alive(s),
               bg' = bg, asked' = asked
        PROVE  TCInv'
    <2>1. \A t \in Servers : srv'[t] = IF t = s THEN to ELSE srv[t]
      BY <1>1, <1>4 DEF TCTypeOK
    <2>2. \A t \in Servers : Dead(t) => Dead(t)'
      BY <2>1, <1>4 DEF Dead, Alive
    <2>3. \A t \in Servers : srv'[t] # srv[t] => srv'[t] \in {"closing", "crashed"}
      BY <2>1
    <2>4. \A t \in Servers : srv'[t] = "up" => srv[t] = "up"
      BY <2>1
    <2>5. srv' \in [Servers -> {"off", "adopting", "loaded", "up", "closing", "leaving", "gone", "crashed"}]
      BY <1>1, <1>4 DEF TCTypeOK
    <2>. QED
      BY <2>2, <2>3, <2>4, <2>5, <1>1, <1>2, <1>4, AsideKeeps DEF TCTypeOK
  <1>. QED
    BY <1>3, <1>4 DEF Close, Crash, Alive

LEMMA TerminalKeeps ==
    ASSUME TCInv,
           \/ \E t \in Servers : AskKill(t)
           \/ \E n \in Names : \E k \in kills[n] : Grow(n, k)
    PROVE  TCInv'
  <1>1. TCTypeOK
    BY DEF TCInv
  <1>2. kills' \in [Names -> SUBSET [task : Servers, stale : BOOLEAN]]
    <2>1. CASE \E t \in Servers : AskKill(t)
      <3>1. PICK t \in Servers : AskKill(t)
        BY <2>1
      <3>2. [task |-> t, stale |-> FALSE] \in [task : Servers, stale : BOOLEAN]
        OBVIOUS
      <3>. QED
        BY <3>1, <3>2, <1>1 DEF AskKill, TCTypeOK
    <2>2. ASSUME NEW n \in Names, NEW k \in kills[n], Grow(n, k)
          PROVE  kills' \in [Names -> SUBSET [task : Servers, stale : BOOLEAN]]
      <3>1. kills[n] \subseteq [task : Servers, stale : BOOLEAN]
        BY <1>1 DEF TCTypeOK
      <3>2. [k EXCEPT !.stale = TRUE] \in [task : Servers, stale : BOOLEAN]
        BY <3>1
      <3>3. (kills[n] \ {k}) \cup {[k EXCEPT !.stale = TRUE]} \in
               SUBSET [task : Servers, stale : BOOLEAN]
        BY <3>1, <3>2
      <3>4. kills' = [kills EXCEPT ![n] = (kills[n] \ {k}) \cup {[k EXCEPT !.stale = TRUE]}]
        BY <2>2 DEF Grow
      <3>. QED
        BY <3>3, <3>4, <1>1 DEF TCTypeOK
    <2>. QED
      BY <2>1, <2>2
  <1>3. UNCHANGED <<srv, bg, debris, file, copy, owner, job, asked>>
    BY DEF AskKill, Grow
  <1>4. \A t \in Servers : Dead(t)' = Dead(t)
    BY <1>3 DEF Dead
  <1>. QED
    BY <1>1, <1>2, <1>3, <1>4, AsideKeeps DEF TCTypeOK

LEMMA SweepKeeps ==
    ASSUME TCInv, NEW s \in Servers, NEW n \in Names, NEW k \in kills[n], Sweep(s, n, k)
    PROVE  TCInv'
  <1>1. TCTypeOK /\ UNCHANGED <<srv, debris, file, copy, owner, job>>
    BY DEF TCInv, Sweep
  <1>2. kills' \in [Names -> SUBSET [task : Servers, stale : BOOLEAN]]
    BY <1>1 DEF TCTypeOK, Sweep
  <1>3. /\ bg' \in [Servers -> {"absent", "running", "ended"}]
        /\ \A t \in Servers \ {s} : bg'[t] = bg[t]
        /\ asked' \subseteq Servers /\ asked \subseteq asked'
        /\ bg'[s] # bg[s] => s \in asked'
    BY <1>1 DEF TCTypeOK, Sweep
  <1>4. \A t \in Servers : Dead(t)' = Dead(t)
    BY <1>1 DEF Dead
  <1>. QED
    BY <1>1, <1>2, <1>3, <1>4, AsideKeeps DEF TCTypeOK

-----------------------------------------------------------------------------

LEMMA TakeStateKeeps ==
    ASSUME TCInv, NEW s \in Servers, TakeState(s)
    PROVE  TCInv'
  <1>1. /\ TCTypeOK /\ srv[s] = "up" /\ s \in asked /\ job[s].pc = "idle"
        /\ job' = [job EXCEPT ![s] = [pc |-> "write", text |-> Snapshot(s)]]
        /\ asked' = asked \ {s}
        /\ UNCHANGED <<srv, bg, debris, file, copy, owner, kills>>
    BY DEF TCInv, TakeState, At, Goto
  <1>2. TCTypeOK'
    <2>1. [pc |-> "write", text |-> Snapshot(s)] \in
             [pc : {"idle", "write", "sync", "current", "older"}, text : [Servers -> Said]]
      BY <1>1, TextFacts
    <2>. QED
      BY <2>1, <1>1 DEF TCTypeOK
  <1>3. \A t \in Servers : job'[t] = IF t = s THEN [pc |-> "write", text |-> Snapshot(s)] ELSE job[t]
    BY <1>1 DEF TCTypeOK
  <1>4. \A t \in Servers : Dead(t)' = Dead(t) /\ Snapshot(t)' = Snapshot(t)
    BY <1>1 DEF Dead, Snapshot
  <1>5. Speaks(Snapshot(s), s)
    BY DEF TCInv, FilesOK, Speaks, Snapshot
  <1>6. ASSUME NEW t \in Servers
        PROVE  FilesOK(t)'
    <2>1. FilesOK(t)
      BY DEF TCInv
    <2>2. CASE t = s
      <3>1. job'[s].pc = "write" /\ job'[s].text = Snapshot(s) /\ file'[s] = file[s]
        BY <1>1, <1>3
      <3>2. /\ srv'[s] = "up" /\ debris'[s] = debris[s] /\ debris[s] \subseteq Servers /\ bg'[s] = bg[s]
        BY <1>1 DEF TCTypeOK
      <3>. QED
        BY <2>1, <2>2, <3>1, <3>2, <1>4, <1>5, FilesGoOn DEF FilesOK
    <2>3. CASE t # s
      <3>1. /\ file'[t] = file[t] /\ job'[t] = job[t] /\ debris'[t] = debris[t] /\ srv'[t] = srv[t]
            /\ bg'[t] = bg[t] /\ (t \in asked' <=> t \in asked)
        BY <2>3, <1>1, <1>3
      <3>. QED
        BY <3>1, <1>4, OthersGoOn
    <2>. QED
      BY <2>2, <2>3
  <1>7. CopiesOK'
    <2>1. \A t \in Servers : Holds(t)' => Holds(t)
      BY <1>3, <1>4 DEF Holds
    <2>2. ~Clean'
      BY <1>3 DEF Clean, Holds
    <2>. QED
      BY <2>1, <2>2, <1>1 DEF TCInv, CopiesOK
  <1>. QED
    BY <1>2, <1>6, <1>7 DEF TCInv

LEMMA WriteFileKeeps ==
    ASSUME TCInv, NEW s \in Servers, WriteFile(s)
    PROVE  TCInv'
  <1>1. /\ TCTypeOK /\ ~Dead(s) /\ job[s].pc = "write"
        /\ job' = [job EXCEPT ![s] = [pc |-> "sync", text |-> Nothing]]
        /\ file' = [file EXCEPT ![s] = job[s].text]
        /\ UNCHANGED <<srv, bg, debris, copy, owner, asked, kills>>
    BY DEF TCInv, WriteFile, At, Goto
  <1>2. TCTypeOK'
    <2>1. [pc |-> "sync", text |-> Nothing] \in
             [pc : {"idle", "write", "sync", "current", "older"}, text : [Servers -> Said]]
      BY <1>1, TextFacts
    <2>. QED
      BY <2>1, <1>1 DEF TCTypeOK
  <1>3. /\ \A t \in Servers : job'[t] = IF t = s THEN [pc |-> "sync", text |-> Nothing] ELSE job[t]
        /\ \A t \in Servers : file'[t] = IF t = s THEN job[s].text ELSE file[t]
    BY <1>1 DEF TCTypeOK
  <1>4. \A t \in Servers : Dead(t)' = Dead(t) /\ Snapshot(t)' = Snapshot(t)
    BY <1>1 DEF Dead, Snapshot
  <1>5. ASSUME NEW t \in Servers
        PROVE  FilesOK(t)'
    <2>1. FilesOK(t)
      BY DEF TCInv
    <2>2. CASE t = s
      <3>1. job'[s].pc = "sync" /\ file'[s] = job[s].text
        BY <1>3
      <3>2. srv[s] \notin {"leaving", "gone", "off", "adopting", "loaded"}
        BY <2>1, <2>2, <1>1 DEF FilesOK, Dead
      <3>3. /\ srv'[s] = srv[s] /\ debris'[s] = debris[s] /\ debris[s] \subseteq Servers /\ bg'[s] = bg[s]
            /\ asked' = asked
        BY <1>1 DEF TCTypeOK
      <3>4. /\ Speaks(job[s].text, s) /\ \A o \in debris[s] : Dead(o) /\ o # s
            /\ srv[s] = "up" /\ s \notin asked => job[s].text = Snapshot(s)
        BY <2>1, <2>2, <1>1 DEF FilesOK
      <3>. QED
        BY <2>2, <3>1, <3>2, <3>3, <3>4, <1>4, FilesGoOn
    <2>3. CASE t # s
      <3>1. /\ file'[t] = file[t] /\ job'[t] = job[t] /\ debris'[t] = debris[t] /\ srv'[t] = srv[t]
            /\ bg'[t] = bg[t] /\ (t \in asked' <=> t \in asked)
        BY <2>3, <1>1, <1>3
      <3>. QED
        BY <3>1, <1>4, OthersGoOn
    <2>. QED
      BY <2>2, <2>3
  <1>6. CopiesOK'
    <2>1. \A t \in Servers : Holds(t)' => Holds(t)
      BY <1>3, <1>4 DEF Holds
    <2>2. ~Clean'
      BY <1>3 DEF Clean, Holds
    <2>. QED
      BY <2>1, <2>2, <1>1 DEF TCInv, CopiesOK
  <1>. QED
    BY <1>2, <1>5, <1>6 DEF TCInv

LEMMA ReadPeersKeeps ==
    ASSUME TCInv, NEW s \in Servers, ReadPeers(s)
    PROVE  TCInv'
  <1>1. /\ TCTypeOK /\ ~Dead(s) /\ job[s].pc = "sync" /\ owner \in {0} \cup Crashes /\ owner' = s
        /\ job' = [job EXCEPT ![s] = [pc |-> "current", text |-> Merged]]
        /\ UNCHANGED <<srv, bg, debris, file, copy, asked, kills>>
    BY DEF TCInv, ReadPeers, At, Goto, LockFree
  <1>2. TCTypeOK'
    <2>1. [pc |-> "current", text |-> Merged] \in
             [pc : {"idle", "write", "sync", "current", "older"}, text : [Servers -> Said]]
      BY <1>1, MergedFacts
    <2>. QED
      BY <2>1, <1>1 DEF TCTypeOK
  <1>3. \A t \in Servers : job'[t] = IF t = s THEN [pc |-> "current", text |-> Merged] ELSE job[t]
    BY <1>1 DEF TCTypeOK
  <1>4. \A t \in Servers : Dead(t)' = Dead(t) /\ Snapshot(t)' = Snapshot(t)
    BY <1>1 DEF Dead, Snapshot
  <1>5. ASSUME NEW t \in Servers
        PROVE  FilesOK(t)'
    <2>1. FilesOK(t)
      BY DEF TCInv
    <2>2. CASE t = s
      <3>1. job'[s].pc = "current" /\ srv[s] \notin {"off", "adopting", "loaded"} /\ file'[s] = file[s]
        BY <2>1, <2>2, <1>1, <1>3 DEF FilesOK
      <3>2. /\ srv'[s] = srv[s] /\ debris'[s] = debris[s] /\ debris[s] \subseteq Servers /\ bg'[s] = bg[s]
            /\ asked' = asked
        BY <1>1 DEF TCTypeOK
      <3>3. /\ file[s] = NoFile \/ Speaks(file[s], s)
            /\ \A o \in debris[s] : Dead(o) /\ o # s
            /\ srv[s] = "up" /\ s \notin asked => file[s] = Snapshot(s)
            /\ srv[s] \in {"leaving", "gone"} => file[s] = NoFile
        BY <2>1, <2>2, <1>1 DEF FilesOK
      <3>. QED
        BY <2>2, <3>1, <3>2, <3>3, <1>4, FilesGoOn
    <2>3. CASE t # s
      <3>1. /\ file'[t] = file[t] /\ job'[t] = job[t] /\ debris'[t] = debris[t] /\ srv'[t] = srv[t]
            /\ bg'[t] = bg[t] /\ (t \in asked' <=> t \in asked)
        BY <2>3, <1>1, <1>3
      <3>. QED
        BY <3>1, <1>4, OthersGoOn
    <2>. QED
      BY <2>2, <2>3
  <1>6. \A t \in Servers \ {s} : ~Holds(t)
    <2>. SUFFICES ASSUME NEW t \in Servers \ {s}, Holds(t)
                  PROVE  FALSE
      OBVIOUS
    <2>1. owner = t
      BY DEF TCInv, CopiesOK
    <2>2. t # 0
      BY TCAssumption
    <2>. QED
      BY <2>1, <2>2, <1>1 DEF Crashes, Holds, Dead
  <1>7. CopiesOK'
    <2>1. \A t \in Servers : Holds(t)' => t = s
      BY <1>3, <1>4, <1>6 DEF Holds
    <2>2. Merged' = Merged
      BY <1>1 DEF Merged, Written
    <2>3. job'[s].text = Merged /\ job'[s].pc = "current"
      BY <1>3
    <2>4. Holds(s)' => job'[s].text = Merged' /\ job'[s].pc = "current"
      BY <2>2, <2>3
    <2>. QED
      BY <2>1, <2>3, <2>4, <1>1 DEF CopiesOK
  <1>. QED
    BY <1>2, <1>5, <1>7 DEF TCInv

LEMMA WriteCopyKeeps ==
    ASSUME TCInv, NEW s \in Servers, NEW n \in Names, WriteCopy(s, n)
    PROVE  TCInv'
  <1>1. /\ TCTypeOK /\ ~Dead(s) /\ job[s].pc = n
        /\ copy' = [copy EXCEPT ![n] = CopyOf(job[s].text)]
        /\ UNCHANGED <<bg, debris, file, asked, kills>>
    BY DEF TCInv, WriteCopy, At
  <1>2. /\ Holds(s) /\ owner = s
        /\ \A t \in Servers \ {s} : ~Holds(t)
    BY <1>1 DEF Holds, Names, TCInv, CopiesOK
  <1>3. job[s].text \in [Servers -> Said] /\ CopyOf(job[s].text) \in [Servers -> Said]
    BY <1>1, TextFacts DEF TCTypeOK
  <1>4. /\ Merged' = Merged /\ \A t \in Servers : Snapshot(t)' = Snapshot(t)
    BY <1>1 DEF Merged, Written, Snapshot
  <1>5. CASE n = "current"
    <2>1. /\ job' = [job EXCEPT ![s] = [pc |-> "older", text |-> job[s].text]]
          /\ owner' = owner /\ srv' = srv
      BY <1>5 DEF WriteCopy, Goto
    <2>2. \A t \in Servers :
             job'[t] = IF t = s THEN [pc |-> "older", text |-> job[s].text] ELSE job[t]
      BY <2>1, <1>1 DEF TCTypeOK
    <2>3. TCTypeOK'
      <3>1. [pc |-> "older", text |-> job[s].text] \in
               [pc : {"idle", "write", "sync", "current", "older"}, text : [Servers -> Said]]
        BY <1>3
      <3>. QED
        BY <3>1, <2>1, <1>1, <1>3 DEF TCTypeOK
    <2>4. \A t \in Servers : Dead(t)' = Dead(t)
      BY <2>1 DEF Dead
    <2>5. ASSUME NEW t \in Servers
          PROVE  FilesOK(t)'
      <3>1. CASE t = s
        <4>1. FilesOK(s) /\ debris[s] \subseteq Servers
          BY <1>1 DEF TCInv, TCTypeOK
        <4>2. job'[s].pc = "older" /\ file'[s] = file[s] /\ srv'[s] = srv[s] /\ bg'[s] = bg[s]
              /\ debris'[s] = debris[s] /\ asked' = asked
          BY <2>1, <2>2, <1>1
        <4>3. job[s].pc \notin {"idle", "write"}
          BY <1>1, <1>5
        <4>. QED
          BY <3>1, <4>1, <4>2, <4>3, <2>4, FilesGoOn DEF FilesOK
      <3>2. CASE t # s
        <4>1. file'[t] = file[t] /\ job'[t] = job[t] /\ debris'[t] = debris[t] /\ srv'[t] = srv[t]
              /\ bg'[t] = bg[t] /\ asked' = asked
          BY <3>2, <2>1, <2>2, <1>1
        <4>. QED
          BY <4>1, <2>4, OthersGoOn
      <3>. QED
        BY <3>1, <3>2
    <2>6. \A t \in Servers : Holds(t)' = Holds(t)
      BY <2>2, <2>4, <1>1, <1>2 DEF Holds
    <2>7. Clean' => Clean
      BY <2>2, <2>6, <1>1, <1>2 DEF Clean
    <2>8. copy'["current"] = CopyOf(job[s].text)
      BY <1>1, <1>5 DEF TCTypeOK, Names
    <2>9. CopiesOK'
      <3>1. \A t \in Servers : Holds(t)' => t = s /\ owner' = t
        BY <2>1, <2>6, <1>2
      <3>2. Clean' => /\ job'[s].text = Merged' /\ copy'["current"] = CopyOf(Merged)
                      /\ job'[s].pc = "older"
        BY <2>2, <2>7, <2>8, <1>2, <1>4 DEF TCInv, CopiesOK
      <3>3. CopyOf(Merged)' = CopyOf(Merged)
        BY <1>4 DEF CopyOf, Nothing, NoFile
      <3>. QED
        BY <3>1, <3>2, <3>3 DEF CopiesOK
    <2>. QED
      BY <2>3, <2>5, <2>9 DEF TCInv
  <1>6. CASE n = "older"
    <2>1. /\ job' = [job EXCEPT ![s] = Quiet] /\ owner' = 0
          /\ srv' = [srv EXCEPT ![s] = IF srv[s] = "leaving" THEN "gone" ELSE srv[s]]
      BY <1>6 DEF WriteCopy
    <2>2. /\ \A t \in Servers : job'[t] = IF t = s THEN Quiet ELSE job[t]
          /\ \A t \in Servers :
                srv'[t] = IF t = s /\ srv[s] = "leaving" THEN "gone" ELSE srv[t]
      BY <2>1, <1>1 DEF TCTypeOK
    <2>3. Quiet \in [pc : {"idle", "write", "sync", "current", "older"}, text : [Servers -> Said]]
          /\ Quiet.pc = "idle"
      BY <1>1, TextFacts DEF Quiet
    <2>4. TCTypeOK'
      BY <2>1, <2>3, <1>1, <1>3 DEF TCTypeOK
    <2>5. \A t \in Servers : Dead(t) => Dead(t)'
      BY <2>2 DEF Dead
    <2>6. ASSUME NEW t \in Servers
          PROVE  FilesOK(t)'
      <3>1. CASE t = s
        <4>1. FilesOK(s) /\ debris[s] \subseteq Servers
          BY <1>1 DEF TCInv, TCTypeOK
        <4>2. /\ job'[s].pc = "idle" /\ file'[s] = file[s] /\ bg'[s] = bg[s]
              /\ debris'[s] = debris[s] /\ asked' = asked
              /\ srv'[s] # "leaving"
              /\ srv'[s] = "gone" => srv[s] \in {"leaving", "gone"}
              /\ srv'[s] = "up" => srv[s] = "up"
          BY <2>2, <2>3, <1>1
        <4>3. job[s].pc \notin {"idle", "write"}
          BY <1>1, <1>6
        <4>. QED
          BY <3>1, <4>1, <4>2, <4>3, <2>5, FilesGoOn DEF FilesOK
      <3>2. CASE t # s
        <4>1. file'[t] = file[t] /\ job'[t] = job[t] /\ debris'[t] = debris[t] /\ srv'[t] = srv[t]
              /\ bg'[t] = bg[t] /\ asked' = asked
          BY <3>2, <2>2, <1>1
        <4>. QED
          BY <4>1, <2>5, OthersGoOn
      <3>. QED
        BY <3>1, <3>2
    <2>7. \A t \in Servers : ~Holds(t)'
      BY <2>2, <2>3, <2>5, <1>2 DEF Holds, Dead
    <2>8. Clean' => Clean
      BY <2>2, <2>7, <1>1, <1>2 DEF Clean
    <2>9. copy'["older"] = CopyOf(job[s].text) /\ copy'["current"] = copy["current"]
      BY <1>1, <1>6 DEF TCTypeOK, Names
    <2>10. CopiesOK'
      <3>1. Clean' => copy'["older"] = CopyOf(Merged) /\ copy'["current"] = CopyOf(Merged)
        BY <2>8, <2>9, <1>1, <1>2, <1>6 DEF TCInv, CopiesOK
      <3>2. CopyOf(Merged)' = CopyOf(Merged)
        BY <1>4 DEF CopyOf, Nothing, NoFile
      <3>. QED
        BY <3>1, <3>2, <2>7 DEF CopiesOK
    <2>. QED
      BY <2>4, <2>6, <2>10 DEF TCInv
  <1>. QED
    BY <1>5, <1>6 DEF Names

LEMMA LeaveKeeps ==
    ASSUME TCInv, NEW s \in Servers, Leave(s)
    PROVE  TCInv'
  <1>1. /\ TCTypeOK /\ srv[s] = "closing" /\ job[s].pc = "idle"
        /\ srv' = [srv EXCEPT ![s] = "leaving"] /\ file' = [file EXCEPT ![s] = NoFile]
        /\ bg' = [bg EXCEPT ![s] = "ended"]
        /\ job' = [job EXCEPT ![s] = [pc |-> "sync", text |-> Nothing]]
        /\ asked' = asked \ {s}
        /\ UNCHANGED <<debris, copy, owner, kills>>
    BY DEF TCInv, Leave, Drained, Goto
  <1>2. TCTypeOK'
    <2>1. [pc |-> "sync", text |-> Nothing] \in
             [pc : {"idle", "write", "sync", "current", "older"}, text : [Servers -> Said]]
      BY <1>1, TextFacts
    <2>. QED
      BY <2>1, <1>1, TextFacts DEF TCTypeOK
  <1>3. \A t \in Servers :
           /\ job'[t] = IF t = s THEN [pc |-> "sync", text |-> Nothing] ELSE job[t]
           /\ file'[t] = IF t = s THEN NoFile ELSE file[t]
           /\ srv'[t] = IF t = s THEN "leaving" ELSE srv[t]
           /\ bg'[t] = IF t = s THEN "ended" ELSE bg[t]
    BY <1>1 DEF TCTypeOK
  <1>4. \A t \in Servers : Dead(t)' = Dead(t)
    BY <1>1, <1>3 DEF Dead
  <1>5. ASSUME NEW t \in Servers
        PROVE  FilesOK(t)'
    <2>1. CASE t = s
      <3>1. /\ job'[s].pc = "sync" /\ file'[s] = NoFile /\ srv'[s] = "leaving"
            /\ debris'[s] = debris[s]
        BY <1>1, <1>3
      <3>2. \A o \in debris[s] : o \in Servers /\ Dead(o) /\ o # s
        BY <1>1 DEF TCInv, FilesOK, TCTypeOK
      <3>. QED
        BY <2>1, <3>1, <3>2, <1>4, FilesGoOn
    <2>2. CASE t # s
      <3>1. file'[t] = file[t] /\ job'[t] = job[t] /\ debris'[t] = debris[t] /\ srv'[t] = srv[t]
            /\ bg'[t] = bg[t] /\ (t \in asked' <=> t \in asked)
        BY <2>2, <1>1, <1>3
      <3>. QED
        BY <3>1, <1>4, OthersGoOn
    <2>. QED
      BY <2>1, <2>2
  <1>6. CopiesOK'
    <2>1. \A t \in Servers : Holds(t)' => Holds(t)
      BY <1>3, <1>4 DEF Holds
    <2>2. ~Clean'
      BY <1>3 DEF Clean, Holds
    <2>. QED
      BY <2>1, <2>2, <1>1 DEF TCInv, CopiesOK
  <1>. QED
    BY <1>2, <1>5, <1>6 DEF TCInv

LEMMA ChannelStep ==
    ASSUME TCInv, [TCNext]_tcVars
    PROVE  TCInv'
  <1>1. CASE UNCHANGED tcVars
    <2>1. /\ UNCHANGED <<srv, bg, debris, file, copy, owner, job, asked, kills>>
          /\ \A t \in Servers : Dead(t)' = Dead(t)
      BY <1>1 DEF tcVars, Dead
    <2>. QED
      BY <2>1, AsideKeeps DEF TCInv, TCTypeOK
  <1>2. CASE TCNext
    BY <1>2, BootKeeps, LoadFilesKeeps, AdoptKeeps, ChangeKeeps, TakeStateKeeps, WriteFileKeeps,
       ReadPeersKeeps, LeaveKeeps, WriteCopyKeeps, TerminalKeeps, SweepKeeps
       DEF TCNext
  <1>. QED
    BY <1>1, <1>2

LEMMA ChannelInvariant == TCSpec => []TCInv
  <1>1. TCInit => TCInv
    <2>. SUFFICES ASSUME TCInit
                  PROVE  TCInv
      OBVIOUS
    <2>1. NoFile \in [Servers -> Said] /\ Nothing \in [Servers -> Said]
      BY DEF NoFile, Nothing, Said
    <2>2. Quiet \in [pc : {"idle", "write", "sync", "current", "older"}, text : [Servers -> Said]]
          /\ Quiet.pc = "idle"
      BY <2>1 DEF Quiet
    <2>3. TCTypeOK
      BY <2>1, <2>2 DEF TCInit, TCTypeOK
    <2>4. \A s \in Servers : FilesOK(s)
      BY <2>2 DEF TCInit, FilesOK
    <2>5. Merged = Nothing
      BY DEF TCInit, Merged, Nothing, Written
    <2>6. CopyOf(Merged) = NoFile
      BY <2>5 DEF CopyOf
    <2>7. CopiesOK
      BY <2>2, <2>6 DEF TCInit, CopiesOK, Holds, Names
    <2>. QED
      BY <2>3, <2>4, <2>7 DEF TCInv
  <1>. QED
    BY <1>1, ChannelStep, PTL DEF TCSpec

\* The terminal lists what is so once the writes are done, and the copies agree.
THEOREM ListsAreTrueHolds == TCSpec => []ListsAreTrue
  <1>1. ASSUME TCInv
        PROVE  ListsAreTrue
    <2>1. TCTypeOK /\ CopiesOK /\ \A s \in Servers : FilesOK(s)
      BY <1>1 DEF TCInv
    <2>2. \A s \in Servers : /\ srv[s] = "gone" => file[s] = NoFile
                             /\ \A t \in debris[s] : Dead(t)
      BY <2>1 DEF FilesOK
    <2>3. ASSUME AllWritten
          PROVE  \A n \in Names : copy[n] = CopyOf(Merged)
      BY <2>1, <2>3 DEF AllWritten, CopiesOK, Clean, Names
    <2>4. ASSUME AllWritten, NEW s \in Servers, srv[s] = "up"
          PROVE  /\ bg[s] = "running" <=> s \in ListedRunning
                 /\ \A t \in debris[s] : Listed[t] # "absent"
      <3>1. file[s] = Snapshot(s)
        BY <2>1, <2>4 DEF FilesOK, AllWritten
      <3>2. file[s][s] = bg[s] /\ \A t \in debris[s] : t \in Servers /\ file[s][t] = "orphaned"
        BY <3>1, <2>1 DEF Snapshot, FilesOK, TCTypeOK
      <3>3. s \in Written
        <4>1. bg[s] # "no file"
          BY <2>1 DEF TCTypeOK
        <4>. QED
          BY <4>1, <3>2 DEF Written, NoFile
      <3>4. Listed = Merged
        BY <3>3 DEF Listed
      <3>5. Alive(s) /\ ~Dead(s)
        BY <2>4 DEF Alive, Dead
      <3>6. \A o \in Written : o # s => file[o][s] = "absent"
        <4>. SUFFICES ASSUME NEW o \in Written, o # s
                      PROVE  file[o][s] = "absent"
          OBVIOUS
        <4>1. o \in Servers /\ file[o] # NoFile
          BY DEF Written
        <4>2. Speaks(file[o], o)
          BY <4>1, <2>1 DEF FilesOK
        <4>. QED
          BY <4>2, <3>5 DEF Speaks
      <3>7. Merged[s] = bg[s]
        <4>1. CASE bg[s] = "absent"
          BY <4>1, <3>2, <3>6, <2>1, MergedFacts
        <4>2. CASE bg[s] # "absent"
          <5>1. PICK o \in Written : file[o][s] # "absent" /\ Merged[s] = file[o][s]
            BY <4>2, <3>2, <3>3, <2>1, MergedFacts
          <5>. QED
            BY <5>1, <3>2, <3>6
        <4>. QED
          BY <4>1, <4>2
      <3>8. ASSUME NEW t \in debris[s]
            PROVE  Merged[t] # "absent"
        BY <3>2, <3>3, <2>1, MergedFacts
      <3>. QED
        BY <3>4, <3>5, <3>7, <3>8 DEF ListedRunning
    <2>. QED
      BY <2>2, <2>3, <2>4 DEF ListsAreTrue
  <1>. QED
    BY <1>1, ChannelInvariant, PTL

\* A kill asked for in the terminal is not lost while its task runs.
THEOREM KillsNotEatenHolds == TCSpec => KillsNotEaten
  <1>. DEFINE Request(t) == [task |-> t, stale |-> FALSE]
              Stays(t) == (\E n \in Names : Request(t) \in kills[n])
                         /\ (\A n \in Names : Request(t) \notin kills'[n])
                            => bg'[t] # "running" \/ ~Alive(t)
  <1>1. ASSUME TCInv, [TCNext]_tcVars, NEW t \in Servers
        PROVE  Stays(t)
    <2>. SUFFICES ASSUME NEW n \in Names, Request(t) \in kills[n], Request(t) \notin kills'[n]
                  PROVE  bg'[t] # "running" \/ ~Alive(t)
      OBVIOUS
    <2>1. TCTypeOK
      BY <1>1 DEF TCInv
    <2>2. kills' # kills
      OBVIOUS
    <2>3. ~(\E s \in Servers : AskKill(s))
      BY <2>1 DEF AskKill, TCTypeOK
    <2>4. ASSUME NEW m \in Names, NEW k \in kills[m], Grow(m, k)
          PROVE  bg'[t] # "running" \/ ~Alive(t)
      <3>1. kills' = [kills EXCEPT ![m] = (kills[m] \ {k}) \cup {[k EXCEPT !.stale = TRUE]}]
            /\ bg' = bg /\ ~(Alive(k.task) /\ bg[k.task] = "running")
        BY <2>4 DEF Grow
      <3>2. k = Request(t)
        BY <3>1, <2>1 DEF TCTypeOK
      <3>3. k.task = t
        BY <3>2
      <3>. QED
        BY <3>1, <3>3
    <2>5. ASSUME NEW s \in Servers, NEW m \in Names, NEW k \in kills[m], Sweep(s, m, k)
          PROVE  bg'[t] # "running" \/ ~Alive(t)
      <3>1. /\ kills' = [kills EXCEPT ![m] = kills[m] \ {k}] /\ ~NotMine(s, k)
            /\ bg[s] \in {"absent", "running"}
            /\ bg' = IF k.task = s /\ bg[s] = "running" THEN [bg EXCEPT ![s] = "ended"] ELSE bg
        BY <2>5 DEF Sweep
      <3>2. k = Request(t)
        BY <3>1, <2>1 DEF TCTypeOK
      <3>3. k.task = t /\ k.stale = FALSE
        BY <3>2
      <3>4. s = t
        BY <3>1, <3>3 DEF NotMine
      <3>. QED
        BY <3>1, <3>3, <3>4, <2>1 DEF TCTypeOK
    <2>6. \/ \E m \in Names : \E k \in kills[m] : Grow(m, k)
          \/ \E s \in Servers : \E m \in Names : \E k \in kills[m] : Sweep(s, m, k)
      BY <2>2, <2>3, <1>1 DEF TCNext, tcVars, Boot, LoadFiles, Adopt, Change, TakeState, WriteFile,
         ReadPeers, WriteCopy, Close, Leave, Crash
    <2>. QED
      BY <2>4, <2>5, <2>6
  <1>2. TCInv /\ [TCNext]_tcVars =>
           [\A t \in Servers :
               LET asks == {n \in Names : [task |-> t, stale |-> FALSE] \in kills[n]}
                   left == {n \in Names : [task |-> t, stale |-> FALSE] \in kills'[n]}
               IN  asks # {} /\ left = {} => bg'[t] # "running" \/ ~Alive(t)]_tcVars
    BY <1>1
  <1>. QED
    BY <1>2, ChannelInvariant, PTL DEF TCSpec, KillsNotEaten

-----------------------------------------------------------------------------
(* SideThread: an exchange that streams has nothing of before it running,  *)
(* and only events that are its own can tell its end.                      *)

Answering == [streaming : BOOLEAN, accepting : BOOLEAN, prompted : BOOLEAN, assistant : BOOLEAN,
              needsAssistant : BOOLEAN, stale : BOOLEAN, pending : BOOLEAN, cancelled : BOOLEAN,
              aborts : Int, beating : BOOLEAN]
FollowUps == [pc : {"none", "get", "prompt", "abort", "end"}, cancelled : BOOLEAN,
              pending : BOOLEAN, accepted : BOOLEAN]
ThreadEvents == [type : {"answer", "idle", "error", "granted"}, of : 0..MaxExchanges, own : BOOLEAN]
AbortCalls == [pc : {"free", "sent", "landed", "late"}, of : 0..MaxExchanges,
               waiter : 0..MaxExchanges + 1]

ThreadTypes ==
    /\ plan \in Plans
    /\ forkOwner \in {"controller", "user", "nobody"}
    /\ thread \in Answering
    /\ initial \in {"prompt", "abort", "end"}
    /\ attempt \in [Exchanges -> FollowUps]
    /\ panel \in [Exchanges -> {"none", "streaming", "done", "stopped", "failed"}]
    /\ prompt \in [Exchanges -> {"none", "sent", "refused", "admitted"}]
    /\ runs \in [Exchanges -> {"none", "running", "answered", "finished", "failed", "aborted"}]
    /\ inbox \in Seq(ThreadEvents)
    /\ abortCall \in [1..MaxAbortCalls -> AbortCalls]
    /\ marked \in BOOLEAN /\ forkExists \in BOOLEAN
    /\ beat \in {"idle", "mark", "marked", "unmark"}
    /\ opening \in {"idle", "unmark", "unmarked", "remark", "remarked"}
    /\ releasing \in {"none", "abort", "clear", "end"}
    /\ amiss \subseteq {"unmark", "prompt", "event"}
    /\ mishaps \in 0..MaxMishaps

\* The exchanges fill the panel from the first, and there is one.
InTurn == CurrentExchange \in Exchanges /\ \A e \in Exchanges : panel[e] # "none" <=> e <= CurrentExchange

\* Aborts that may still be answered, and whether one is counted that will not be.
Unanswered(calls) == {a \in 1..MaxAbortCalls : calls[a].pc \in {"sent", "landed"}}
NeverAnswered == thread.aborts > Cardinality(Unanswered(abortCall))

AbortsAreCounted ==
    /\ Cardinality(Unanswered(abortCall)) <= thread.aborts
    /\ thread.aborts <= Cardinality(Unanswered(abortCall)) + mishaps
    /\ \A a \in 1..MaxAbortCalls :
          /\ abortCall[a].pc = "late" => NeverAnswered
          /\ abortCall[a].pc # "free" =>
                /\ abortCall[a].of = CurrentExchange
                /\ abortCall[a].waiter = TheFirst => initial # "prompt"
                /\ abortCall[a].waiter \in 2..MaxExchanges =>
                      attempt[abortCall[a].waiter].pc \in {"abort", "end"}
                /\ abortCall[a].waiter = TheReleaser => forkOwner = "nobody"

Ours == forkOwner = "controller"
Live == Ours /\ thread.streaming
IsRun(e) == runs[e] \in {"running", "answered"}
Ended(e) == runs[e] \in {"finished", "failed"}
Sure == "prompt" \notin amiss

\* What a prompt says of its attempt and of its run.
PromptsAreKnown ==
    /\ \A e \in Exchanges :
          /\ runs[e] # "none" <=> prompt[e] = "admitted"
          /\ e > CurrentExchange => prompt[e] = "none" /\ attempt[e] = NoAttempt0
          /\ attempt[e].accepted => prompt[e] = "admitted" /\ attempt[e].pc \in {"abort", "end"}
          /\ attempt[e].pc \in {"none", "get"} /\ e > 1 => prompt[e] = "none"
          /\ attempt[e].pc \in {"prompt", "abort"} \/ attempt[e].pending => prompt[e] # "none"
          /\ e > 1 /\ prompt[e] = "sent" => e = CurrentExchange /\ attempt[e].pending
    /\ attempt[1] = NoAttempt0
    /\ thread.pending <=> initial # "end"
    /\ thread.pending => CurrentExchange = 1 /\ forkOwner # "user"
    /\ prompt[1] # "none" /\ (prompt[1] = "sent" => thread.pending \/ ~Sure)
    /\ prompt[1] = "sent" /\ initial = "abort" => ~Sure
    /\ thread.prompted <=> prompt[CurrentExchange] # "none"

\* While an exchange streams nothing of it was cancelled or aborted.
LiveIsClean ==
    /\ Live => /\ panel[CurrentExchange] = "streaming" /\ thread.aborts = 0
               /\ ~attempt[CurrentExchange].cancelled
               /\ thread.pending => ~thread.cancelled
               /\ runs[CurrentExchange] # "aborted"
               /\ CurrentExchange = 1 => ~thread.needsAssistant
    /\ Ours => (thread.accepting <=> thread.streaming /\ thread.prompted)

\* A dispatch that was cancelled has an abort to make, or keeps the fork.
Owed ==
    IF CurrentExchange = 1 THEN initial = "prompt" /\ thread.cancelled
    ELSE /\ attempt[CurrentExchange].pending
         /\ attempt[CurrentExchange].pc = "prompt" => attempt[CurrentExchange].cancelled
         /\ ~attempt[CurrentExchange].accepted

\* What was stopped is aborted, and what came before is over.
NothingRunsOn ==
    Ours =>
    /\ Sure \/ (CurrentExchange = 2 /\ thread.streaming /\ ~thread.needsAssistant /\ ~thread.assistant) =>
          \A e \in Exchanges : e < CurrentExchange => ~IsRun(e) /\ prompt[e] # "sent"
    /\ Sure /\ ~thread.streaming /\ prompt[CurrentExchange] = "sent" => Owed
    /\ Sure /\ ~thread.streaming /\ IsRun(CurrentExchange) =>
          Owed \/ NeverAnswered \/ \E a \in 1..MaxAbortCalls : abortCall[a].pc = "sent"
    /\ CurrentExchange = 1 /\ ~thread.streaming /\ ~thread.stale => Ended(1)

Answers(i) == inbox[i].type = "answer" /\ inbox[i].of = CurrentExchange
IsProven(i) == ~thread.needsAssistant \/ thread.assistant \/ \E k \in 1..i - 1 : Answers(k)
\* An event that will be taken for the end of the exchange, unless an earlier one is.
Tells(i) == inbox[i].type \in {"idle", "error"} /\ IsProven(i)
Foremost(i) == Tells(i) /\ \A k \in 1..i - 1 : ~Tells(k)
EndsAs(type) == IF type = "error" THEN runs[CurrentExchange] = "failed"
                ELSE \/ runs[CurrentExchange] = "finished"
                     \/ runs[CurrentExchange] = "failed" /\ "event" \in amiss

EventsInOrder ==
    /\ \A i \in 1..Len(inbox) : inbox[i].type = "answer" =>
          inbox[i].own /\ inbox[i].of \in Exchanges /\ runs[inbox[i].of] \notin {"none", "running"}
    /\ Ours /\ thread.assistant => runs[CurrentExchange] \notin {"none", "running"}
    /\ Ours /\ ((\E i \in 1..Len(inbox) : ~inbox[i].own) \/ thread.aborts > 0) => thread.stale
    /\ Live => \A i \in 1..Len(inbox) : ~inbox[i].own => ~IsProven(i)
    /\ Live /\ (Sure \/ CurrentExchange = 1) =>
          \A i \in 1..Len(inbox) : Tells(i) =>
             /\ Ended(CurrentExchange)
             /\ inbox[i].type = "error" => runs[CurrentExchange] = "failed"
    /\ Live /\ ~Unsafe(CurrentExchange) =>
          \A i \in 1..Len(inbox) : Foremost(i) => EndsAs(inbox[i].type)
    /\ Live /\ ~Sure /\ "event" \notin amiss /\ CurrentExchange = 2 /\ Ended(2)
          /\ IsProven(Len(inbox) + 1) => \E i \in 1..Len(inbox) : Tells(i)

\* Where a mark remains, a beat is about to clear it, or could not.
StillDue == beat \in {"marked", "unmark"} \/ "unmark" \in amiss

ForkIsGuarded ==
    /\ Ours => forkExists /\ releasing = "none"
    /\ Ours /\ thread.beating => opening = "idle"
    /\ Ours /\ opening = "unmarked" /\ marked => StillDue
    /\ forkOwner = "user" => /\ forkExists /\ releasing = "none" /\ ~thread.beating
                             /\ opening = "idle" /\ thread.aborts = 0 /\ (marked => StillDue)
    /\ forkOwner = "nobody" => releasing # "none" \/ ~forkExists
    /\ forkOwner = "nobody" /\ releasing = "end" /\ plan.keeps /\ forkExists /\ marked =>
          StillDue \/ opening = "remarked"

ThreadInv ==
    /\ ThreadTypes /\ InTurn /\ AbortsAreCounted /\ PromptsAreKnown /\ LiveIsClean
    /\ NothingRunsOn /\ EventsInOrder /\ ForkIsGuarded /\ EndsAreItsOwn

-----------------------------------------------------------------------------
LEMMA LastOfFirsts ==
    ASSUME NEW f, NEW c \in Exchanges, \A e \in Exchanges : f[e] # "none" <=> e <= c
    PROVE  c = CHOOSE e \in Exchanges : /\ f[e] # "none"
                                        /\ \A g \in Exchanges : g > e => f[g] = "none"
  <1>1. \A e \in Exchanges : e \in Int /\ c \in Int
    BY STAssumption DEF Exchanges
  <1>2. f[c] # "none" /\ \A g \in Exchanges : g > c => f[g] = "none"
    BY <1>1
  <1>3. ASSUME NEW e \in Exchanges, f[e] # "none", \A g \in Exchanges : g > e => f[g] = "none"
        PROVE  e = c
    BY <1>1, <1>3
  <1>. QED
    BY <1>2, <1>3

LEMMA ExchangeFacts ==
    /\ MaxExchanges \in Nat \ {0} /\ MaxAbortCalls \in Nat /\ MaxMishaps \in Nat
    /\ \A e \in Exchanges : e \in Nat \ {0} /\ e <= MaxExchanges
    /\ 1 \in Exchanges
  BY STAssumption DEF Exchanges

\* While nothing new is shown the current exchange stays.
LEMMA TurnStays ==
    ASSUME InTurn, \A e \in Exchanges : panel'[e] # "none" <=> panel[e] # "none"
    PROVE  InTurn' /\ CurrentExchange' = CurrentExchange
  <1>1. \A e \in Exchanges : panel'[e] # "none" <=> e <= CurrentExchange
    BY DEF InTurn
  <1>2. CurrentExchange \in Exchanges
    BY DEF InTurn
  <1>3. CurrentExchange' = CurrentExchange
    <2>. DEFINE c == CurrentExchange
    <2>1. c \in Exchanges /\ \A e \in Exchanges : panel'[e] # "none" <=> e <= c
      BY <1>1, <1>2
    <2>. HIDE DEF c
    <2>2. c = CHOOSE e \in Exchanges : /\ panel'[e] # "none"
                                       /\ \A g \in Exchanges : g > e => panel'[g] = "none"
      BY <2>1, LastOfFirsts
    <2>3. CurrentExchange' = c
      BY <2>2 DEF CurrentExchange
    <2>. QED
      BY <2>3 DEF c
  <1>. QED
    BY <1>1, <1>2, <1>3 DEF InTurn

LEMMA TurnFollows ==
    ASSUME InTurn, CurrentExchange + 1 \in Exchanges,
           \A e \in Exchanges : panel'[e] # "none" <=> panel[e] # "none" \/ e = CurrentExchange + 1
    PROVE  InTurn' /\ CurrentExchange' = CurrentExchange + 1
  <1>1. CurrentExchange \in Nat
    BY ExchangeFacts DEF InTurn
  <1>2. \A e \in Exchanges : panel'[e] # "none" <=> e <= CurrentExchange + 1
    BY <1>1, ExchangeFacts DEF InTurn
  <1>3. CurrentExchange' = CurrentExchange + 1
    <2>. DEFINE c == CurrentExchange + 1
    <2>1. c \in Exchanges /\ \A e \in Exchanges : panel'[e] # "none" <=> e <= c
      BY <1>2
    <2>. HIDE DEF c
    <2>2. c = CHOOSE e \in Exchanges : /\ panel'[e] # "none"
                                       /\ \A g \in Exchanges : g > e => panel'[g] = "none"
      BY <2>1, LastOfFirsts
    <2>3. CurrentExchange' = c
      BY <2>2 DEF CurrentExchange
    <2>. QED
      BY <2>3 DEF c
  <1>. QED
    BY <1>2, <1>3 DEF InTurn

LEMMA UnansweredFacts ==
    ASSUME NEW calls
    PROVE  IsFiniteSet(Unanswered(calls)) /\ Cardinality(Unanswered(calls)) \in Nat
  <1>1. IsFiniteSet(1..MaxAbortCalls)
    BY FS_Interval, ExchangeFacts
  <1>2. Unanswered(calls) \in SUBSET (1..MaxAbortCalls)
    BY DEF Unanswered
  <1>3. IsFiniteSet(Unanswered(calls))
    BY <1>1, <1>2, FS_Subset
  <1>. QED
    BY <1>3, FS_CardinalityType

LEMMA OneMoreUnanswered ==
    ASSUME NEW calls, NEW calls2, NEW a \in 1..MaxAbortCalls,
           calls[a].pc \notin {"sent", "landed"}, calls2[a].pc \in {"sent", "landed"},
           \A b \in 1..MaxAbortCalls : b # a => calls2[b] = calls[b]
    PROVE  Cardinality(Unanswered(calls2)) = Cardinality(Unanswered(calls)) + 1
  <1>1. Unanswered(calls2) = Unanswered(calls) \cup {a} /\ a \notin Unanswered(calls)
    BY DEF Unanswered
  <1>. QED
    BY <1>1, UnansweredFacts, FS_AddElement

LEMMA OneLessUnanswered ==
    ASSUME NEW calls, NEW calls2, NEW a \in 1..MaxAbortCalls,
           calls[a].pc \in {"sent", "landed"}, calls2[a].pc \notin {"sent", "landed"},
           \A b \in 1..MaxAbortCalls : b # a => calls2[b] = calls[b]
    PROVE  /\ Cardinality(Unanswered(calls2)) = Cardinality(Unanswered(calls)) - 1
           /\ Cardinality(Unanswered(calls)) > 0
  <1>1. Unanswered(calls2) = Unanswered(calls) \ {a} /\ a \in Unanswered(calls)
    BY DEF Unanswered
  <1>2. Cardinality(Unanswered(calls2)) = Cardinality(Unanswered(calls)) - 1
    BY <1>1, UnansweredFacts, FS_RemoveElement
  <1>. QED
    BY <1>2, UnansweredFacts

LEMMA SameUnanswered ==
    ASSUME NEW calls, NEW calls2,
           \A b \in 1..MaxAbortCalls :
              calls2[b].pc \in {"sent", "landed"} <=> calls[b].pc \in {"sent", "landed"}
    PROVE  Cardinality(Unanswered(calls2)) = Cardinality(Unanswered(calls))
  <1>1. Unanswered(calls2) = Unanswered(calls)
    BY DEF Unanswered
  <1>. QED
    BY <1>1

\* With nothing counted every abort has been answered.
LEMMA NoAbortsMeansNone ==
    ASSUME ThreadTypes, AbortsAreCounted, thread.aborts <= 0
    PROVE  ~NeverAnswered /\ \A a \in 1..MaxAbortCalls : abortCall[a].pc = "free"
  <1>1. Cardinality(Unanswered(abortCall)) = 0 /\ thread.aborts = 0
    <2>1. Cardinality(Unanswered(abortCall)) \in Nat
      BY UnansweredFacts
    <2>2. thread.aborts \in Int
      BY DEF ThreadTypes, Answering
    <2>. QED
      BY <2>1, <2>2 DEF AbortsAreCounted
  <1>2. ~NeverAnswered
    BY <1>1 DEF NeverAnswered
  <1>3. Unanswered(abortCall) = {}
    BY <1>1, UnansweredFacts, FS_EmptySet
  <1>4. ASSUME NEW a \in 1..MaxAbortCalls
        PROVE  abortCall[a].pc = "free"
    <2>1. abortCall[a].pc \in {"free", "sent", "landed", "late"}
      BY DEF ThreadTypes, AbortCalls
    <2>2. abortCall[a].pc \notin {"sent", "landed"}
      BY <1>3 DEF Unanswered
    <2>3. abortCall[a].pc # "late"
      BY <1>2 DEF AbortsAreCounted
    <2>. QED
      BY <2>1, <2>2, <2>3
  <1>. QED
    BY <1>2, <1>4

LEMMA LiveHasNoAborts ==
    ASSUME ThreadTypes, AbortsAreCounted, LiveIsClean, Live
    PROVE  ~NeverAnswered /\ \A a \in 1..MaxAbortCalls : abortCall[a].pc = "free"
  BY NoAbortsMeansNone DEF LiveIsClean

ThreadParts ==
    /\ InTurn /\ AbortsAreCounted /\ PromptsAreKnown /\ LiveIsClean
    /\ NothingRunsOn /\ EventsInOrder /\ EndsAreItsOwn

\* What tells the end of the exchange hangs on these.
LEMMA TellsStays ==
    ASSUME NEW i, inbox' = inbox, CurrentExchange' = CurrentExchange,
           thread'.needsAssistant = thread.needsAssistant, thread'.assistant = thread.assistant
    PROVE  /\ IsProven(i)' <=> IsProven(i)
           /\ Tells(i)' <=> Tells(i)
           /\ Foremost(i)' <=> Foremost(i)
  <1>1. ASSUME NEW k
        PROVE  IsProven(k)' <=> IsProven(k)
    BY DEF IsProven, Answers
  <1>2. ASSUME NEW k
        PROVE  Tells(k)' <=> Tells(k)
    BY <1>1 DEF Tells
  <1>. QED
    BY <1>1, <1>2 DEF Foremost

\* Of the order of events nothing changes while those that are told, and what is
\* known of their runs, stay.
LEMMA OrderStays ==
    ASSUME EventsInOrder, inbox' = inbox, CurrentExchange' = CurrentExchange, amiss \subseteq amiss',
           "prompt" \in amiss => "prompt" \in amiss',
           CurrentExchange = 1 \/ ("prompt" \in amiss' => "prompt" \in amiss),
           "event" \in amiss' => "event" \in amiss,
           thread'.needsAssistant = thread.needsAssistant, thread'.assistant = thread.assistant,
           Ours' => Ours, Live' => Live,
           \A e \in Exchanges : runs[e] \notin {"none", "running"} => runs'[e] \notin {"none", "running"},
           CurrentExchange \in Exchanges,
           \/ runs'[CurrentExchange] = runs[CurrentExchange]
           \/ ~Ended(CurrentExchange) /\ runs'[CurrentExchange] \notin {"finished", "failed"},
           Ours' /\ thread'.aborts > 0 => thread.aborts > 0 \/ thread'.stale,
           Ours' /\ thread.stale => thread'.stale
    PROVE  EventsInOrder'
  <1>1. \A i : (IsProven(i)' <=> IsProven(i)) /\ (Tells(i)' <=> Tells(i)) /\ (Foremost(i)' <=> Foremost(i))
    BY TellsStays
  <1>2. Ended(CurrentExchange)' <=> Ended(CurrentExchange)
    BY DEF Ended
  <1>3. \A type : EndsAs(type) => EndsAs(type)'
    BY DEF EndsAs, Ended
  <1>4. Unsafe(CurrentExchange) => Unsafe(CurrentExchange)'
    BY DEF Unsafe
  <1>5. /\ (\A i \in 1..Len(inbox) : inbox[i].type = "answer" =>
              inbox[i].own /\ inbox[i].of \in Exchanges /\ runs[inbox[i].of] \notin {"none", "running"})'
        /\ (Ours /\ thread.assistant => runs[CurrentExchange] \notin {"none", "running"})'
        /\ (Ours /\ ((\E i \in 1..Len(inbox) : ~inbox[i].own) \/ thread.aborts > 0) => thread.stale)'
    BY DEF EventsInOrder
  <1>6. (Live => \A i \in 1..Len(inbox) : ~inbox[i].own => ~IsProven(i))'
    BY <1>1 DEF EventsInOrder
  <1>7. (Live /\ (Sure \/ CurrentExchange = 1) =>
          \A i \in 1..Len(inbox) : Tells(i) =>
             /\ Ended(CurrentExchange)
             /\ inbox[i].type = "error" => runs[CurrentExchange] = "failed")'
    BY <1>1, <1>2 DEF EventsInOrder, Sure, Ended
  <1>8. (Live /\ ~Unsafe(CurrentExchange) =>
          \A i \in 1..Len(inbox) : Foremost(i) => EndsAs(inbox[i].type))'
    BY <1>1, <1>3, <1>4 DEF EventsInOrder
  <1>9. (Live /\ ~Sure /\ "event" \notin amiss /\ CurrentExchange = 2 /\ Ended(2)
          /\ IsProven(Len(inbox) + 1) => \E i \in 1..Len(inbox) : Tells(i))'
    <2>1. SUFFICES ASSUME (Live /\ ~Sure /\ "event" \notin amiss /\ CurrentExchange = 2 /\ Ended(2)
                             /\ IsProven(Len(inbox) + 1))'
                   PROVE  (\E i \in 1..Len(inbox) : Tells(i))'
      OBVIOUS
    <2>2. Live /\ ~Sure /\ "event" \notin amiss /\ CurrentExchange = 2 /\ Ended(2)
      BY <2>1, <1>2 DEF Sure
    <2>3. IsProven(Len(inbox) + 1)
      BY <2>1, <1>1
    <2>. QED
      BY <2>2, <2>3, <1>1 DEF EventsInOrder
  <1>. QED
    BY <1>5, <1>6, <1>7, <1>8, <1>9 DEF EventsInOrder

\* The heartbeat, the opening and the clearing of the fork do not touch the thread.
LEMMA Beside ==
    ASSUME ThreadInv, UNCHANGED <<initial, attempt, panel, prompt, runs, inbox, abortCall>>,
           thread' = [thread EXCEPT !.beating = thread'.beating],
           amiss' \in {amiss, amiss \cup {"unmark"}}, mishaps' \in Nat, mishaps <= mishaps',
           forkOwner' = forkOwner \/ (Ours /\ forkOwner' = "user" /\ ~thread.pending)
    PROVE  ThreadParts'
  <1>. USE DEF ThreadInv
  <1>1. InTurn' /\ CurrentExchange' = CurrentExchange
    BY TurnStays
  <1>2. /\ thread'.streaming = thread.streaming /\ thread'.accepting = thread.accepting
        /\ thread'.prompted = thread.prompted /\ thread'.assistant = thread.assistant
        /\ thread'.needsAssistant = thread.needsAssistant /\ thread'.stale = thread.stale
        /\ thread'.pending = thread.pending /\ thread'.cancelled = thread.cancelled
        /\ thread'.aborts = thread.aborts
    BY DEF ThreadTypes, Answering
  <1>3. /\ "prompt" \in amiss' <=> "prompt" \in amiss
        /\ "event" \in amiss' <=> "event" \in amiss
        /\ amiss \subseteq amiss'
    OBVIOUS
  <1>4. (Ours' => Ours) /\ (Live' => Live)
    BY <1>2 DEF Ours, Live
  <1>5. NeverAnswered' <=> NeverAnswered
    BY <1>2 DEF NeverAnswered
  <1>6. AbortsAreCounted'
    <2>1. mishaps \in Nat /\ Cardinality(Unanswered(abortCall)) \in Nat /\ thread.aborts \in Int
      BY UnansweredFacts DEF ThreadTypes, Answering
    <2>2. /\ Cardinality(Unanswered(abortCall)) <= thread.aborts
          /\ thread.aborts <= Cardinality(Unanswered(abortCall)) + mishaps'
      BY <2>1 DEF AbortsAreCounted
    <2>3. ASSUME NEW a \in 1..MaxAbortCalls, abortCall[a].pc # "free", abortCall[a].waiter = TheReleaser
          PROVE  forkOwner' = "nobody"
      BY <2>3 DEF AbortsAreCounted, Ours
    <2>. QED
      BY <1>1, <1>2, <1>5, <2>2, <2>3 DEF AbortsAreCounted
  <1>7. PromptsAreKnown'
    BY <1>1, <1>2, <1>3 DEF PromptsAreKnown, Sure
  <1>8. LiveIsClean'
    BY <1>1, <1>2, <1>4 DEF LiveIsClean
  <1>9. NothingRunsOn'
    BY <1>1, <1>2, <1>3, <1>4, <1>5 DEF NothingRunsOn, Sure, Owed, IsRun, Ended
  <1>10. EventsInOrder'
    BY <1>1, <1>2, <1>3, <1>4, OrderStays DEF InTurn
  <1>11. EndsAreItsOwn'
    BY <1>3 DEF EndsAreItsOwn, Unsafe
  <1>. QED
    BY <1>1, <1>6, <1>7, <1>8, <1>9, <1>10, <1>11 DEF ThreadParts

LEMMA MishapFacts ==
    ASSUME ThreadTypes
    PROVE  /\ mishaps \in Nat /\ mishaps <= mishaps /\ mishaps \in 0..MaxMishaps
           /\ SideMishap => mishaps' \in Nat /\ mishaps <= mishaps' /\ mishaps' \in 0..MaxMishaps
  BY STAssumption DEF ThreadTypes, SideMishap

LEMMA ClearForkKeeps ==
    ASSUME ThreadInv, ClearFork
    PROVE  ThreadInv'
  <1>. USE DEF ThreadInv
  <1>1. /\ UNCHANGED <<plan, initial, attempt, panel, prompt, runs, inbox, abortCall>>
        /\ thread' = [thread EXCEPT !.beating = thread'.beating] /\ thread' \in Answering
        /\ amiss' \in {amiss, amiss \cup {"unmark"}}
        /\ mishaps' \in Nat /\ mishaps <= mishaps' /\ mishaps' \in 0..MaxMishaps
    BY MishapFacts DEF ClearFork, ThreadTypes, Answering, stVars, stHost, stSession, stCalls, stBounds
  <1>2. forkOwner' = forkOwner \/ (Ours /\ forkOwner' = "user" /\ ~thread.pending)
    BY DEF ClearFork, Ours
  <1>3. ThreadTypes'
    BY <1>1, <1>2, Zenon DEF ClearFork, ThreadTypes, Ours, stHost, stSession, stCalls, stBounds
  <1>4. ForkIsGuarded'
    BY <1>1, <1>2 DEF ClearFork, ForkIsGuarded, StillDue, Ours, ThreadTypes, Answering, stHost, stSession, stCalls,
          stBounds
  <1>5. ThreadParts'
    BY <1>1, <1>2, Beside
  <1>. QED
    BY <1>3, <1>4, <1>5 DEF ThreadParts

LEMMA StartBeatKeeps ==
    ASSUME ThreadInv, StartBeat
    PROVE  ThreadInv'
  <1>. USE DEF ThreadInv
  <1>1. /\ UNCHANGED <<plan, initial, attempt, panel, prompt, runs, inbox, abortCall>>
        /\ thread' = [thread EXCEPT !.beating = thread'.beating] /\ thread' \in Answering
        /\ amiss' \in {amiss, amiss \cup {"unmark"}}
        /\ mishaps' \in Nat /\ mishaps <= mishaps' /\ mishaps' \in 0..MaxMishaps
    BY MishapFacts DEF StartBeat, ThreadTypes, Answering, stVars, stHost, stSession, stCalls, stBounds
  <1>2. forkOwner' = forkOwner \/ (Ours /\ forkOwner' = "user" /\ ~thread.pending)
    BY DEF StartBeat, Ours
  <1>3. ThreadTypes'
    BY <1>1, <1>2 DEF StartBeat, ThreadTypes, Ours, stHost, stSession, stCalls, stBounds
  <1>4. ForkIsGuarded'
    BY <1>1, <1>2 DEF StartBeat, ForkIsGuarded, StillDue, Ours, ThreadTypes, Answering, stHost, stSession, stCalls,
          stBounds
  <1>5. ThreadParts'
    BY <1>1, <1>2, Beside
  <1>. QED
    BY <1>3, <1>4, <1>5 DEF ThreadParts

LEMMA BeatMarksKeeps ==
    ASSUME ThreadInv, BeatMarks
    PROVE  ThreadInv'
  <1>. USE DEF ThreadInv
  <1>1. /\ UNCHANGED <<plan, initial, attempt, panel, prompt, runs, inbox, abortCall>>
        /\ thread' = [thread EXCEPT !.beating = thread'.beating] /\ thread' \in Answering
        /\ amiss' \in {amiss, amiss \cup {"unmark"}}
        /\ mishaps' \in Nat /\ mishaps <= mishaps' /\ mishaps' \in 0..MaxMishaps
    BY MishapFacts DEF BeatMarks, ThreadTypes, Answering, stVars, stHost, stSession, stCalls, stBounds
  <1>2. forkOwner' = forkOwner \/ (Ours /\ forkOwner' = "user" /\ ~thread.pending)
    BY DEF BeatMarks, Ours
  <1>3. ThreadTypes'
    BY <1>1, <1>2, Zenon DEF BeatMarks, ThreadTypes, Ours, stHost, stSession, stCalls, stBounds
  <1>4. ForkIsGuarded'
    BY <1>1, <1>2 DEF BeatMarks, ForkIsGuarded, StillDue, Ours, ThreadTypes, Answering, stHost, stSession, stCalls,
          stBounds
  <1>5. ThreadParts'
    BY <1>1, <1>2, Beside
  <1>. QED
    BY <1>3, <1>4, <1>5 DEF ThreadParts

LEMMA BeatReturnsKeeps ==
    ASSUME ThreadInv, BeatReturns
    PROVE  ThreadInv'
  <1>. USE DEF ThreadInv
  <1>1. /\ UNCHANGED <<plan, initial, attempt, panel, prompt, runs, inbox, abortCall>>
        /\ thread' = [thread EXCEPT !.beating = thread'.beating] /\ thread' \in Answering
        /\ amiss' \in {amiss, amiss \cup {"unmark"}}
        /\ mishaps' \in Nat /\ mishaps <= mishaps' /\ mishaps' \in 0..MaxMishaps
    BY MishapFacts DEF BeatReturns, ThreadTypes, Answering, stVars, stHost, stSession, stCalls, stBounds
  <1>2. forkOwner' = forkOwner \/ (Ours /\ forkOwner' = "user" /\ ~thread.pending)
    BY DEF BeatReturns, Ours
  <1>3. ThreadTypes'
    BY <1>1, <1>2 DEF BeatReturns, ThreadTypes, Ours, stHost, stSession, stCalls, stBounds
  <1>4. ForkIsGuarded'
    BY <1>1, <1>2 DEF BeatReturns, ForkIsGuarded, StillDue, Ours, ThreadTypes, Answering, stHost, stSession, stCalls,
          stBounds, BeatIsDue
  <1>5. ThreadParts'
    BY <1>1, <1>2, Beside
  <1>. QED
    BY <1>3, <1>4, <1>5 DEF ThreadParts

LEMMA BeatUnmarksKeeps ==
    ASSUME ThreadInv, BeatUnmarks
    PROVE  ThreadInv'
  <1>. USE DEF ThreadInv
  <1>1. /\ UNCHANGED <<plan, initial, attempt, panel, prompt, runs, inbox, abortCall>>
        /\ thread' = [thread EXCEPT !.beating = thread'.beating] /\ thread' \in Answering
        /\ amiss' \in {amiss, amiss \cup {"unmark"}}
        /\ mishaps' \in Nat /\ mishaps <= mishaps' /\ mishaps' \in 0..MaxMishaps
    BY MishapFacts DEF BeatUnmarks, ThreadTypes, Answering, stVars, stHost, stSession, stCalls, stBounds
  <1>2. forkOwner' = forkOwner \/ (Ours /\ forkOwner' = "user" /\ ~thread.pending)
    BY DEF BeatUnmarks, Ours
  <1>3. ThreadTypes'
    BY <1>1, <1>2, Zenon DEF BeatUnmarks, ThreadTypes, Ours, stHost, stSession, stCalls, stBounds
  <1>4. ForkIsGuarded'
    BY <1>1, <1>2 DEF BeatUnmarks, ForkIsGuarded, StillDue, Ours, ThreadTypes, Answering, stHost, stSession, stCalls,
          stBounds
  <1>5. ThreadParts'
    BY <1>1, <1>2, Beside
  <1>. QED
    BY <1>3, <1>4, <1>5 DEF ThreadParts

LEMMA OpenForkKeeps ==
    ASSUME ThreadInv, OpenFork
    PROVE  ThreadInv'
  <1>. USE DEF ThreadInv
  <1>1. /\ UNCHANGED <<plan, initial, attempt, panel, prompt, runs, inbox, abortCall>>
        /\ thread' = [thread EXCEPT !.beating = thread'.beating] /\ thread' \in Answering
        /\ amiss' \in {amiss, amiss \cup {"unmark"}}
        /\ mishaps' \in Nat /\ mishaps <= mishaps' /\ mishaps' \in 0..MaxMishaps
    BY MishapFacts DEF OpenFork, ThreadTypes, Answering, stVars, stHost, stSession, stCalls, stBounds
  <1>2. forkOwner' = forkOwner \/ (Ours /\ forkOwner' = "user" /\ ~thread.pending)
    BY DEF OpenFork, Ours
  <1>3. ThreadTypes'
    BY <1>1, <1>2 DEF OpenFork, ThreadTypes, Ours, stHost, stSession, stCalls, stBounds
  <1>4. ForkIsGuarded'
    BY <1>1, <1>2 DEF OpenFork, ForkIsGuarded, StillDue, Ours, ThreadTypes, Answering, stHost, stSession, stCalls,
          stBounds, CanReuse
  <1>5. ThreadParts'
    BY <1>1, <1>2, Beside
  <1>. QED
    BY <1>3, <1>4, <1>5 DEF ThreadParts

LEMMA OpenUnmarksKeeps ==
    ASSUME ThreadInv, OpenUnmarks
    PROVE  ThreadInv'
  <1>. USE DEF ThreadInv
  <1>1. /\ UNCHANGED <<plan, initial, attempt, panel, prompt, runs, inbox, abortCall>>
        /\ thread' = [thread EXCEPT !.beating = thread'.beating] /\ thread' \in Answering
        /\ amiss' \in {amiss, amiss \cup {"unmark"}}
        /\ mishaps' \in Nat /\ mishaps <= mishaps' /\ mishaps' \in 0..MaxMishaps
    BY MishapFacts DEF OpenUnmarks, ThreadTypes, Answering, stVars, stHost, stSession, stCalls, stBounds
  <1>2. forkOwner' = forkOwner \/ (Ours /\ forkOwner' = "user" /\ ~thread.pending)
    BY DEF OpenUnmarks, Ours
  <1>3. ThreadTypes'
    BY <1>1, <1>2, Zenon DEF OpenUnmarks, ThreadTypes, Ours, stHost, stSession, stCalls, stBounds
  <1>4. ForkIsGuarded'
    BY <1>1, <1>2 DEF OpenUnmarks, ForkIsGuarded, StillDue, Ours, ThreadTypes, Answering, stHost, stSession, stCalls,
          stBounds
  <1>5. ThreadParts'
    BY <1>1, <1>2, Beside
  <1>. QED
    BY <1>3, <1>4, <1>5 DEF ThreadParts

LEMMA OpenReturnsKeeps ==
    ASSUME ThreadInv, OpenReturns
    PROVE  ThreadInv'
  <1>. USE DEF ThreadInv
  <1>1. /\ UNCHANGED <<plan, initial, attempt, panel, prompt, runs, inbox, abortCall>>
        /\ thread' = [thread EXCEPT !.beating = thread'.beating] /\ thread' \in Answering
        /\ amiss' \in {amiss, amiss \cup {"unmark"}}
        /\ mishaps' \in Nat /\ mishaps <= mishaps' /\ mishaps' \in 0..MaxMishaps
    BY MishapFacts DEF OpenReturns, ThreadTypes, Answering, stVars, stHost, stSession, stCalls, stBounds
  <1>2. forkOwner' = forkOwner \/ (Ours /\ forkOwner' = "user" /\ ~thread.pending)
    BY DEF OpenReturns, Ours, CanReuse
  <1>3. ThreadTypes'
    BY <1>1, <1>2 DEF OpenReturns, ThreadTypes, Ours, stHost, stSession, stCalls, stBounds
  <1>4. ForkIsGuarded'
    BY <1>1, <1>2 DEF OpenReturns, ForkIsGuarded, StillDue, Ours, ThreadTypes, Answering, stHost, stSession, stCalls,
          stBounds, CanReuse
  <1>5. ThreadParts'
    BY <1>1, <1>2, Beside
  <1>. QED
    BY <1>3, <1>4, <1>5 DEF ThreadParts

LEMMA OpenRemarksKeeps ==
    ASSUME ThreadInv, OpenRemarks
    PROVE  ThreadInv'
  <1>. USE DEF ThreadInv
  <1>1. /\ UNCHANGED <<plan, initial, attempt, panel, prompt, runs, inbox, abortCall>>
        /\ thread' = [thread EXCEPT !.beating = thread'.beating] /\ thread' \in Answering
        /\ amiss' \in {amiss, amiss \cup {"unmark"}}
        /\ mishaps' \in Nat /\ mishaps <= mishaps' /\ mishaps' \in 0..MaxMishaps
    BY MishapFacts DEF OpenRemarks, ThreadTypes, Answering, stVars, stHost, stSession, stCalls, stBounds
  <1>2. forkOwner' = forkOwner \/ (Ours /\ forkOwner' = "user" /\ ~thread.pending)
    BY DEF OpenRemarks, Ours
  <1>3. ThreadTypes'
    BY <1>1, <1>2 DEF OpenRemarks, ThreadTypes, Ours, stHost, stSession, stCalls, stBounds
  <1>4. ForkIsGuarded'
    BY <1>1, <1>2 DEF OpenRemarks, ForkIsGuarded, StillDue, Ours, ThreadTypes, Answering, stHost, stSession, stCalls,
          stBounds
  <1>5. ThreadParts'
    BY <1>1, <1>2, Beside
  <1>. QED
    BY <1>3, <1>4, <1>5 DEF ThreadParts

LEMMA OpenGivesUpKeeps ==
    ASSUME ThreadInv, OpenGivesUp
    PROVE  ThreadInv'
  <1>. USE DEF ThreadInv
  <1>1. /\ UNCHANGED <<plan, initial, attempt, panel, prompt, runs, inbox, abortCall>>
        /\ thread' = [thread EXCEPT !.beating = thread'.beating] /\ thread' \in Answering
        /\ amiss' \in {amiss, amiss \cup {"unmark"}}
        /\ mishaps' \in Nat /\ mishaps <= mishaps' /\ mishaps' \in 0..MaxMishaps
    BY MishapFacts DEF OpenGivesUp, ThreadTypes, Answering, stVars, stHost, stSession, stCalls, stBounds
  <1>2. forkOwner' = forkOwner \/ (Ours /\ forkOwner' = "user" /\ ~thread.pending)
    BY DEF OpenGivesUp, Ours
  <1>3. ThreadTypes'
    BY <1>1, <1>2 DEF OpenGivesUp, ThreadTypes, Ours, stHost, stSession, stCalls, stBounds
  <1>4. ForkIsGuarded'
    BY <1>1, <1>2 DEF OpenGivesUp, ForkIsGuarded, StillDue, Ours, ThreadTypes, Answering, stHost, stSession, stCalls,
          stBounds
  <1>5. ThreadParts'
    BY <1>1, <1>2, Beside
  <1>. QED
    BY <1>3, <1>4, <1>5 DEF ThreadParts

LEMMA GuardStays ==
    ASSUME ForkIsGuarded, UNCHANGED <<plan, forkOwner, marked, forkExists, beat, opening, releasing>>,
           thread'.beating = thread.beating, amiss \subseteq amiss',
           forkOwner = "user" => thread'.aborts = thread.aborts
    PROVE  ForkIsGuarded'
  BY DEF ForkIsGuarded, StillDue, Ours

LEMMA CountStays ==
    ASSUME ThreadTypes, AbortsAreCounted, CurrentExchange' = CurrentExchange, abortCall' = abortCall,
           thread'.aborts = thread.aborts, mishaps' \in Nat, mishaps <= mishaps',
           initial' = "prompt" => initial = "prompt",
           \A e \in Exchanges : attempt[e].pc \in {"abort", "end"} => attempt'[e].pc \in {"abort", "end"},
           forkOwner = "nobody" => forkOwner' = "nobody"
    PROVE  AbortsAreCounted' /\ (NeverAnswered' <=> NeverAnswered)
  <1>1. NeverAnswered' <=> NeverAnswered
    BY DEF NeverAnswered
  <1>2. mishaps \in Nat /\ Cardinality(Unanswered(abortCall)) \in Nat /\ thread.aborts \in Int
    BY UnansweredFacts, MishapFacts DEF ThreadTypes, Answering
  <1>3. /\ Cardinality(Unanswered(abortCall)) <= thread.aborts
        /\ thread.aborts <= Cardinality(Unanswered(abortCall)) + mishaps'
    BY <1>2 DEF AbortsAreCounted
  <1>4. 2..MaxExchanges \subseteq Exchanges
    BY ExchangeFacts DEF Exchanges
  <1>. QED
    BY <1>1, <1>3, <1>4 DEF AbortsAreCounted

LEMMA EndsStay ==
    ASSUME EndsAreItsOwn, panel' = panel, amiss \subseteq amiss',
           \A e \in Exchanges : Ended(e) => runs'[e] = runs[e]
    PROVE  EndsAreItsOwn'
  BY DEF EndsAreItsOwn, Unsafe, Ended

LEMMA PromptArrivesKeeps ==
    ASSUME ThreadInv, NEW e \in Exchanges, PromptArrives(e)
    PROVE  ThreadInv'
  <1>. USE DEF ThreadInv
  <1>1. /\ UNCHANGED <<plan, forkOwner, thread, initial, attempt, panel, inbox, abortCall, marked,
                       forkExists, beat, opening, releasing, amiss>>
        /\ mishaps' \in Nat /\ mishaps <= mishaps' /\ mishaps' \in 0..MaxMishaps
    BY MishapFacts DEF PromptArrives, stSession, stCalls
  <1>2. /\ prompt[e] = "sent"
        /\ \/ prompt' = [prompt EXCEPT ![e] = "admitted"] /\ runs' = [runs EXCEPT ![e] = "running"]
           \/ prompt' = [prompt EXCEPT ![e] = "refused"] /\ runs' = runs
    BY DEF PromptArrives
  <1>3. InTurn' /\ CurrentExchange' = CurrentExchange
    BY <1>1, TurnStays
  <1>4. ThreadTypes'
    BY <1>1, <1>2 DEF ThreadTypes
  <1>5. AbortsAreCounted' /\ (NeverAnswered' <=> NeverAnswered)
    BY <1>1, <1>3, CountStays
  <1>6. runs[e] = "none"
    BY <1>2, ExchangeFacts DEF PromptsAreKnown, ThreadTypes
  <1>7. /\ e # CurrentExchange => e = 1
        /\ e = 1 => thread.pending \/ ~Sure
    BY <1>2, ExchangeFacts DEF PromptsAreKnown
  <1>9. /\ runs' \in [Exchanges -> {"none", "running", "answered", "finished", "failed", "aborted"}]
        /\ \A f \in Exchanges : f # e => runs'[f] = runs[f] /\ prompt'[f] = prompt[f]
        /\ runs'[e] \in {"none", "running"} /\ prompt'[e] # "sent" /\ prompt'[e] # "none"
    BY <1>2, <1>6 DEF ThreadTypes
  <1>8. PromptsAreKnown'
    <2>1. \A f \in Exchanges : (runs[f] # "none" <=> prompt[f] = "admitted")'
      BY <1>2, <1>6, <1>9 DEF PromptsAreKnown, ThreadTypes
    <2>2. \A f \in Exchanges :
            /\ prompt'[f] = "none" <=> prompt[f] = "none"
            /\ prompt[f] = "admitted" => prompt'[f] = "admitted"
            /\ prompt'[f] = "sent" => prompt[f] = "sent"
      BY <1>2, <1>9
    <2>. QED
      BY <1>1, <1>3, <2>1, <2>2, ExchangeFacts DEF PromptsAreKnown, Sure, InTurn
  <1>10. LiveIsClean'
    BY <1>1, <1>3, <1>9 DEF LiveIsClean, Live, Ours, InTurn
  <1>11. NothingRunsOn'
    <2>1. \A f \in Exchanges : Ended(f)' <=> Ended(f)
      BY <1>6, <1>9 DEF Ended
    <2>2. Ours /\ (Sure \/ (CurrentExchange = 2 /\ thread.streaming /\ ~thread.needsAssistant /\ ~thread.assistant)) =>
            ~(e < CurrentExchange)
      BY <1>2 DEF NothingRunsOn
    <2>3. Ours /\ Sure /\ ~thread.streaming /\ e = CurrentExchange => Owed
      BY <1>2 DEF NothingRunsOn
    <2>4. Owed' <=> Owed
      BY <1>1, <1>3 DEF Owed
    <2>5. \A f \in Exchanges : f # e => (IsRun(f)' <=> IsRun(f))
      BY <1>9 DEF IsRun
    <2>. QED
      BY <1>1, <1>3, <1>5, <1>9, <2>1, <2>2, <2>3, <2>4, <2>5, ExchangeFacts DEF NothingRunsOn, Ours, Sure, InTurn
  <1>12. EventsInOrder'
    BY <1>1, <1>3, <1>6, <1>9, OrderStays DEF InTurn, Ours, Live, Ended
  <1>13. ForkIsGuarded'
    BY <1>1, GuardStays
  <1>14. EndsAreItsOwn'
    BY <1>1, <1>6, <1>9, EndsStay DEF Ended
  <1>. QED
    BY <1>3, <1>4, <1>5, <1>8, <1>10, <1>11, <1>12, <1>13, <1>14

Joins(u, s, t) == u = s \o t

LEMMA Joined ==
    ASSUME NEW S, NEW s \in Seq(S), NEW t \in Seq(S), NEW u, Joins(u, s, t)
    PROVE  /\ u \in Seq(S) /\ Len(u) = Len(s) + Len(t)
           /\ \A i \in 1..Len(s) : u[i] = s[i]
           /\ \A i \in 1..Len(t) : u[Len(s) + i] = t[i]
  <1>. DEFINE v == s \o t
  <1>1. /\ v \in Seq(S) /\ Len(v) = Len(s) + Len(t)
        /\ \A i \in 1..Len(s) + Len(t) : v[i] = IF i <= Len(s) THEN s[i] ELSE t[i - Len(s)]
    BY ONLY s \in Seq(S), t \in Seq(S), ConcatProperties
  <1>2. u = v
    BY DEF Joins
  <1>. HIDE DEF v
  <1>3. Len(s) \in Nat /\ Len(t) \in Nat
    OBVIOUS
  <1>4. ASSUME NEW i \in 1..Len(s)
        PROVE  v[i] = s[i]
    BY <1>1, <1>3
  <1>5. ASSUME NEW i \in 1..Len(t)
        PROVE  v[Len(s) + i] = t[i]
    <2>1. Len(s) + i \in 1..Len(s) + Len(t) /\ ~(Len(s) + i <= Len(s)) /\ (Len(s) + i) - Len(s) = i
      BY <1>3
    <2>. QED
      BY <1>1, <2>1
  <1>. QED
    BY <1>1, <1>2, <1>4, <1>5

\* What is published comes after what is on its way.
LEMMA Published ==
    ASSUME ThreadTypes, NEW types, NEW own \in BOOLEAN,
           types \in {<<"idle">>, <<"error", "idle">>, <<"granted">>},
           inbox' = inbox \o Burst(types, own)
    PROVE  /\ inbox' \in Seq(ThreadEvents) /\ Len(inbox') = Len(inbox) + Len(types)
           /\ Len(types) \in {1, 2}
           /\ \A i \in 1..Len(inbox) : inbox'[i] = inbox[i]
           /\ \A i \in 1..Len(types) :
                 inbox'[Len(inbox) + i] = [type |-> types[i], of |-> 0, own |-> own]
  <1>1. Len(types) \in {1, 2} /\ types \in Seq({"idle", "error", "granted"}) /\ DOMAIN types = 1..Len(types)
    <2>1. CASE types = <<"idle">>
      BY <2>1
    <2>2. CASE types = <<"error", "idle">>
      BY <2>2
    <2>3. CASE types = <<"granted">>
      BY <2>3
    <2>. QED
      BY <2>1, <2>2, <2>3
  <1>2. 0 \in 0..MaxExchanges
    BY ExchangeFacts
  <1>3. \A i \in 1..Len(types) : [type |-> types[i], of |-> 0, own |-> own] \in ThreadEvents
    BY <1>1, <1>2 DEF ThreadEvents
  <1>4. Burst(types, own) \in Seq(ThreadEvents) /\ Len(Burst(types, own)) = Len(types)
        /\ \A i \in 1..Len(types) : Burst(types, own)[i] = [type |-> types[i], of |-> 0, own |-> own]
    BY <1>1, <1>3 DEF Burst
  <1>5. inbox \in Seq(ThreadEvents) /\ Len(inbox) \in Nat
    BY DEF ThreadTypes
  <1>6. Joins(inbox', inbox, Burst(types, own))
    BY DEF Joins
  <1>7. /\ inbox' \in Seq(ThreadEvents) /\ Len(inbox') = Len(inbox) + Len(types)
        /\ \A i \in 1..Len(inbox) : inbox'[i] = inbox[i]
        /\ \A i \in 1..Len(types) : inbox'[Len(inbox) + i] = Burst(types, own)[i]
    BY ONLY <1>4, <1>5, <1>6, Joined
  <1>. QED
    BY ONLY <1>1, <1>4, <1>7

\* Later events do not change what the earlier ones tell.
LEMMA TellsOfBefore ==
    ASSUME NEW n \in Nat, Len(inbox) = n, n <= Len(inbox'), Len(inbox') \in Nat,
           \A i \in 1..n : inbox'[i] = inbox[i], CurrentExchange' = CurrentExchange,
           thread'.needsAssistant = thread.needsAssistant, thread'.assistant = thread.assistant
    PROVE  /\ \A i \in 1..n + 1 : IsProven(i)' <=> IsProven(i)
           /\ \A i \in 1..n : (Tells(i)' <=> Tells(i)) /\ (Foremost(i)' <=> Foremost(i))
           /\ (\A i \in n + 1..Len(inbox') : inbox'[i].type # "answer" \/ inbox'[i].of # CurrentExchange)
              => \A i \in n + 1..Len(inbox') + 1 : IsProven(i)' <=> IsProven(n + 1)
  <1>1. \A k \in 1..n : Answers(k)' <=> Answers(k)
    BY DEF Answers
  <1>2. ASSUME NEW i \in 1..n + 1
        PROVE  IsProven(i)' <=> IsProven(i)
    <2>1. \A k \in 1..i - 1 : k \in 1..n
      OBVIOUS
    <2>2. (\E k \in 1..i - 1 : Answers(k)') <=> (\E k \in 1..i - 1 : Answers(k))
      BY <1>1, <2>1
    <2>. QED
      BY <2>2 DEF IsProven
  <1>3. \A i \in 1..n : Tells(i)' <=> Tells(i)
    BY <1>2 DEF Tells
  <1>4. ASSUME NEW i \in 1..n
        PROVE  Foremost(i)' <=> Foremost(i)
    <2>1. \A k \in 1..i - 1 : k \in 1..n
      OBVIOUS
    <2>2. (\A k \in 1..i - 1 : ~Tells(k)') <=> (\A k \in 1..i - 1 : ~Tells(k))
      BY <1>3, <2>1
    <2>. QED
      BY <2>2, <1>3 DEF Foremost
  <1>5. ASSUME \A i \in n + 1..Len(inbox') : inbox'[i].type # "answer" \/ inbox'[i].of # CurrentExchange,
               NEW i \in n + 1..Len(inbox') + 1
        PROVE  IsProven(i)' <=> IsProven(n + 1)
    <2>1. \A k \in 1..i - 1 : k \in 1..n \/ k \in n + 1..Len(inbox')
      OBVIOUS
    <2>2. \A k \in n + 1..Len(inbox') : ~Answers(k)'
      BY <1>5 DEF Answers
    <2>3. \A k \in 1..n : k \in 1..i - 1 /\ k \in 1..(n + 1) - 1
      OBVIOUS
    <2>4. \A k \in 1..(n + 1) - 1 : k \in 1..n
      OBVIOUS
    <2>5. (\E k \in 1..i - 1 : Answers(k)') <=> (\E k \in 1..(n + 1) - 1 : Answers(k))
      BY <1>1, <2>1, <2>2, <2>3, <2>4
    <2>. QED
      BY <2>5 DEF IsProven
  <1>. QED
    BY <1>2, <1>3, <1>4, <1>5

\* One more event of ours that ends nothing.
LEMMA OrderGrows ==
    ASSUME EventsInOrder, inbox \in Seq(ThreadEvents), inbox' \in Seq(ThreadEvents),
           NEW n \in Nat, Len(inbox) = n, Len(inbox') = n + 1, \A i \in 1..n : inbox'[i] = inbox[i],
           inbox'[n + 1].own, inbox'[n + 1].type \in {"answer", "granted"},
           inbox'[n + 1].type = "answer" =>
              inbox'[n + 1].of \in Exchanges /\ runs'[inbox'[n + 1].of] = "answered",
           CurrentExchange' = CurrentExchange, CurrentExchange \in Exchanges,
           UNCHANGED <<forkOwner, thread, amiss>>,
           \/ runs'[CurrentExchange] = runs[CurrentExchange]
           \/ ~Ended(CurrentExchange) /\ runs'[CurrentExchange] \notin {"finished", "failed"},
           \A e \in Exchanges : runs[e] \notin {"none", "running"} => runs'[e] \notin {"none", "running"}
    PROVE  EventsInOrder'
  <1>1. /\ \A i \in 1..n + 1 : IsProven(i)' <=> IsProven(i)
        /\ \A i \in 1..n : (Tells(i)' <=> Tells(i)) /\ (Foremost(i)' <=> Foremost(i))
        /\ (inbox'[n + 1].type # "answer" \/ inbox'[n + 1].of # CurrentExchange)
              => (IsProven(n + 2)' <=> IsProven(n + 1))
    <2>1. \A i \in n + 1..Len(inbox') : i = n + 1
      OBVIOUS
    <2>2. n + 2 \in n + 1..Len(inbox') + 1
      OBVIOUS
    <2>. QED
      BY <2>1, <2>2, TellsOfBefore
  <1>2. \A i \in 1..Len(inbox') : i \in 1..n \/ i = n + 1
    OBVIOUS
  <1>3. ~Tells(n + 1)' /\ ~Foremost(n + 1)'
    BY DEF Tells, Foremost
  <1>4. (Ours' <=> Ours) /\ (Live' <=> Live) /\ (Sure' <=> Sure)
        /\ (Unsafe(CurrentExchange)' <=> Unsafe(CurrentExchange))
    BY DEF Ours, Live, Sure, Unsafe
  <1>5. Ended(CurrentExchange)' <=> Ended(CurrentExchange)
    BY DEF Ended
  <1>6. \A type : EndsAs(type) => EndsAs(type)'
    BY DEF EndsAs, Ended
  <1>7. (\A i \in 1..Len(inbox) : inbox[i].type = "answer" =>
              inbox[i].own /\ inbox[i].of \in Exchanges /\ runs[inbox[i].of] \notin {"none", "running"})'
    BY <1>2 DEF EventsInOrder
  <1>8. (Ours /\ thread.assistant => runs[CurrentExchange] \notin {"none", "running"})'
    BY <1>4 DEF EventsInOrder
  <1>9. (Ours /\ ((\E i \in 1..Len(inbox) : ~inbox[i].own) \/ thread.aborts > 0) => thread.stale)'
    BY <1>2, <1>4 DEF EventsInOrder
  <1>10. (Live => \A i \in 1..Len(inbox) : ~inbox[i].own => ~IsProven(i))'
    BY <1>1, <1>2, <1>4 DEF EventsInOrder
  <1>11. (Live /\ (Sure \/ CurrentExchange = 1) =>
          \A i \in 1..Len(inbox) : Tells(i) =>
             /\ Ended(CurrentExchange)
             /\ inbox[i].type = "error" => runs[CurrentExchange] = "failed")'
    BY <1>1, <1>2, <1>3, <1>4, <1>5 DEF EventsInOrder, Ended
  <1>12. (Live /\ ~Unsafe(CurrentExchange) =>
          \A i \in 1..Len(inbox) : Foremost(i) => EndsAs(inbox[i].type))'
    BY <1>1, <1>2, <1>3, <1>4, <1>6 DEF EventsInOrder
  <1>13. (Live /\ ~Sure /\ "event" \notin amiss /\ CurrentExchange = 2 /\ Ended(2)
          /\ IsProven(Len(inbox) + 1) => \E i \in 1..Len(inbox) : Tells(i))'
    <2>1. SUFFICES ASSUME (Live /\ ~Sure /\ "event" \notin amiss /\ CurrentExchange = 2 /\ Ended(2)
                             /\ IsProven(Len(inbox) + 1))'
                   PROVE  (\E i \in 1..Len(inbox) : Tells(i))'
      OBVIOUS
    <2>2. Live /\ ~Sure /\ "event" \notin amiss /\ CurrentExchange = 2 /\ Ended(2)
      BY <2>1, <1>4, <1>5
    <2>3. inbox'[n + 1].type # "answer" \/ inbox'[n + 1].of # CurrentExchange
      BY <2>1 DEF Ended
    <2>4. IsProven(n + 2)'
      BY <2>1
    <2>5. IsProven(Len(inbox) + 1)
      BY <2>3, <2>4, <1>1
    <2>6. PICK i \in 1..n : Tells(i)
      BY <2>2, <2>5 DEF EventsInOrder
    <2>. QED
      BY <2>6, <1>1
  <1>. QED
    BY <1>7, <1>8, <1>9, <1>10, <1>11, <1>12, <1>13 DEF EventsInOrder

LEMMA RunAnswersKeeps ==
    ASSUME ThreadInv, NEW e \in Exchanges, RunAnswers(e)
    PROVE  ThreadInv'
  <1>. USE DEF ThreadInv
  <1>1. /\ UNCHANGED <<plan, forkOwner, thread, initial, attempt, panel, prompt, abortCall, marked,
                       forkExists, beat, opening, releasing, amiss, mishaps>>
        /\ runs[e] = "running" /\ runs' = [runs EXCEPT ![e] = "answered"]
        /\ inbox' = Append(inbox, [type |-> "answer", of |-> e, own |-> TRUE])
    BY DEF RunAnswers, stSession, stCalls, stBounds
  <1>2. InTurn' /\ CurrentExchange' = CurrentExchange
    BY <1>1, TurnStays
  <1>3. /\ runs' \in [Exchanges -> {"none", "running", "answered", "finished", "failed", "aborted"}]
        /\ runs'[e] = "answered" /\ \A f \in Exchanges : f # e => runs'[f] = runs[f]
    BY <1>1 DEF ThreadTypes
  <1>4. [type |-> "answer", of |-> e, own |-> TRUE] \in ThreadEvents
    BY ExchangeFacts DEF ThreadEvents
  <1>5. inbox \in Seq(ThreadEvents) /\ Len(inbox) \in Nat
    BY DEF ThreadTypes
  <1>6. /\ inbox' \in Seq(ThreadEvents) /\ Len(inbox') = Len(inbox) + 1
        /\ \A i \in 1..Len(inbox) : inbox'[i] = inbox[i]
        /\ inbox'[Len(inbox) + 1] = [type |-> "answer", of |-> e, own |-> TRUE]
    BY <1>1, <1>4, <1>5, AppendProperties
  <1>7. ThreadTypes'
    BY <1>1, <1>3, <1>6 DEF ThreadTypes
  <1>8. AbortsAreCounted' /\ (NeverAnswered' <=> NeverAnswered)
    BY <1>1, <1>2, MishapFacts, CountStays
  <1>9. PromptsAreKnown'
    BY <1>1, <1>2, <1>3 DEF PromptsAreKnown, Sure
  <1>10. LiveIsClean'
    BY <1>1, <1>2, <1>3 DEF LiveIsClean, Live, Ours, InTurn
  <1>11. NothingRunsOn'
    <2>1. \A f \in Exchanges : (Ended(f)' <=> Ended(f)) /\ (IsRun(f)' <=> IsRun(f))
      BY <1>1, <1>3 DEF Ended, IsRun
    <2>2. Owed' <=> Owed
      BY <1>1, <1>2 DEF Owed
    <2>. QED
      BY <1>1, <1>2, <1>8, <2>1, <2>2, ExchangeFacts DEF NothingRunsOn, Ours, Sure, InTurn
  <1>12. EventsInOrder'
    <2>. DEFINE n == Len(inbox)
    <2>1. /\ \/ runs'[CurrentExchange] = runs[CurrentExchange]
             \/ ~Ended(CurrentExchange) /\ runs'[CurrentExchange] \notin {"finished", "failed"}
          /\ \A f \in Exchanges : runs[f] \notin {"none", "running"} => runs'[f] \notin {"none", "running"}
          /\ CurrentExchange \in Exchanges
      BY <1>1, <1>3 DEF Ended, InTurn
    <2>. QED
      BY <1>1, <1>2, <1>3, <1>5, <1>6, <2>1, OrderGrows
  <1>13. ForkIsGuarded'
    BY <1>1, GuardStays
  <1>14. EndsAreItsOwn'
    BY <1>1, <1>3, EndsStay DEF Ended
  <1>. QED
    BY <1>2, <1>7, <1>8, <1>9, <1>10, <1>11, <1>12, <1>13, <1>14

LEMMA ToolGrantedKeeps ==
    ASSUME ThreadInv, ToolGranted
    PROVE  ThreadInv'
  <1>. USE DEF ThreadInv
  <1>1. /\ UNCHANGED <<plan, forkOwner, thread, initial, attempt, panel, prompt, runs, abortCall, marked,
                       forkExists, beat, opening, releasing, amiss>>
        /\ mishaps' \in Nat /\ mishaps <= mishaps' /\ mishaps' \in 0..MaxMishaps
    BY MishapFacts DEF ToolGranted, stSession, stCalls
  <1>2. InTurn' /\ CurrentExchange' = CurrentExchange
    BY <1>1, TurnStays
  <1>3. inbox \in Seq(ThreadEvents) /\ Len(inbox) \in Nat
    BY DEF ThreadTypes
  <1>4. /\ inbox' \in Seq(ThreadEvents) /\ Len(inbox') = Len(inbox) + 1
        /\ \A i \in 1..Len(inbox) : inbox'[i] = inbox[i]
        /\ inbox'[Len(inbox) + 1] = [type |-> "granted", of |-> 0, own |-> TRUE]
    <2>. DEFINE types == <<"granted">>
    <2>1. Len(types) = 1 /\ 1 \in 1..Len(types) /\ types[1] = "granted"
          /\ types \in {<<"idle">>, <<"error", "idle">>, <<"granted">>}
      OBVIOUS
    <2>2. inbox' = inbox \o Burst(types, TRUE)
      BY DEF ToolGranted
    <2>. HIDE DEF types
    <2>3. /\ inbox' \in Seq(ThreadEvents) /\ Len(inbox') = Len(inbox) + Len(types)
          /\ \A i \in 1..Len(inbox) : inbox'[i] = inbox[i]
          /\ \A i \in 1..Len(types) :
                inbox'[Len(inbox) + i] = [type |-> types[i], of |-> 0, own |-> TRUE]
      BY <2>1, <2>2, Published
    <2>. QED
      BY <2>1, <2>3
  <1>5. ThreadTypes'
    BY <1>1, <1>4 DEF ThreadTypes
  <1>6. AbortsAreCounted' /\ (NeverAnswered' <=> NeverAnswered)
    BY <1>1, <1>2, CountStays
  <1>7. PromptsAreKnown'
    BY <1>1, <1>2 DEF PromptsAreKnown, Sure
  <1>8. LiveIsClean'
    BY <1>1, <1>2 DEF LiveIsClean, Live, Ours
  <1>9. NothingRunsOn'
    BY <1>1, <1>2, <1>6 DEF NothingRunsOn, Ours, Sure, Owed, IsRun, Ended
  <1>10. EventsInOrder'
    <2>1. /\ CurrentExchange \in Exchanges
          /\ inbox'[Len(inbox) + 1].own /\ inbox'[Len(inbox) + 1].type = "granted"
          /\ \A f \in Exchanges : runs'[f] = runs[f]
      BY <1>1, <1>4 DEF InTurn
    <2>. QED
      BY <1>1, <1>2, <1>3, <1>4, <2>1, OrderGrows
  <1>11. ForkIsGuarded'
    BY <1>1, GuardStays
  <1>12. EndsAreItsOwn'
    BY <1>1, EndsStay
  <1>. QED
    BY <1>2, <1>5, <1>6, <1>7, <1>8, <1>9, <1>10, <1>11, <1>12

\* A run of the exchange that ended is told.
LEMMA RunEndsOrder ==
    ASSUME ThreadInv, NEW how \in {"finished", "failed"}, Loop # {},
           runs' = [e \in Exchanges |-> IF e \in Loop THEN how ELSE runs[e]],
           inbox' \in Seq(ThreadEvents), NEW n \in Nat, n = Len(inbox), n < Len(inbox'),
           \A i \in 1..n : inbox'[i] = inbox[i],
           \A i \in n + 1..Len(inbox') : inbox'[i].own /\ inbox'[i].type \in {"idle", "error"},
           inbox'[n + 1].type = IF how = "finished" THEN "idle" ELSE "error",
           how = "finished" => Len(inbox') = n + 1,
           CurrentExchange' = CurrentExchange, UNCHANGED <<forkOwner, thread, amiss>>
    PROVE  EventsInOrder'
  <1>. USE DEF ThreadInv
  <1>a. Len(inbox') \in Nat /\ CurrentExchange \in Exchanges
    BY DEF InTurn
  <1>b. \A e \in Exchanges : /\ IsRun(e) => runs'[e] = how
                             /\ ~IsRun(e) => runs'[e] = runs[e]
    BY DEF Loop, IsRun
  <1>1. /\ \A i \in 1..n + 1 : IsProven(i)' <=> IsProven(i)
        /\ \A i \in 1..n : (Tells(i)' <=> Tells(i)) /\ (Foremost(i)' <=> Foremost(i))
        /\ \A i \in n + 1..Len(inbox') + 1 : IsProven(i)' <=> IsProven(n + 1)
    <2>1. \A i \in n + 1..Len(inbox') : inbox'[i].type # "answer" \/ inbox'[i].of # CurrentExchange
      OBVIOUS
    <2>. QED
      BY <2>1, <1>a, TellsOfBefore
  <1>2. \A i \in 1..Len(inbox') : i \in 1..n \/ i \in n + 1..Len(inbox')
    BY <1>a
  <1>3. (Ours' <=> Ours) /\ (Live' <=> Live) /\ (Sure' <=> Sure)
        /\ (Unsafe(CurrentExchange)' <=> Unsafe(CurrentExchange))
    BY DEF Ours, Live, Sure, Unsafe
  <1>4. \A e \in Exchanges : Ended(e) => ~IsRun(e) /\ runs'[e] = runs[e] /\ Ended(e)'
    BY <1>b DEF Ended, IsRun
  <1>5. \A e \in Exchanges : runs[e] \notin {"none", "running"} => runs'[e] \notin {"none", "running"}
    BY <1>b DEF IsRun
  <1>6. ASSUME Live, Sure \/ CurrentExchange = 1
        PROVE  IsRun(CurrentExchange) /\ \A i \in 1..n : ~Tells(i)
    <2>1. PICK e \in Exchanges : IsRun(e)
      BY DEF Loop, IsRun
    <2>2. runs[e] # "none"
      BY <2>1 DEF IsRun
    <2>3. e <= CurrentExchange
      BY <2>2, <1>a, ExchangeFacts DEF PromptsAreKnown
    <2>4. e = CurrentExchange
      BY <2>1, <2>3, <1>6, <1>a, ExchangeFacts DEF NothingRunsOn, Live
    <2>. QED
      BY <2>1, <2>4, <1>4, <1>6 DEF EventsInOrder
  <1>7. ASSUME Live, ~Unsafe(CurrentExchange), IsProven(n + 1), \A i \in 1..n : ~Tells(i)
        PROVE  IsRun(CurrentExchange)
    <2>1. CASE Sure \/ CurrentExchange = 1
      BY <2>1, <1>6, <1>7
    <2>2. CASE ~Sure /\ CurrentExchange # 1
      <3>1. CurrentExchange = 2 /\ "event" \notin amiss
        BY <2>2, <1>7, <1>a, ExchangeFacts DEF Unsafe, Sure
      <3>2. CASE ~thread.needsAssistant /\ ~thread.assistant
        <4>1. PICK e \in Exchanges : IsRun(e)
          BY DEF Loop, IsRun
        <4>2. runs[e] # "none"
          BY <4>1 DEF IsRun
        <4>3. e <= CurrentExchange
          BY <4>2, <1>a, ExchangeFacts DEF PromptsAreKnown
        <4>4. e = CurrentExchange
          BY <4>1, <4>3, <3>1, <3>2, <1>7, <1>a, ExchangeFacts DEF NothingRunsOn, Live
        <4>. QED
          BY <4>1, <4>4
      <3>3. CASE thread.needsAssistant \/ thread.assistant
        <4>1. runs[CurrentExchange] \notin {"none", "running"}
          <5>1. CASE thread.assistant
            BY <5>1, <1>7 DEF EventsInOrder, Live
          <5>2. CASE ~thread.assistant
            <6>1. PICK k \in 1..(n + 1) - 1 : Answers(k)
              BY <5>2, <3>3, <1>7 DEF IsProven
            <6>. QED
              BY <6>1 DEF Answers, EventsInOrder
          <5>. QED
            BY <5>1, <5>2
        <4>2. runs[CurrentExchange] # "aborted"
          BY <1>7 DEF LiveIsClean
        <4>3. ~Ended(CurrentExchange)
          BY <1>7, <2>2, <3>1 DEF EventsInOrder
        <4>4. runs[CurrentExchange] \in {"none", "running", "answered", "finished", "failed", "aborted"}
          BY <1>a DEF ThreadTypes
        <4>. QED
          BY <4>1, <4>2, <4>3, <4>4 DEF IsRun, Ended
      <3>. QED
        BY <3>2, <3>3 DEF ThreadTypes, Answering
    <2>. QED
      BY <2>1, <2>2
  <1>8. (\A i \in 1..Len(inbox) : inbox[i].type = "answer" =>
              inbox[i].own /\ inbox[i].of \in Exchanges /\ runs[inbox[i].of] \notin {"none", "running"})'
    BY <1>2, <1>5 DEF EventsInOrder
  <1>9. (Ours /\ thread.assistant => runs[CurrentExchange] \notin {"none", "running"})'
    BY <1>3, <1>5, <1>a DEF EventsInOrder
  <1>10. (Ours /\ ((\E i \in 1..Len(inbox) : ~inbox[i].own) \/ thread.aborts > 0) => thread.stale)'
    BY <1>2, <1>3 DEF EventsInOrder
  <1>11. (Live => \A i \in 1..Len(inbox) : ~inbox[i].own => ~IsProven(i))'
    <2>1. \A i \in 1..n : i \in 1..n + 1
      OBVIOUS
    <2>. QED
      BY <2>1, <1>1, <1>2, <1>3 DEF EventsInOrder
  <1>12. (Live /\ (Sure \/ CurrentExchange = 1) =>
          \A i \in 1..Len(inbox) : Tells(i) =>
             /\ Ended(CurrentExchange)
             /\ inbox[i].type = "error" => runs[CurrentExchange] = "failed")'
    <2>1. SUFFICES ASSUME Live', Sure' \/ CurrentExchange' = 1, NEW i \in 1..Len(inbox'), Tells(i)'
                   PROVE  /\ Ended(CurrentExchange)'
                          /\ inbox'[i].type = "error" => runs'[CurrentExchange'] = "failed"
      OBVIOUS
    <2>2. IsRun(CurrentExchange) /\ i \in n + 1..Len(inbox')
      BY <2>1, <1>1, <1>2, <1>3, <1>6
    <2>3. runs'[CurrentExchange] = how
      BY <2>2, <1>a, <1>b
    <2>4. inbox'[i].type = "error" => how = "failed"
      BY <2>2
    <2>. QED
      BY <2>3, <2>4 DEF Ended
  <1>13. (Live /\ ~Unsafe(CurrentExchange) =>
          \A i \in 1..Len(inbox) : Foremost(i) => EndsAs(inbox[i].type))'
    <2>1. SUFFICES ASSUME Live', ~Unsafe(CurrentExchange)', NEW i \in 1..Len(inbox'), Foremost(i)'
                   PROVE  EndsAs(inbox[i].type)'
      OBVIOUS
    <2>2. Live /\ ~Unsafe(CurrentExchange)
      BY <2>1, <1>3
    <2>3. CASE i \in 1..n
      <3>1. EndsAs(inbox[i].type)
        BY <2>1, <2>2, <2>3, <1>1 DEF EventsInOrder
      <3>2. Ended(CurrentExchange)
        BY <3>1 DEF EndsAs, Ended
      <3>3. runs'[CurrentExchange] = runs[CurrentExchange]
        BY <3>2, <1>4, <1>a
      <3>. QED
        BY <3>1, <3>3, <2>3 DEF EndsAs
    <2>4. CASE i \in n + 1..Len(inbox')
      <3>1. IsProven(i)' /\ \A k \in 1..i - 1 : ~Tells(k)'
        BY <2>1 DEF Foremost, Tells
      <3>2. \A k \in 1..n : k \in 1..i - 1
        BY <2>4
      <3>3. \A k \in 1..n : ~Tells(k)
        BY <3>1, <3>2, <1>1
      <3>4. i \in n + 1..Len(inbox') + 1 /\ n + 1 \in 1..n + 1
        BY <2>4, <1>a
      <3>5. IsProven(n + 1) /\ IsProven(n + 1)'
        BY <3>1, <3>4, <1>1
      <3>6. runs'[CurrentExchange] = how
        BY <2>2, <3>3, <3>5, <1>7, <1>a, <1>b
      <3>7. n + 1 \in n + 1..Len(inbox')
        BY <1>a
      <3>8. Tells(n + 1)'
        BY <3>5, <3>7 DEF Tells
      <3>9. i = n + 1
        <4>1. n + 1 \notin 1..i - 1
          BY <3>1, <3>8
        <4>. QED
          BY <4>1, <2>4
      <3>. QED
        BY <3>6, <3>9 DEF EndsAs
    <2>. QED
      BY <2>3, <2>4, <1>2
  <1>14. (Live /\ ~Sure /\ "event" \notin amiss /\ CurrentExchange = 2 /\ Ended(2)
          /\ IsProven(Len(inbox) + 1) => \E i \in 1..Len(inbox) : Tells(i))'
    <2>1. SUFFICES ASSUME (Live /\ ~Sure /\ "event" \notin amiss /\ CurrentExchange = 2 /\ Ended(2)
                             /\ IsProven(Len(inbox) + 1))'
                   PROVE  (\E i \in 1..Len(inbox) : Tells(i))'
      OBVIOUS
    <2>2. Live /\ ~Sure /\ "event" \notin amiss /\ CurrentExchange = 2
      BY <2>1, <1>3
    <2>3. Len(inbox') + 1 \in n + 1..Len(inbox') + 1 /\ n + 1 \in 1..n + 1
      BY <1>a
    <2>4. IsProven(n + 1) /\ IsProven(n + 1)'
      BY <2>1, <2>3, <1>1
    <2>5. CASE Ended(2)
      <3>1. PICK i \in 1..n : Tells(i)
        BY <2>2, <2>4, <2>5 DEF EventsInOrder
      <3>2. i \in 1..Len(inbox')
        BY <1>a
      <3>. QED
        BY <3>1, <3>2, <1>1
    <2>6. CASE ~Ended(2)
      <3>1. n + 1 \in n + 1..Len(inbox') /\ n + 1 \in 1..Len(inbox')
        BY <1>a
      <3>2. Tells(n + 1)'
        BY <2>4, <3>1 DEF Tells
      <3>. QED
        BY <3>1, <3>2
    <2>. QED
      BY <2>5, <2>6
  <1>. QED
    BY <1>8, <1>9, <1>10, <1>11, <1>12, <1>13, <1>14 DEF EventsInOrder

LEMMA RunEndsKeeps ==
    ASSUME ThreadInv, RunEnds
    PROVE  ThreadInv'
  <1>. USE DEF ThreadInv
  <1>1. /\ UNCHANGED <<plan, forkOwner, thread, initial, attempt, panel, prompt, abortCall, marked,
                       forkExists, beat, opening, releasing, amiss>>
        /\ mishaps' \in Nat /\ mishaps <= mishaps' /\ mishaps' \in 0..MaxMishaps /\ Loop # {}
    BY MishapFacts DEF RunEnds, stSession, stCalls
  <1>2. PICK how \in {"finished", "failed"} :
           /\ runs' = [e \in Exchanges |-> IF e \in Loop THEN how ELSE runs[e]]
           /\ inbox' = inbox \o Burst(IF how = "finished" THEN <<"idle">> ELSE <<"error", "idle">>, TRUE)
    BY DEF RunEnds
  <1>3. \A e \in Exchanges : /\ IsRun(e) => runs'[e] = how
                             /\ ~IsRun(e) => runs'[e] = runs[e]
    BY <1>2 DEF Loop, IsRun
  <1>4. InTurn' /\ CurrentExchange' = CurrentExchange
    BY <1>1, TurnStays
  <1>5. inbox \in Seq(ThreadEvents) /\ Len(inbox) \in Nat
    BY DEF ThreadTypes
  <1>6. /\ inbox' \in Seq(ThreadEvents) /\ Len(inbox) < Len(inbox')
        /\ \A i \in 1..Len(inbox) : inbox'[i] = inbox[i]
        /\ \A i \in Len(inbox) + 1..Len(inbox') : inbox'[i].own /\ inbox'[i].type \in {"idle", "error"}
        /\ inbox'[Len(inbox) + 1].type = IF how = "finished" THEN "idle" ELSE "error"
        /\ how = "finished" => Len(inbox') = Len(inbox) + 1
    <2>. DEFINE types == IF how = "finished" THEN <<"idle">> ELSE <<"error", "idle">>
    <2>1. /\ types \in {<<"idle">>, <<"error", "idle">>, <<"granted">>}
          /\ Len(types) \in {1, 2} /\ types[1] = (IF how = "finished" THEN "idle" ELSE "error")
          /\ \A i \in 1..Len(types) : types[i] \in {"idle", "error"}
          /\ how = "finished" => Len(types) = 1
      OBVIOUS
    <2>2. inbox' = inbox \o Burst(types, TRUE)
      BY <1>2
    <2>. HIDE DEF types
    <2>3. /\ inbox' \in Seq(ThreadEvents) /\ Len(inbox') = Len(inbox) + Len(types)
          /\ \A i \in 1..Len(inbox) : inbox'[i] = inbox[i]
          /\ \A i \in 1..Len(types) :
                inbox'[Len(inbox) + i] = [type |-> types[i], of |-> 0, own |-> TRUE]
      BY <2>1, <2>2, Published
    <2>4. ASSUME NEW i \in Len(inbox) + 1..Len(inbox')
          PROVE  inbox'[i].own /\ inbox'[i].type \in {"idle", "error"}
      <3>1. i - Len(inbox) \in 1..Len(types) /\ Len(inbox) + (i - Len(inbox)) = i
        BY <2>1, <2>3, <1>5
      <3>2. inbox'[i] = [type |-> types[i - Len(inbox)], of |-> 0, own |-> TRUE]
        BY <2>3, <3>1
      <3>. QED
        BY <2>1, <3>1, <3>2
    <2>5. inbox'[Len(inbox) + 1] = [type |-> types[1], of |-> 0, own |-> TRUE]
      BY <2>1, <2>3
    <2>6. inbox'[Len(inbox) + 1].type = IF how = "finished" THEN "idle" ELSE "error"
      BY ONLY <2>1, <2>5
    <2>7. Len(inbox) < Len(inbox') /\ (how = "finished" => Len(inbox') = Len(inbox) + 1)
      BY ONLY <2>1, <2>3, <1>5
    <2>. QED
      BY ONLY <2>3, <2>4, <2>6, <2>7, Zenon
  <1>7. ThreadTypes'
    <2>1. runs' \in [Exchanges -> {"none", "running", "answered", "finished", "failed", "aborted"}]
      BY <1>2 DEF ThreadTypes
    <2>. QED
      BY <2>1, <1>1, <1>6 DEF ThreadTypes
  <1>8. AbortsAreCounted' /\ (NeverAnswered' <=> NeverAnswered)
    BY <1>1, <1>4, CountStays
  <1>9. PromptsAreKnown'
    <2>1. \A e \in Exchanges : runs'[e] # "none" <=> runs[e] # "none"
      BY <1>3 DEF IsRun
    <2>. QED
      BY <2>1, <1>1, <1>4 DEF PromptsAreKnown, Sure
  <1>10. LiveIsClean'
    BY <1>1, <1>3, <1>4 DEF LiveIsClean, Live, Ours, InTurn, IsRun
  <1>11. NothingRunsOn'
    <2>1. \A e \in Exchanges : ~IsRun(e)' /\ (Ended(e) => Ended(e)')
      BY <1>3 DEF IsRun, Ended
    <2>2. Owed' <=> Owed
      BY <1>1, <1>4 DEF Owed
    <2>. QED
      BY <1>1, <1>4, <2>1, <2>2, ExchangeFacts DEF NothingRunsOn, Ours, Sure, InTurn
  <1>12. EventsInOrder'
    <2>1. runs' = [e \in Exchanges |-> IF e \in Loop THEN how ELSE runs[e]]
      BY <1>2
    <2>. QED
      BY <2>1, <1>1, <1>4, <1>5, <1>6, RunEndsOrder
  <1>13. ForkIsGuarded'
    BY <1>1, GuardStays
  <1>14. EndsAreItsOwn'
    BY <1>1, <1>3, EndsStay DEF Ended, IsRun
  <1>. QED
    BY <1>4, <1>7, <1>8, <1>9, <1>10, <1>11, <1>12, <1>13, <1>14

\* An abort finds nothing streaming.
LEMMA AbortLandsKeeps ==
    ASSUME ThreadInv, NEW a \in DOMAIN abortCall, AbortLands(a)
    PROVE  ThreadInv'
  <1>. USE DEF ThreadInv
  <1>1. /\ UNCHANGED <<plan, forkOwner, thread, initial, attempt, panel, prompt, marked,
                       forkExists, beat, opening, releasing, amiss, mishaps>>
        /\ a \in 1..MaxAbortCalls /\ abortCall[a].pc \in {"sent", "late"}
        /\ runs' = [e \in Exchanges |-> IF e \in Loop THEN "aborted" ELSE runs[e]]
        /\ abortCall' = [abortCall EXCEPT ![a] = IF @.pc = "late" THEN NoAbortCall
                                                    ELSE [@ EXCEPT !.pc = "landed"]]
    BY DEF AbortLands, stSession, stCalls, stBounds, ThreadTypes
  <1>2. \A e \in Exchanges : /\ IsRun(e) => runs'[e] = "aborted"
                             /\ ~IsRun(e) => runs'[e] = runs[e]
    BY <1>1 DEF Loop, IsRun
  <1>3. InTurn' /\ CurrentExchange' = CurrentExchange
    BY <1>1, TurnStays
  <1>4. thread.aborts > 0 /\ ~Live /\ ~Live'
    <2>1. ~(thread.aborts <= 0) /\ ~Live
      BY <1>1, NoAbortsMeansNone, LiveHasNoAborts
    <2>. QED
      BY <2>1, <1>1 DEF ThreadTypes, Answering, Live, Ours
  <1>5. /\ inbox' \in Seq(ThreadEvents)
        /\ \A i \in 1..Len(inbox') : inbox'[i].type = "answer" => i \in 1..Len(inbox) /\ inbox'[i] = inbox[i]
    <2>1. CASE inbox' = inbox
      BY <2>1 DEF ThreadTypes
    <2>2. CASE inbox' # inbox
      <3>. DEFINE types == IF Loop # {} THEN <<"error", "idle">> ELSE <<"idle">>
      <3>1. /\ types \in {<<"idle">>, <<"error", "idle">>, <<"granted">>}
            /\ \A i \in 1..Len(types) : types[i] \in {"idle", "error"}
        OBVIOUS
      <3>2. inbox' = inbox \o Burst(types, FALSE)
        BY <2>2 DEF AbortLands
      <3>. HIDE DEF types
      <3>3. /\ inbox' \in Seq(ThreadEvents) /\ Len(inbox') = Len(inbox) + Len(types)
            /\ Len(types) \in {1, 2}
            /\ \A i \in 1..Len(inbox) : inbox'[i] = inbox[i]
            /\ \A i \in 1..Len(types) :
                  inbox'[Len(inbox) + i] = [type |-> types[i], of |-> 0, own |-> FALSE]
        BY <3>1, <3>2, Published
      <3>4. Len(inbox) \in Nat
        BY DEF ThreadTypes
      <3>5. ASSUME NEW i \in 1..Len(inbox'), i \notin 1..Len(inbox)
            PROVE  inbox'[i].type # "answer"
        <4>1. i - Len(inbox) \in 1..Len(types) /\ Len(inbox) + (i - Len(inbox)) = i
          BY ONLY <3>3, <3>4, <3>5
        <4>2. inbox'[i] = [type |-> types[i - Len(inbox)], of |-> 0, own |-> FALSE]
          BY ONLY <3>3, <4>1
        <4>. QED
          BY ONLY <3>1, <4>1, <4>2
      <3>. QED
        BY ONLY <3>3, <3>5
    <2>. QED
      BY <2>1, <2>2
  <1>6. /\ \A b \in 1..MaxAbortCalls : b # a => abortCall'[b] = abortCall[b]
        /\ abortCall[a].pc = "late" => abortCall'[a] = NoAbortCall
        /\ abortCall[a].pc = "sent" => abortCall'[a] = [abortCall[a] EXCEPT !.pc = "landed"]
        /\ abortCall' \in [1..MaxAbortCalls -> AbortCalls]
    <2>1. NoAbortCall \in AbortCalls
      BY ExchangeFacts DEF NoAbortCall, AbortCalls
    <2>2. abortCall[a] \in AbortCalls /\ [abortCall[a] EXCEPT !.pc = "landed"] \in AbortCalls
      BY <1>1 DEF ThreadTypes, AbortCalls
    <2>. QED
      BY <1>1, <2>1, <2>2 DEF ThreadTypes
  <1>7. ThreadTypes'
    <2>1. runs' \in [Exchanges -> {"none", "running", "answered", "finished", "failed", "aborted"}]
      BY <1>1 DEF ThreadTypes
    <2>. QED
      BY <2>1, <1>1, <1>5, <1>6 DEF ThreadTypes
  <1>8. AbortsAreCounted' /\ (NeverAnswered' <=> NeverAnswered)
    <2>1. \A b \in 1..MaxAbortCalls :
             abortCall'[b].pc \in {"sent", "landed"} <=> abortCall[b].pc \in {"sent", "landed"}
      BY <1>1, <1>6 DEF NoAbortCall, ThreadTypes, AbortCalls
    <2>2. Cardinality(Unanswered(abortCall')) = Cardinality(Unanswered(abortCall))
      BY <2>1, SameUnanswered
    <2>3. NeverAnswered' <=> NeverAnswered
      BY <2>2, <1>1 DEF NeverAnswered
    <2>4. \A b \in 1..MaxAbortCalls :
             /\ abortCall'[b].pc = "late" => abortCall[b].pc = "late"
             /\ abortCall'[b].pc # "free" => /\ abortCall[b].pc # "free"
                                             /\ abortCall'[b].of = abortCall[b].of
                                             /\ abortCall'[b].waiter = abortCall[b].waiter
      BY <1>1, <1>6 DEF NoAbortCall, ThreadTypes, AbortCalls
    <2>5. /\ (Cardinality(Unanswered(abortCall)) <= thread.aborts)'
          /\ (thread.aborts <= Cardinality(Unanswered(abortCall)) + mishaps)'
      BY <2>2, <1>1 DEF AbortsAreCounted
    <2>. QED
      BY <2>3, <2>4, <2>5, <1>1, <1>3 DEF AbortsAreCounted
  <1>9. PromptsAreKnown'
    <2>1. \A e \in Exchanges : runs'[e] # "none" <=> runs[e] # "none"
      BY <1>2 DEF IsRun
    <2>. QED
      BY <2>1, <1>1, <1>3 DEF PromptsAreKnown, Sure
  <1>10. LiveIsClean'
    BY <1>1, <1>3, <1>4 DEF LiveIsClean, Ours
  <1>11. NothingRunsOn'
    <2>1. \A e \in Exchanges : ~IsRun(e)' /\ (Ended(e) => Ended(e)')
      BY <1>2 DEF IsRun, Ended
    <2>2. Owed' <=> Owed
      BY <1>1, <1>3 DEF Owed
    <2>. QED
      BY <1>1, <1>3, <2>1, <2>2, ExchangeFacts DEF NothingRunsOn, Ours, Sure, InTurn
  <1>12. EventsInOrder'
    <2>1. \A e \in Exchanges : runs[e] \notin {"none", "running"} => runs'[e] \notin {"none", "running"}
      BY <1>2 DEF IsRun
    <2>2. (\A i \in 1..Len(inbox) : inbox[i].type = "answer" =>
              inbox[i].own /\ inbox[i].of \in Exchanges /\ runs[inbox[i].of] \notin {"none", "running"})'
      BY <2>1, <1>5 DEF EventsInOrder
    <2>3. (Ours /\ thread.assistant => runs[CurrentExchange] \notin {"none", "running"})'
      BY <2>1, <1>1, <1>3 DEF EventsInOrder, Ours, InTurn
    <2>4. (Ours => thread.stale)'
      BY <1>1, <1>4 DEF EventsInOrder, Ours
    <2>. QED
      BY <2>2, <2>3, <2>4, <1>4 DEF EventsInOrder
  <1>13. ForkIsGuarded'
    BY <1>1, GuardStays
  <1>14. EndsAreItsOwn'
    BY <1>1, <1>2, EndsStay DEF Ended, IsRun
  <1>. QED
    BY <1>3, <1>7, <1>8, <1>9, <1>10, <1>11, <1>12, <1>13, <1>14

\* An abort that was answered is no longer counted; another is for ever.
LEMMA AbortReturnsKeeps ==
    ASSUME ThreadInv, NEW a \in DOMAIN abortCall, AbortReturns(a)
    PROVE  ThreadInv'
  <1>. USE DEF ThreadInv
  <1>. DEFINE w == abortCall[a].waiter
  <1>1. PICK hadIt \in BOOLEAN :
          /\ abortCall[a].pc \in {"sent", "landed"}
          /\ IF hadIt THEN abortCall[a].pc = "landed" /\ UNCHANGED mishaps ELSE SideMishap
          /\ abortCall' = [abortCall EXCEPT ![a] = IF @.pc = "sent" THEN [@ EXCEPT !.pc = "late", !.waiter = 0]
                                                   ELSE NoAbortCall]
          /\ thread' = [thread EXCEPT !.aborts = IF hadIt THEN @ - 1 ELSE @,
                                      !.pending = @ /\ w # TheFirst]
          /\ initial' = IF w = TheFirst THEN "end" ELSE initial
          /\ attempt' = IF w \in 2..MaxExchanges
                        THEN [attempt EXCEPT ![w].pc = "end",
                                             ![w].pending = @ /\ ~(hadIt /\ attempt[w].accepted)]
                        ELSE attempt
          /\ releasing' = IF w = TheReleaser THEN "clear" ELSE releasing
    BY Zenon DEF AbortReturns
  <1>2. /\ UNCHANGED <<plan, forkOwner, panel, prompt, runs, inbox, marked, forkExists, beat, opening,
                       amiss>>
        /\ a \in 1..MaxAbortCalls
        /\ mishaps' \in Nat /\ mishaps <= mishaps' /\ mishaps' \in 0..MaxMishaps
        /\ ~hadIt => mishaps' = mishaps + 1
    BY <1>1, MishapFacts DEF AbortReturns, stHost, stSession, ThreadTypes, SideMishap
  <1>3. InTurn' /\ CurrentExchange' = CurrentExchange
    BY <1>2, TurnStays
  <1>4. /\ thread' \in Answering
        /\ thread'.streaming = thread.streaming /\ thread'.accepting = thread.accepting
        /\ thread'.prompted = thread.prompted /\ thread'.assistant = thread.assistant
        /\ thread'.needsAssistant = thread.needsAssistant /\ thread'.stale = thread.stale
        /\ thread'.cancelled = thread.cancelled /\ thread'.beating = thread.beating
        /\ thread'.aborts = IF hadIt THEN thread.aborts - 1 ELSE thread.aborts
        /\ thread'.pending <=> thread.pending /\ w # TheFirst
    <2>. DEFINE n == IF hadIt THEN thread.aborts - 1 ELSE thread.aborts
                p == thread.pending /\ w # TheFirst
    <2>1. n \in Int /\ p \in BOOLEAN /\ thread \in Answering
      BY DEF ThreadTypes, Answering
    <2>2. thread' = [thread EXCEPT !.aborts = n, !.pending = p]
      BY <1>1
    <2>. HIDE DEF n, p
    <2>3. /\ thread' \in Answering
          /\ thread'.streaming = thread.streaming /\ thread'.accepting = thread.accepting
          /\ thread'.prompted = thread.prompted /\ thread'.assistant = thread.assistant
          /\ thread'.needsAssistant = thread.needsAssistant /\ thread'.stale = thread.stale
          /\ thread'.cancelled = thread.cancelled /\ thread'.beating = thread.beating
          /\ thread'.aborts = n /\ thread'.pending = p
      BY ONLY <2>1, <2>2 DEF Answering
    <2>. QED
      BY ONLY <2>3 DEF n, p
  <1>5. thread.aborts > 0 /\ ~Live /\ ~Live'
    <2>1. ~(thread.aborts <= 0) /\ ~Live
      BY <1>1, <1>2, NoAbortsMeansNone, LiveHasNoAborts
    <2>. QED
      BY <2>1, <1>2, <1>4 DEF ThreadTypes, Answering, Live, Ours
  <1>6. /\ w = TheFirst => initial # "prompt"
        /\ w \in 2..MaxExchanges => attempt[w].pc \in {"abort", "end"}
        /\ w = TheReleaser => forkOwner = "nobody"
    BY <1>1, <1>2 DEF AbortsAreCounted
  <1>7. /\ \A b \in 1..MaxAbortCalls : b # a => abortCall'[b] = abortCall[b]
        /\ abortCall[a].pc = "landed" => abortCall'[a] = NoAbortCall
        /\ abortCall[a].pc = "sent" => abortCall'[a] = [abortCall[a] EXCEPT !.pc = "late", !.waiter = 0]
        /\ abortCall' \in [1..MaxAbortCalls -> AbortCalls]
    <2>1. NoAbortCall \in AbortCalls
      BY ExchangeFacts DEF NoAbortCall, AbortCalls
    <2>2. abortCall[a] \in AbortCalls /\ [abortCall[a] EXCEPT !.pc = "late", !.waiter = 0] \in AbortCalls
      <3>1. abortCall[a] \in AbortCalls /\ 0 \in 0..MaxExchanges + 1
        BY <1>2, ExchangeFacts DEF ThreadTypes
      <3>. QED
        BY ONLY <3>1 DEF AbortCalls
    <2>. QED
      BY <1>1, <1>2, <2>1, <2>2 DEF ThreadTypes
  <1>8. /\ attempt' \in [Exchanges -> FollowUps]
        /\ \A e \in Exchanges :
              /\ e # w => attempt'[e] = attempt[e]
              /\ attempt'[e].cancelled = attempt[e].cancelled /\ attempt'[e].accepted = attempt[e].accepted
              /\ attempt'[e].pc # attempt[e].pc => attempt'[e].pc = "end" /\ e = w /\ w \in 2..MaxExchanges
              /\ attempt'[e].pending => attempt[e].pending
              /\ attempt[e].pending /\ ~attempt[e].accepted => attempt'[e].pending
        /\ w \notin 2..MaxExchanges => attempt' = attempt
    <2>1. \A v \in 2..MaxExchanges : v \in Exchanges
      BY ExchangeFacts DEF Exchanges
    <2>. QED
      BY <1>1, <2>1 DEF ThreadTypes, FollowUps
  <1>. HIDE DEF w
  <1>9. ThreadTypes'
    BY <1>1, <1>2, <1>4, <1>7, <1>8 DEF ThreadTypes
  <1>10. AbortsAreCounted' /\ (NeverAnswered => NeverAnswered') /\ (~hadIt => NeverAnswered')
    <2>1. abortCall'[a].pc \notin {"sent", "landed"}
      BY <1>1, <1>2, <1>7 DEF NoAbortCall, ThreadTypes, AbortCalls
    <2>2. Cardinality(Unanswered(abortCall')) = Cardinality(Unanswered(abortCall)) - 1
      <3>1. /\ a \in 1..MaxAbortCalls /\ abortCall[a].pc \in {"sent", "landed"}
            /\ \A b \in 1..MaxAbortCalls : b # a => abortCall'[b] = abortCall[b]
        BY <1>1, <1>2, <1>7
      <3>. QED
        BY ONLY <2>1, <3>1, OneLessUnanswered
    <2>3. Cardinality(Unanswered(abortCall)) \in Nat /\ mishaps \in Nat /\ thread.aborts \in Int
      BY UnansweredFacts, MishapFacts DEF ThreadTypes, Answering
    <2>4. /\ (Cardinality(Unanswered(abortCall)) <= thread.aborts)'
          /\ (thread.aborts <= Cardinality(Unanswered(abortCall)) + mishaps)'
          /\ (NeverAnswered => NeverAnswered') /\ (~hadIt => NeverAnswered')
      <3>1. /\ Cardinality(Unanswered(abortCall)) <= thread.aborts
            /\ thread.aborts <= Cardinality(Unanswered(abortCall)) + mishaps
        BY DEF AbortsAreCounted
      <3>. QED
        BY <2>2, <2>3, <3>1, <1>2, <1>4 DEF NeverAnswered
    <2>5. \A b \in 1..MaxAbortCalls :
             /\ abortCall'[b].pc = "late" => abortCall[b].pc = "late" \/ ~hadIt
             /\ abortCall'[b].pc # "free" => /\ abortCall[b].pc # "free"
                                             /\ abortCall'[b].of = abortCall[b].of
                                             /\ abortCall'[b].waiter \in {0, abortCall[b].waiter}
      BY <1>1, <1>2, <1>7 DEF NoAbortCall, ThreadTypes, AbortCalls
    <2>6. /\ TheFirst # 0 /\ TheReleaser # 0 /\ 0 \notin 2..MaxExchanges
          /\ \A v \in 2..MaxExchanges : v \in Exchanges
      BY ExchangeFacts DEF TheFirst, TheReleaser, Exchanges
    <2>7. initial' = "prompt" => initial = "prompt"
      BY <1>1
    <2>8. \A e \in Exchanges : attempt[e].pc \in {"abort", "end"} => attempt'[e].pc \in {"abort", "end"}
      BY <1>8
    <2>9. ASSUME NEW b \in 1..MaxAbortCalls
          PROVE  (/\ abortCall[b].pc = "late" => NeverAnswered
                  /\ abortCall[b].pc # "free" =>
                        /\ abortCall[b].of = CurrentExchange
                        /\ abortCall[b].waiter = TheFirst => initial # "prompt"
                        /\ abortCall[b].waiter \in 2..MaxExchanges =>
                              attempt[abortCall[b].waiter].pc \in {"abort", "end"}
                        /\ abortCall[b].waiter = TheReleaser => forkOwner = "nobody")'
      <3>1. abortCall'[b].pc = "late" => NeverAnswered'
        BY <2>4, <2>5 DEF AbortsAreCounted
      <3>2. ASSUME abortCall'[b].pc # "free"
            PROVE  (/\ abortCall[b].of = CurrentExchange
                    /\ abortCall[b].waiter = TheFirst => initial # "prompt"
                    /\ abortCall[b].waiter \in 2..MaxExchanges =>
                          attempt[abortCall[b].waiter].pc \in {"abort", "end"}
                    /\ abortCall[b].waiter = TheReleaser => forkOwner = "nobody")'
        BY <3>2, <2>5, <2>6, <2>7, <2>8, <1>2, <1>3 DEF AbortsAreCounted
      <3>. QED
        BY <3>1, <3>2
    <2>. QED
      BY <2>4, <2>9 DEF AbortsAreCounted
  <1>11. PromptsAreKnown'
    <2>1. ASSUME NEW e \in Exchanges
          PROVE  (/\ runs[e] # "none" <=> prompt[e] = "admitted"
                  /\ e > CurrentExchange => prompt[e] = "none" /\ attempt[e] = NoAttempt0
                  /\ attempt[e].accepted => prompt[e] = "admitted" /\ attempt[e].pc \in {"abort", "end"}
                  /\ attempt[e].pc \in {"none", "get"} /\ e > 1 => prompt[e] = "none"
                  /\ attempt[e].pc \in {"prompt", "abort"} \/ attempt[e].pending => prompt[e] # "none"
                  /\ e > 1 /\ prompt[e] = "sent" => e = CurrentExchange /\ attempt[e].pending)'
      <3>1. e = w /\ w \in 2..MaxExchanges => attempt[e] # NoAttempt0
        BY <1>6 DEF NoAttempt0
      <3>2. attempt[e] = NoAttempt0 => attempt'[e] = attempt[e]
        BY <3>1, <1>8
      <3>. QED
        BY <3>2, <1>2, <1>3, <1>8 DEF PromptsAreKnown
    <2>2. attempt'[1] = NoAttempt0
      <3>1. 1 \notin 2..MaxExchanges
        BY ExchangeFacts
      <3>. QED
        BY <3>1, <1>8, ExchangeFacts DEF PromptsAreKnown
    <2>3. /\ (thread.pending <=> initial # "end")'
          /\ (thread.pending => CurrentExchange = 1 /\ forkOwner # "user")'
          /\ (thread.prompted <=> prompt[CurrentExchange] # "none")'
      BY <1>1, <1>2, <1>3, <1>4 DEF PromptsAreKnown
    <2>4. /\ (prompt[1] # "none" /\ (prompt[1] = "sent" => thread.pending \/ ~Sure))'
          /\ (prompt[1] = "sent" /\ initial = "abort" => ~Sure)'
      BY <1>1, <1>2, <1>4, <1>6 DEF PromptsAreKnown, Sure, ThreadTypes
    <2>. QED
      BY <2>1, <2>2, <2>3, <2>4 DEF PromptsAreKnown
  <1>12. LiveIsClean'
    BY <1>2, <1>4, <1>5 DEF LiveIsClean, Ours
  <1>13. NothingRunsOn'
    <2>1. Owed => Owed'
      BY <1>1, <1>3, <1>4, <1>6, <1>8 DEF Owed, InTurn
    <2>2. (\E b \in 1..MaxAbortCalls : abortCall[b].pc = "sent")
            => NeverAnswered' \/ \E b \in 1..MaxAbortCalls : abortCall'[b].pc = "sent"
      BY <1>1, <1>7, <1>10
    <2>3. \A e \in Exchanges : (IsRun(e)' <=> IsRun(e)) /\ (Ended(e)' <=> Ended(e))
      BY <1>2 DEF IsRun, Ended
    <2>. QED
      BY <1>2, <1>3, <1>4, <1>10, <2>1, <2>2, <2>3, ExchangeFacts DEF NothingRunsOn, Ours, Sure, InTurn
  <1>14. EventsInOrder'
    <2>1. \A e \in Exchanges : runs'[e] = runs[e]
      BY <1>2
    <2>. QED
      BY <1>2, <1>3, <1>4, <1>5, <2>1, OrderStays DEF InTurn, Ours
  <1>15. ForkIsGuarded'
    BY <1>1, <1>2, <1>4, <1>5, <1>6 DEF ForkIsGuarded, StillDue, Ours
  <1>16. EndsAreItsOwn'
    BY <1>2, EndsStay
  <1>. QED
    BY <1>3, <1>9, <1>10, <1>11, <1>12, <1>13, <1>14, <1>15, <1>16

\* Another abort is sent, counted, and marks the events that follow.
LEMMA AbortCounts ==
    ASSUME ThreadTypes, InTurn, AbortsAreCounted, NEW w \in 0..MaxExchanges + 1, SendAbort(w),
           CurrentExchange' = CurrentExchange, mishaps' \in Nat, mishaps <= mishaps',
           thread'.aborts = IF NeedsAbort THEN thread.aborts + 1 ELSE thread.aborts,
           initial' = "prompt" => initial = "prompt",
           \A e \in Exchanges : attempt[e].pc \in {"abort", "end"} => attempt'[e].pc \in {"abort", "end"},
           forkOwner = "nobody" => forkOwner' = "nobody",
           NeedsAbort => /\ w = TheFirst => initial' # "prompt"
                         /\ w \in 2..MaxExchanges => attempt'[w].pc \in {"abort", "end"}
                         /\ w = TheReleaser => forkOwner' = "nobody"
    PROVE  /\ AbortsAreCounted' /\ (NeverAnswered' <=> NeverAnswered)
           /\ abortCall' \in [1..MaxAbortCalls -> AbortCalls]
           /\ NeedsAbort => \E a \in 1..MaxAbortCalls : abortCall'[a].pc = "sent"
           /\ ~NeedsAbort => abortCall' = abortCall
           /\ \A a \in 1..MaxAbortCalls : abortCall[a].pc = "sent" => abortCall'[a].pc = "sent"
  <1>1. CASE ~NeedsAbort
    <2>1. abortCall' = abortCall /\ thread'.aborts = thread.aborts
      BY <1>1 DEF SendAbort
    <2>. QED
      BY <1>1, <2>1, CountStays DEF ThreadTypes
  <1>2. CASE NeedsAbort
    <2>1. PICK a \in 1..MaxAbortCalls :
             /\ abortCall[a].pc = "free"
             /\ abortCall' = [abortCall EXCEPT ![a] = [pc |-> "sent", of |-> CurrentExchange, waiter |-> w]]
      BY <1>2 DEF SendAbort, ThreadTypes
    <2>2. [pc |-> "sent", of |-> CurrentExchange, waiter |-> w] \in AbortCalls
      BY ExchangeFacts DEF InTurn, AbortCalls
    <2>3. /\ abortCall' \in [1..MaxAbortCalls -> AbortCalls]
          /\ abortCall'[a] = [pc |-> "sent", of |-> CurrentExchange, waiter |-> w]
          /\ \A b \in 1..MaxAbortCalls : b # a => abortCall'[b] = abortCall[b]
      BY <2>1, <2>2 DEF ThreadTypes
    <2>4. Cardinality(Unanswered(abortCall')) = Cardinality(Unanswered(abortCall)) + 1
      BY <2>1, <2>3, OneMoreUnanswered
    <2>5. Cardinality(Unanswered(abortCall)) \in Nat /\ mishaps \in Nat /\ thread.aborts \in Int
      BY UnansweredFacts, MishapFacts DEF ThreadTypes, Answering
    <2>6. /\ (Cardinality(Unanswered(abortCall)) <= thread.aborts)'
          /\ (thread.aborts <= Cardinality(Unanswered(abortCall)) + mishaps)'
          /\ NeverAnswered' <=> NeverAnswered
      <3>1. /\ Cardinality(Unanswered(abortCall)) <= thread.aborts
            /\ thread.aborts <= Cardinality(Unanswered(abortCall)) + mishaps
        BY DEF AbortsAreCounted
      <3>. QED
        BY <2>4, <2>5, <3>1, <1>2 DEF NeverAnswered
    <2>7. \A v \in 2..MaxExchanges : v \in Exchanges
      BY ExchangeFacts DEF Exchanges
    <2>8. ASSUME NEW b \in 1..MaxAbortCalls
          PROVE  (/\ abortCall[b].pc = "late" => NeverAnswered
                  /\ abortCall[b].pc # "free" =>
                        /\ abortCall[b].of = CurrentExchange
                        /\ abortCall[b].waiter = TheFirst => initial # "prompt"
                        /\ abortCall[b].waiter \in 2..MaxExchanges =>
                              attempt[abortCall[b].waiter].pc \in {"abort", "end"}
                        /\ abortCall[b].waiter = TheReleaser => forkOwner = "nobody")'
      <3>1. CASE b = a
        BY <3>1, <2>3, <1>2
      <3>2. CASE b # a
        BY <3>2, <2>3, <2>6, <2>7 DEF AbortsAreCounted
      <3>. QED
        BY <3>1, <3>2
    <2>9. AbortsAreCounted'
      BY <2>6, <2>8 DEF AbortsAreCounted
    <2>. QED
      BY <1>2, <2>1, <2>3, <2>6, <2>9
  <1>. QED
    BY <1>1, <1>2

\* What abortRun makes of the thread.
LEMMA AbortingFacts ==
    ASSUME NEW t \in Answering
    PROVE  /\ Aborting(t) \in Answering
           /\ Aborting(t).streaming = t.streaming /\ Aborting(t).accepting = t.accepting
           /\ Aborting(t).prompted = t.prompted /\ Aborting(t).assistant = t.assistant
           /\ Aborting(t).needsAssistant = t.needsAssistant /\ Aborting(t).pending = t.pending
           /\ Aborting(t).cancelled = t.cancelled /\ Aborting(t).beating = t.beating
           /\ Aborting(t).aborts = IF NeedsAbort THEN t.aborts + 1 ELSE t.aborts
           /\ Aborting(t).stale <=> t.stale \/ NeedsAbort
  <1>1. CASE NeedsAbort
    <2>. DEFINE n == t.aborts + 1
    <2>1. n \in Int /\ Aborting(t) = [t EXCEPT !.stale = TRUE, !.aborts = n]
      BY <1>1 DEF Aborting, Answering
    <2>. HIDE DEF n
    <2>2. LET u == Aborting(t) IN
          /\ u \in Answering
          /\ u.streaming = t.streaming /\ u.accepting = t.accepting
          /\ u.prompted = t.prompted /\ u.assistant = t.assistant
          /\ u.needsAssistant = t.needsAssistant /\ u.pending = t.pending
          /\ u.cancelled = t.cancelled /\ u.beating = t.beating
          /\ u.aborts = n /\ u.stale = TRUE
      BY <2>1 DEF Answering
    <2>. QED
      BY <1>1, <2>2 DEF n
  <1>2. CASE ~NeedsAbort
    BY <1>2 DEF Aborting
  <1>. QED
    BY <1>1, <1>2

\* What finishStreaming makes of it.
LEMMA StreamOverFacts ==
    ASSUME NEW t \in Answering, NEW status \in {"done", "failed", "stopped"}
    PROVE  LET u == StreamOver(t, status) IN
           /\ u \in Answering /\ ~u.streaming /\ ~u.accepting
           /\ u.prompted = t.prompted /\ u.assistant = t.assistant
           /\ u.needsAssistant = t.needsAssistant /\ u.pending = t.pending
           /\ u.beating = t.beating /\ u.aborts = t.aborts /\ u.stale = t.stale
           /\ u.cancelled <=> t.cancelled \/ (t.pending /\ status # "done")
  <1>. DEFINE c == t.cancelled \/ (t.pending /\ status # "done")
  <1>1. c \in BOOLEAN /\ StreamOver(t, status) = [t EXCEPT !.streaming = FALSE, !.accepting = FALSE,
                                                           !.cancelled = c]
    BY DEF StreamOver, Answering
  <1>. HIDE DEF c
  <1>2. LET u == StreamOver(t, status) IN
           /\ u \in Answering /\ ~u.streaming /\ ~u.accepting
           /\ u.prompted = t.prompted /\ u.assistant = t.assistant
           /\ u.needsAssistant = t.needsAssistant /\ u.pending = t.pending
           /\ u.beating = t.beating /\ u.aborts = t.aborts /\ u.stale = t.stale
           /\ u.cancelled = c
    BY <1>1 DEF Answering
  <1>. QED
    BY <1>2 DEF c

\* What is shown, and what is kept of the attempt.
LEMMA FinishFacts ==
    ASSUME ThreadTypes, InTurn, NEW status \in {"done", "failed", "stopped"}, FinishAttempt(status),
           Show(status)
    PROVE  /\ panel' \in [Exchanges -> {"none", "streaming", "done", "stopped", "failed"}]
           /\ \A e \in Exchanges : /\ panel'[e] # "none" <=> panel[e] # "none"
                                   /\ panel'[e] # panel[e] => e = CurrentExchange /\ panel'[e] = status
           /\ attempt' \in [Exchanges -> FollowUps]
           /\ CurrentExchange = 1 => attempt' = attempt
           /\ \A e \in Exchanges :
                 /\ e # CurrentExchange => attempt'[e] = attempt[e]
                 /\ attempt'[e].pc = attempt[e].pc /\ attempt'[e].accepted = attempt[e].accepted
                 /\ attempt'[e].pending => attempt[e].pending
                 /\ attempt[e].pending /\ ~(status = "done" /\ thread.assistant) => attempt'[e].pending
           /\ CurrentExchange # 1 /\ status # "done" => attempt'[CurrentExchange].cancelled
  <1>. DEFINE c == CurrentExchange
              p == attempt[c].pending /\ ~(status = "done" /\ thread.assistant /\ ~attempt[c].cancelled)
              k == attempt[c].cancelled \/ status # "done"
  <1>1. c \in Exchanges /\ p \in BOOLEAN /\ k \in BOOLEAN
    BY DEF InTurn, ThreadTypes, FollowUps
  <1>2. /\ panel' = IF panel[c] = "streaming" THEN [panel EXCEPT ![c] = status] ELSE panel
        /\ attempt' = IF c = 1 THEN attempt ELSE [attempt EXCEPT ![c].pending = p, ![c].cancelled = k]
    BY DEF Show, FinishAttempt
  <1>3. p => attempt[c].pending
    OBVIOUS
  <1>4. attempt[c].pending /\ ~(status = "done" /\ thread.assistant) => p
    OBVIOUS
  <1>5. status # "done" => k
    OBVIOUS
  <1>. HIDE DEF p, k, c
  <1>6. /\ attempt' \in [Exchanges -> FollowUps]
        /\ c = 1 => attempt' = attempt
        /\ \A e \in Exchanges : /\ e # c => attempt'[e] = attempt[e]
                                /\ attempt'[e].pc = attempt[e].pc
                                /\ attempt'[e].accepted = attempt[e].accepted
        /\ c # 1 => attempt'[c].pending = p /\ attempt'[c].cancelled = k
    <2>1. attempt \in [Exchanges -> FollowUps]
      BY DEF ThreadTypes
    <2>2. CASE c = 1
      BY ONLY <1>1, <1>2, <2>1, <2>2
    <2>3. CASE c # 1
      <3>. DEFINE r == [attempt[c] EXCEPT !.pending = p, !.cancelled = k]
      <3>1. /\ r \in FollowUps /\ r.pc = attempt[c].pc /\ r.accepted = attempt[c].accepted
            /\ r.pending = p /\ r.cancelled = k
        BY ONLY <1>1, <2>1 DEF FollowUps
      <3>2. attempt' = [attempt EXCEPT ![c] = r]
        BY ONLY <1>1, <1>2, <2>1, <2>3
      <3>. HIDE DEF r
      <3>3. attempt' \in [Exchanges -> FollowUps] /\ attempt'[c] = r
            /\ \A f \in Exchanges : f # c => attempt'[f] = attempt[f]
        BY ONLY <1>1, <2>1, <3>1, <3>2
      <3>. QED
        BY ONLY <2>3, <3>1, <3>3
    <2>. QED
      BY <2>2, <2>3
  <1>7. /\ panel' \in [Exchanges -> {"none", "streaming", "done", "stopped", "failed"}]
        /\ \A e \in Exchanges : /\ panel'[e] # "none" <=> panel[e] # "none"
                                /\ panel'[e] # panel[e] => e = c /\ panel'[e] = status
    BY <1>1, <1>2 DEF ThreadTypes
  <1>. QED
    BY <1>1, <1>3, <1>4, <1>5, <1>6, <1>7 DEF c

\* A stop leaves the events that are on their way to the aborted run.
LEMMA StopRunKeeps ==
    ASSUME ThreadInv, Ours, StopRun("stopped"),
           UNCHANGED <<plan, forkOwner, initial, prompt, runs, marked, forkExists, beat, opening,
                       releasing, amiss, mishaps>>,
           inbox' \in Seq(ThreadEvents),
           \A i \in 1..Len(inbox') : \E k \in 1..Len(inbox) : inbox'[i] = inbox[k]
    PROVE  ThreadInv'
  <1>. USE DEF ThreadInv
  <1>1. /\ SendAbort(NoWaiter) /\ thread' = StreamOver(Aborting(thread), "stopped")
        /\ FinishAttempt("stopped") /\ Show("stopped")
    BY DEF StopRun
  <1>2. /\ thread' \in Answering /\ ~thread'.streaming /\ ~thread'.accepting
        /\ thread'.prompted = thread.prompted /\ thread'.assistant = thread.assistant
        /\ thread'.needsAssistant = thread.needsAssistant /\ thread'.pending = thread.pending
        /\ thread'.beating = thread.beating
        /\ thread'.aborts = IF NeedsAbort THEN thread.aborts + 1 ELSE thread.aborts
        /\ thread'.stale <=> thread.stale \/ NeedsAbort
        /\ thread'.cancelled <=> thread.cancelled \/ thread.pending
    <2>. DEFINE t == Aborting(thread)
    <2>1. /\ t \in Answering /\ t.prompted = thread.prompted /\ t.assistant = thread.assistant
          /\ t.needsAssistant = thread.needsAssistant /\ t.pending = thread.pending
          /\ t.cancelled = thread.cancelled /\ t.beating = thread.beating
          /\ t.aborts = (IF NeedsAbort THEN thread.aborts + 1 ELSE thread.aborts)
          /\ t.stale <=> thread.stale \/ NeedsAbort
      BY AbortingFacts DEF ThreadTypes
    <2>2. thread' = StreamOver(t, "stopped")
      BY <1>1
    <2>. HIDE DEF t
    <2>. QED
      BY <2>1, <2>2, StreamOverFacts
  <1>3. /\ panel' \in [Exchanges -> {"none", "streaming", "done", "stopped", "failed"}]
        /\ \A e \in Exchanges : /\ panel'[e] # "none" <=> panel[e] # "none"
                                /\ panel'[e] # panel[e] => e = CurrentExchange /\ panel'[e] = "stopped"
        /\ attempt' \in [Exchanges -> FollowUps]
        /\ CurrentExchange = 1 => attempt' = attempt
        /\ \A e \in Exchanges :
              /\ e # CurrentExchange => attempt'[e] = attempt[e]
              /\ attempt'[e].pc = attempt[e].pc /\ attempt'[e].accepted = attempt[e].accepted
              /\ attempt'[e].pending <=> attempt[e].pending
        /\ CurrentExchange # 1 => attempt'[CurrentExchange].cancelled
    BY <1>1, FinishFacts
  <1>4. InTurn' /\ CurrentExchange' = CurrentExchange /\ CurrentExchange \in Exchanges
    BY <1>3, TurnStays DEF InTurn
  <1>5. /\ AbortsAreCounted' /\ (NeverAnswered' <=> NeverAnswered)
        /\ abortCall' \in [1..MaxAbortCalls -> AbortCalls]
        /\ NeedsAbort => \E a \in 1..MaxAbortCalls : abortCall'[a].pc = "sent"
        /\ \A a \in 1..MaxAbortCalls : abortCall[a].pc = "sent" => abortCall'[a].pc = "sent"
    <2>1. /\ NoWaiter \in 0..MaxExchanges + 1 /\ NoWaiter # TheFirst /\ NoWaiter # TheReleaser
          /\ NoWaiter \notin 2..MaxExchanges
      BY ExchangeFacts DEF NoWaiter, TheFirst, TheReleaser
    <2>2. mishaps' \in Nat /\ mishaps <= mishaps'
      BY MishapFacts
    <2>. QED
      BY <1>1, <1>2, <1>3, <1>4, <2>1, <2>2, AbortCounts
  <1>6. ThreadTypes'
    BY <1>2, <1>3, <1>5 DEF ThreadTypes
  <1>7. PromptsAreKnown'
    <2>1. ASSUME NEW e \in Exchanges, e > CurrentExchange
          PROVE  attempt'[e] = attempt[e]
      BY <2>1, <1>3, <1>4, ExchangeFacts
    <2>2. attempt'[1] = attempt[1]
      BY <1>3, ExchangeFacts
    <2>. QED
      BY <1>2, <1>3, <1>4, <2>1, <2>2 DEF PromptsAreKnown, Sure
  <1>8. LiveIsClean'
    BY <1>2 DEF LiveIsClean, Live
  <1>9. NothingRunsOn'
    <2>1. \A e \in Exchanges : (IsRun(e)' <=> IsRun(e)) /\ (Ended(e)' <=> Ended(e))
      BY DEF IsRun, Ended
    <2>2. ASSUME Sure, prompt[CurrentExchange] = "sent"
          PROVE  Owed'
      <3>1. CASE CurrentExchange = 1
        <4>1. thread.pending /\ initial \notin {"end", "abort"}
          BY <2>2, <3>1 DEF PromptsAreKnown
        <4>2. initial = "prompt" /\ thread'.cancelled
          BY <4>1, <1>2 DEF ThreadTypes
        <4>. QED
          BY <3>1, <4>2, <1>4 DEF Owed
      <3>2. CASE CurrentExchange # 1
        <4>1. attempt[CurrentExchange].pending /\ ~attempt[CurrentExchange].accepted
          BY <2>2, <3>2, <1>4, ExchangeFacts DEF PromptsAreKnown
        <4>2. ~attempt'[CurrentExchange].accepted /\ attempt'[CurrentExchange].pending
              /\ attempt'[CurrentExchange].cancelled
          BY <4>1, <3>2, <1>3, <1>4
        <4>. QED
          BY <3>2, <4>2, <1>4 DEF Owed
      <3>. QED
        BY <3>1, <3>2
    <2>3. IsRun(CurrentExchange) => NeedsAbort
      BY <1>4 DEF NeedsAbort, PromptsAreKnown, IsRun
    <2>4. CurrentExchange = 1 => NeedsAbort
      BY DEF NeedsAbort
    <2>5. (Sure \/ (CurrentExchange = 2 /\ thread.streaming /\ ~thread.needsAssistant /\ ~thread.assistant) =>
             \A e \in Exchanges : e < CurrentExchange => ~IsRun(e) /\ prompt[e] # "sent")'
      BY <1>2, <1>4, <2>1 DEF NothingRunsOn, Sure
    <2>6. (Sure /\ ~thread.streaming /\ prompt[CurrentExchange] = "sent" => Owed)'
      BY <2>2, <1>4 DEF Sure
    <2>7. (Sure /\ ~thread.streaming /\ IsRun(CurrentExchange) =>
             Owed \/ NeverAnswered \/ \E a \in 1..MaxAbortCalls : abortCall[a].pc = "sent")'
      BY <1>4, <1>5, <2>1, <2>3
    <2>8. (CurrentExchange = 1 /\ ~thread.streaming /\ ~thread.stale => Ended(1))'
      BY <1>2, <1>4, <2>4
    <2>. QED
      BY <2>5, <2>6, <2>7, <2>8 DEF NothingRunsOn
  <1>10. EventsInOrder'
    <2>1. (\A i \in 1..Len(inbox) : inbox[i].type = "answer" =>
              inbox[i].own /\ inbox[i].of \in Exchanges /\ runs[inbox[i].of] \notin {"none", "running"})'
      BY DEF EventsInOrder
    <2>2. (Ours /\ thread.assistant => runs[CurrentExchange] \notin {"none", "running"})'
      BY <1>2, <1>4 DEF EventsInOrder
    <2>3. (Ours /\ ((\E i \in 1..Len(inbox) : ~inbox[i].own) \/ thread.aborts > 0) => thread.stale)'
      BY <1>2 DEF EventsInOrder
    <2>4. ~Live'
      BY <1>2 DEF Live
    <2>. QED
      BY <2>1, <2>2, <2>3, <2>4 DEF EventsInOrder
  <1>11. ForkIsGuarded'
    BY <1>2, GuardStays DEF Ours
  <1>12. EndsAreItsOwn'
    BY <1>3 DEF EndsAreItsOwn, Unsafe
  <1>. QED
    BY <1>4, <1>5, <1>6, <1>7, <1>8, <1>9, <1>10, <1>11, <1>12

LEMMA StopStreamingKeeps ==
    ASSUME ThreadInv, StopStreaming
    PROVE  ThreadInv'
  <1>1. /\ Ours /\ StopRun("stopped")
        /\ UNCHANGED <<plan, forkOwner, initial, prompt, runs, marked, forkExists, beat, opening,
                       releasing, amiss, mishaps, inbox>>
    BY DEF StopStreaming, Ours, stHost, stSession, stCalls, stBounds
  <1>2. inbox' \in Seq(ThreadEvents)
    BY <1>1 DEF ThreadInv, ThreadTypes
  <1>3. \A i \in 1..Len(inbox') : i \in 1..Len(inbox) /\ inbox'[i] = inbox[i]
    BY <1>1
  <1>. QED
    BY <1>1, <1>2, <1>3, StopRunKeeps

LEMMA LetGoKeeps ==
    ASSUME ThreadInv, LetGo
    PROVE  ThreadInv'
  <1>. USE DEF ThreadInv
  <1>. DEFINE c == CurrentExchange
              k == attempt[c].cancelled \/ thread.streaming
  <1>1. /\ UNCHANGED <<plan, initial, panel, prompt, runs, inbox, marked, forkExists, beat, opening,
                       amiss, mishaps>>
        /\ Ours /\ forkOwner' = "nobody"
        /\ releasing' \in {"abort", "clear"}
        /\ attempt' = IF c = 1 THEN attempt ELSE [attempt EXCEPT ![c].cancelled = k]
    BY DEF LetGo, Ours, stHost, stSession, stBounds
  <1>2. InTurn' /\ CurrentExchange' = CurrentExchange
    BY <1>1, TurnStays
  <1>3. c \in Exchanges /\ k \in BOOLEAN
    BY DEF InTurn, ThreadTypes, FollowUps, Answering
  <1>. HIDE DEF k
  <1>4. /\ attempt' \in [Exchanges -> FollowUps]
        /\ \A e \in Exchanges : /\ attempt'[e].pc = attempt[e].pc
                                /\ attempt'[e].pending = attempt[e].pending
                                /\ attempt'[e].accepted = attempt[e].accepted
                                /\ e # c \/ c = 1 => attempt'[e] = attempt[e]
    BY <1>1, <1>3 DEF ThreadTypes, FollowUps
  <1>5. /\ thread' \in Answering
        /\ thread'.prompted = thread.prompted /\ thread'.pending = thread.pending
        /\ abortCall' \in [1..MaxAbortCalls -> AbortCalls] /\ AbortsAreCounted'
    <2>1. mishaps' \in Nat /\ mishaps <= mishaps' /\ thread \in Answering
      BY <1>1, MishapFacts DEF ThreadTypes
    <2>2. CASE ~thread.streaming
      <3>1. thread' = thread /\ abortCall' = abortCall
        BY <2>2 DEF LetGo
      <3>. QED
        BY <3>1, <2>1, <1>1, <1>2, <1>4, CountStays DEF ThreadTypes
    <2>3. CASE thread.streaming
      <3>1. SendAbort(TheReleaser) /\ thread' = Aborting(thread)
        BY <2>3 DEF LetGo
      <3>2. TheReleaser \in 0..MaxExchanges + 1 /\ TheReleaser # TheFirst /\ TheReleaser \notin 2..MaxExchanges
        BY ExchangeFacts DEF TheFirst, TheReleaser
      <3>3. /\ thread' \in Answering
            /\ thread'.prompted = thread.prompted /\ thread'.pending = thread.pending
            /\ thread'.aborts = IF NeedsAbort THEN thread.aborts + 1 ELSE thread.aborts
        BY <2>1, <3>1, AbortingFacts
      <3>. QED
        BY <2>1, <3>1, <3>2, <3>3, <1>1, <1>2, <1>4, AbortCounts
    <2>. QED
      BY <2>2, <2>3
  <1>6. ThreadTypes'
    BY <1>1, <1>4, <1>5 DEF ThreadTypes
  <1>7. PromptsAreKnown'
    <2>1. ASSUME NEW e \in Exchanges, e > c \/ e = 1
          PROVE  attempt'[e] = attempt[e]
      BY <2>1, <1>3, <1>4, ExchangeFacts
    <2>. QED
      BY <1>1, <1>2, <1>4, <1>5, <2>1, ExchangeFacts DEF PromptsAreKnown, Sure
  <1>8. LiveIsClean' /\ NothingRunsOn'
    BY <1>1 DEF LiveIsClean, NothingRunsOn, Live, Ours
  <1>9. EventsInOrder'
    BY <1>1 DEF EventsInOrder, Live, Ours
  <1>10. ForkIsGuarded'
    BY <1>1 DEF ForkIsGuarded, StillDue, Ours
  <1>11. EndsAreItsOwn'
    BY <1>1, EndsStay
  <1>. QED
    BY <1>2, <1>5, <1>6, <1>7, <1>8, <1>9, <1>10, <1>11

LEMMA InitialDispatchedKeeps ==
    ASSUME ThreadInv, InitialDispatched
    PROVE  ThreadInv'
  <1>. USE DEF ThreadInv
  <1>1. /\ UNCHANGED <<plan, attempt, prompt, runs, inbox, marked, beat, opening, releasing>>
        /\ initial = "prompt" /\ thread.pending /\ CurrentExchange = 1 /\ forkOwner # "user"
        /\ prompt[1] # "none"
        /\ thread \in Answering /\ 1 \in Exchanges
    BY ExchangeFacts DEF InitialDispatched, stHost, stCalls, PromptsAreKnown, ThreadTypes
  <1>2. CASE prompt[1] = "refused"
    <2>1. /\ initial' = "end" /\ forkExists' = FALSE /\ forkOwner' = "nobody"
          /\ panel' \in {panel, [panel EXCEPT ![1] = "stopped"]}
          /\ panel' # panel => panel[1] = "streaming"
          /\ thread' = [thread EXCEPT !.streaming = FALSE, !.pending = FALSE]
          /\ UNCHANGED <<abortCall, amiss, mishaps>>
      BY <1>2 DEF InitialDispatched
    <2>2. /\ panel' \in [Exchanges -> {"none", "streaming", "done", "stopped", "failed"}]
          /\ \A e \in Exchanges : /\ panel'[e] # "none" <=> panel[e] # "none"
                                  /\ panel'[e] # panel[e] => panel'[e] = "stopped"
      BY <1>1, <2>1 DEF ThreadTypes
    <2>3. InTurn' /\ CurrentExchange' = CurrentExchange
      BY <2>2, TurnStays
    <2>4. /\ thread' \in Answering /\ ~thread'.pending
          /\ thread'.prompted = thread.prompted /\ thread'.aborts = thread.aborts
      BY <1>1, <2>1 DEF Answering
    <2>5. ThreadTypes'
      BY <1>1, <2>1, <2>2, <2>4 DEF ThreadTypes
    <2>6. AbortsAreCounted'
      <3>1. mishaps' \in Nat /\ mishaps <= mishaps'
        BY <2>1, MishapFacts
      <3>. QED
        BY <3>1, <1>1, <2>1, <2>3, <2>4, CountStays
    <2>7. PromptsAreKnown'
      BY <1>1, <1>2, <2>1, <2>3, <2>4 DEF PromptsAreKnown, Sure
    <2>8. LiveIsClean' /\ NothingRunsOn'
      BY <2>1 DEF LiveIsClean, NothingRunsOn, Live, Ours
    <2>9. EventsInOrder'
      BY <1>1, <2>1 DEF EventsInOrder, Live, Ours
    <2>10. ForkIsGuarded'
      BY <2>1 DEF ForkIsGuarded, Ours
    <2>11. EndsAreItsOwn'
      BY <1>1, <2>1, <2>2 DEF EndsAreItsOwn, Unsafe
    <2>. QED
      BY <2>3, <2>5, <2>6, <2>7, <2>8, <2>9, <2>10, <2>11
  <1>3. CASE prompt[1] # "refused"
    <2>1. /\ UNCHANGED <<forkExists, forkOwner, panel>>
          /\ mishaps' \in Nat /\ mishaps <= mishaps' /\ mishaps' \in 0..MaxMishaps
          /\ amiss \subseteq amiss' /\ amiss' \subseteq amiss \cup {"prompt"}
          /\ prompt[1] = "admitted" => amiss' = amiss
          /\ prompt[1] = "sent" => ~Sure'
      BY <1>1, <1>3, MishapFacts DEF InitialDispatched, ThreadTypes, Sure
    <2>2. InTurn' /\ CurrentExchange' = CurrentExchange
      BY <2>1, TurnStays
    <2>3. EndsAreItsOwn'
      BY <1>1, <2>1, EndsStay
    <2>4. CASE forkOwner # "controller" \/ thread.cancelled
      <3>1. SendAbort(TheFirst) /\ thread' = Aborting(thread) /\ initial' = "abort"
        BY <1>3, <2>4 DEF InitialDispatched
      <3>2. NeedsAbort
        BY <1>1 DEF NeedsAbort
      <3>3. /\ thread' \in Answering
            /\ thread'.streaming = thread.streaming /\ thread'.accepting = thread.accepting
            /\ thread'.prompted = thread.prompted /\ thread'.assistant = thread.assistant
            /\ thread'.pending = thread.pending /\ thread'.beating = thread.beating
            /\ thread'.aborts = thread.aborts + 1 /\ thread'.stale
        BY <1>1, <3>1, <3>2, AbortingFacts
      <3>4. /\ AbortsAreCounted' /\ abortCall' \in [1..MaxAbortCalls -> AbortCalls]
            /\ \E a \in 1..MaxAbortCalls : abortCall'[a].pc = "sent"
        <4>1. TheFirst \in 0..MaxExchanges + 1 /\ TheFirst # TheReleaser /\ TheFirst \notin 2..MaxExchanges
          BY ExchangeFacts DEF TheFirst, TheReleaser
        <4>. QED
          BY <1>1, <2>1, <2>2, <3>1, <3>2, <3>3, <4>1, AbortCounts
      <3>5. ThreadTypes'
        BY <1>1, <2>1, <3>1, <3>3, <3>4 DEF ThreadTypes
      <3>6. ~Live /\ ~Live'
        BY <1>1, <2>1, <2>4, <3>3 DEF LiveIsClean, Live, Ours
      <3>7. PromptsAreKnown'
        <4>1. prompt[1] = "sent" => ~Sure' /\ thread'.pending
          BY <1>1, <2>1, <3>3
        <4>. QED
          BY <1>1, <2>1, <2>2, <3>1, <3>3, <4>1 DEF PromptsAreKnown
      <3>8. LiveIsClean'
        BY <2>1, <3>3, <3>6 DEF LiveIsClean, Ours
      <3>9. NothingRunsOn'
        <4>1. ~(\E e \in Exchanges : e < 1)
          BY ExchangeFacts
        <4>2. (Sure => prompt[1] # "sent")'
          BY <1>1, <2>1
        <4>. QED
          BY <1>1, <2>2, <3>3, <3>4, <4>1, <4>2 DEF NothingRunsOn
      <3>10. EventsInOrder'
        <4>1. (\A i \in 1..Len(inbox) : inbox[i].type = "answer" =>
              inbox[i].own /\ inbox[i].of \in Exchanges /\ runs[inbox[i].of] \notin {"none", "running"})'
          BY <1>1 DEF EventsInOrder
        <4>2. (Ours /\ thread.assistant => runs[CurrentExchange] \notin {"none", "running"})'
          BY <1>1, <2>1, <2>2, <3>3 DEF EventsInOrder, Ours
        <4>. QED
          BY <3>3, <3>6, <4>1, <4>2 DEF EventsInOrder
      <3>11. ForkIsGuarded'
        BY <1>1, <2>1, <3>3, GuardStays
      <3>. QED
        BY <2>2, <2>3, <3>4, <3>5, <3>7, <3>8, <3>9, <3>10, <3>11
    <2>5. CASE ~(forkOwner # "controller" \/ thread.cancelled)
      <3>1. initial' = "end" /\ thread' = [thread EXCEPT !.pending = FALSE] /\ abortCall' = abortCall
        BY <1>3, <2>5 DEF InitialDispatched
      <3>2. /\ thread' \in Answering
            /\ thread'.streaming = thread.streaming /\ thread'.accepting = thread.accepting
            /\ thread'.prompted = thread.prompted /\ thread'.assistant = thread.assistant
            /\ thread'.needsAssistant = thread.needsAssistant /\ thread'.stale = thread.stale
            /\ thread'.cancelled = thread.cancelled /\ thread'.beating = thread.beating
            /\ thread'.aborts = thread.aborts /\ ~thread'.pending
        BY <1>1, <3>1 DEF Answering
      <3>3. ThreadTypes'
        BY <1>1, <2>1, <3>1, <3>2 DEF ThreadTypes
      <3>4. AbortsAreCounted' /\ (NeverAnswered' <=> NeverAnswered)
        BY <1>1, <2>1, <2>2, <3>1, <3>2, CountStays
      <3>5. PromptsAreKnown'
        BY <1>1, <2>1, <2>2, <3>1, <3>2 DEF PromptsAreKnown
      <3>6. (Ours' <=> Ours) /\ (Live' <=> Live)
        BY <2>1, <3>2 DEF Ours, Live
      <3>7. LiveIsClean'
        BY <1>1, <2>1, <2>2, <3>2, <3>6 DEF LiveIsClean
      <3>8. NothingRunsOn'
        <4>1. ~(\E e \in Exchanges : e < 1)
          BY ExchangeFacts
        <4>2. (Sure' => prompt[1] # "sent") /\ (Sure' => Sure)
          BY <1>1, <2>1 DEF Sure
        <4>3. ~Owed
          BY <1>1, <2>5 DEF Owed
        <4>4. \A e \in Exchanges : (IsRun(e)' <=> IsRun(e)) /\ (Ended(e)' <=> Ended(e))
          BY <1>1 DEF IsRun, Ended
        <4>. QED
          BY <1>1, <2>2, <3>1, <3>2, <3>4, <3>6, <4>1, <4>2, <4>3, <4>4 DEF NothingRunsOn
      <3>9. EventsInOrder'
        <4>1. \A e \in Exchanges : runs'[e] = runs[e]
          BY <1>1
        <4>2. "event" \in amiss' => "event" \in amiss
          BY <2>1
        <4>. QED
          BY <1>1, <2>1, <2>2, <3>2, <3>6, <4>1, <4>2, OrderStays
      <3>10. ForkIsGuarded'
        BY <1>1, <2>1, <3>2, GuardStays
      <3>. QED
        BY <2>2, <2>3, <3>3, <3>4, <3>5, <3>7, <3>8, <3>9, <3>10
    <2>. QED
      BY <2>4, <2>5
  <1>. QED
    BY <1>2, <1>3

\* A follow-up finds nothing of what came before, or waits for an answer of its own.
LEMMA AskFollowUpKeeps ==
    ASSUME ThreadInv, AskFollowUp
    PROVE  ThreadInv'
  <1>. USE DEF ThreadInv
  <1>. DEFINE c == CurrentExchange
              d == CurrentExchange + 1
  <1>1. /\ UNCHANGED <<plan, forkOwner, initial, prompt, runs, inbox, abortCall, marked, forkExists, beat,
                       opening, releasing, amiss, mishaps>>
        /\ Ours /\ ~thread.streaming /\ ~thread.pending /\ thread.aborts = 0
        /\ c = 1 \/ ~attempt[c].pending
        /\ d <= plan.exchanges
        /\ \A i \in 1..Len(inbox) : ~inbox[i].own
        /\ thread' = [thread EXCEPT !.streaming = TRUE, !.accepting = FALSE, !.prompted = FALSE,
                                    !.assistant = FALSE, !.needsAssistant = thread.stale]
        /\ attempt' = [attempt EXCEPT ![d].pc = "get"]
        /\ panel' = [panel EXCEPT ![d] = "streaming"]
    <2>1. DOMAIN inbox = 1..Len(inbox)
      BY DEF ThreadTypes
    <2>. QED
      BY <2>1 DEF AskFollowUp, CanReuse, Ours, stHost, stSession, stCalls, stBounds
  <1>2. c \in Exchanges /\ c \in Nat /\ d \in Exchanges /\ d # 1 /\ d > c /\ plan.exchanges <= MaxExchanges
    <2>1. plan.exchanges \in 0..MaxExchanges
      BY STAssumption DEF ThreadTypes
    <2>2. c \in Exchanges /\ c \in Nat \ {0}
      BY ExchangeFacts DEF InTurn
    <2>. QED
      BY <1>1, <2>1, <2>2, ExchangeFacts DEF Exchanges
  <1>3. /\ ~NeverAnswered /\ \A a \in 1..MaxAbortCalls : abortCall[a].pc = "free"
    BY <1>1, NoAbortsMeansNone
  <1>4. /\ panel' \in [Exchanges -> {"none", "streaming", "done", "stopped", "failed"}]
        /\ panel'[d] = "streaming" /\ \A e \in Exchanges : e # d => panel'[e] = panel[e]
    BY <1>1, <1>2 DEF ThreadTypes
  <1>5. InTurn' /\ CurrentExchange' = d
    <2>1. \A e \in Exchanges : panel'[e] # "none" <=> panel[e] # "none" \/ e = d
      BY <1>4
    <2>. QED
      BY <2>1, <1>2, TurnFollows
  <1>6. attempt[d] = NoAttempt0 /\ prompt[d] = "none" /\ runs[d] = "none"
    BY <1>2 DEF PromptsAreKnown
  <1>7. /\ attempt' \in [Exchanges -> FollowUps]
        /\ attempt'[d] = [NoAttempt0 EXCEPT !.pc = "get"]
        /\ \A e \in Exchanges : e # d => attempt'[e] = attempt[e]
    BY <1>1, <1>2, <1>6 DEF ThreadTypes, FollowUps
  <1>8. /\ thread' \in Answering
        /\ thread'.streaming /\ ~thread'.accepting /\ ~thread'.prompted /\ ~thread'.assistant
        /\ thread'.needsAssistant = thread.stale /\ thread'.stale = thread.stale
        /\ ~thread'.pending /\ thread'.aborts = 0 /\ thread'.beating = thread.beating
    BY <1>1 DEF ThreadTypes, Answering
  <1>. HIDE DEF d
  <1>9. ThreadTypes'
    BY <1>1, <1>4, <1>7, <1>8 DEF ThreadTypes
  <1>10. AbortsAreCounted'
    <2>1. ~NeverAnswered'
      BY <1>1, <1>3, <1>8 DEF NeverAnswered
    <2>2. mishaps \in Nat /\ Cardinality(Unanswered(abortCall)) \in Nat
      BY UnansweredFacts, MishapFacts
    <2>3. /\ (Cardinality(Unanswered(abortCall)) <= thread.aborts)'
          /\ (thread.aborts <= Cardinality(Unanswered(abortCall)) + mishaps)'
      BY <1>1, <1>8, <2>2 DEF AbortsAreCounted
    <2>. QED
      BY <1>1, <1>3, <2>1, <2>3 DEF AbortsAreCounted
  <1>11. PromptsAreKnown'
    <2>1. ASSUME NEW e \in Exchanges
          PROVE  (/\ runs[e] # "none" <=> prompt[e] = "admitted"
                  /\ e > CurrentExchange => prompt[e] = "none" /\ attempt[e] = NoAttempt0
                  /\ attempt[e].accepted => prompt[e] = "admitted" /\ attempt[e].pc \in {"abort", "end"}
                  /\ attempt[e].pc \in {"none", "get"} /\ e > 1 => prompt[e] = "none"
                  /\ attempt[e].pc \in {"prompt", "abort"} \/ attempt[e].pending => prompt[e] # "none"
                  /\ e > 1 /\ prompt[e] = "sent" => e = CurrentExchange /\ attempt[e].pending)'
      <3>1. CASE e = d
        BY <3>1, <1>1, <1>5, <1>6, <1>7, <1>2, ExchangeFacts DEF NoAttempt0
      <3>2. CASE e # d
        <4>1. attempt'[e] = attempt[e] /\ prompt'[e] = prompt[e] /\ runs'[e] = runs[e]
          BY <3>2, <1>1, <1>7
        <4>2. e > d => e > c
          BY <1>2, ExchangeFacts
        <4>3. ~(e > 1 /\ prompt[e] = "sent")
          BY <1>1 DEF PromptsAreKnown
        <4>. QED
          BY <4>1, <4>2, <4>3, <1>5 DEF PromptsAreKnown
      <3>. QED
        BY <3>1, <3>2
    <2>2. attempt'[1] = attempt[1]
      BY <1>2, <1>7, ExchangeFacts
    <2>. QED
      BY <2>1, <2>2, <1>1, <1>5, <1>6, <1>8 DEF PromptsAreKnown, Sure
  <1>12. LiveIsClean'
    BY <1>1, <1>2, <1>4, <1>5, <1>6, <1>7, <1>8 DEF LiveIsClean, NoAttempt0
  <1>13. NothingRunsOn'
    <2>1. ~Owed
      BY <1>1 DEF Owed, PromptsAreKnown
    <2>2. \A e \in Exchanges : e < d <=> e < c \/ e = c
      BY <1>2, ExchangeFacts DEF d
    <2>3. ASSUME Sure
          PROVE  \A e \in Exchanges : e < d => ~IsRun(e) /\ prompt[e] # "sent"
      BY <1>1, <1>2, <1>3, <2>1, <2>2, <2>3 DEF NothingRunsOn
    <2>4. ASSUME d = 2, ~thread.stale
          PROVE  \A e \in Exchanges : e < d => ~IsRun(e) /\ prompt[e] # "sent"
      <3>1. c = 1
        BY <2>4, <1>2 DEF d
      <3>2. Ended(1) /\ 1 \in Exchanges
        BY <3>1, <2>4, <1>1, <1>2 DEF NothingRunsOn
      <3>3. ~IsRun(1) /\ prompt[1] # "sent"
        BY <3>2 DEF Ended, IsRun, PromptsAreKnown
      <3>. QED
        BY <3>1, <3>3, <2>2, ExchangeFacts
    <2>5. \A e \in Exchanges : IsRun(e)' <=> IsRun(e)
      BY <1>1 DEF IsRun
    <2>. QED
      BY <1>1, <1>5, <1>8, <2>3, <2>4, <2>5 DEF NothingRunsOn, Sure
  <1>14. EventsInOrder'
    <2>1. \A i \in 1..Len(inbox) : inbox[i].type # "answer"
      BY <1>1 DEF EventsInOrder
    <2>2. ASSUME NEW i \in 1..Len(inbox)
          PROVE  ~IsProven(i)' /\ ~Tells(i)' /\ ~Foremost(i)'
      <3>1. thread.stale
        BY <1>1 DEF EventsInOrder
      <3>2. \A k \in 1..i - 1 : k \in 1..Len(inbox)
        BY DEF ThreadTypes
      <3>3. \A k \in 1..i - 1 : ~Answers(k)'
        BY <3>2, <2>1, <1>1 DEF Answers
      <3>4. ~IsProven(i)'
        BY <3>1, <3>3, <1>8 DEF IsProven
      <3>. QED
        BY <3>4 DEF Tells, Foremost
    <2>3. (Ours /\ ((\E i \in 1..Len(inbox) : ~inbox[i].own) \/ thread.aborts > 0) => thread.stale)'
      BY <1>1, <1>8 DEF EventsInOrder, Ours
    <2>4. ~Ended(2)' \/ CurrentExchange' # 2
      BY <1>1, <1>5, <1>6 DEF Ended
    <2>. QED
      BY <1>1, <1>8, <2>1, <2>2, <2>3, <2>4 DEF EventsInOrder
  <1>15. ForkIsGuarded'
    BY <1>1, <1>8, GuardStays
  <1>16. EndsAreItsOwn'
    BY <1>1, <1>4 DEF EndsAreItsOwn, Unsafe
  <1>. QED
    BY <1>5, <1>9, <1>10, <1>11, <1>12, <1>13, <1>14, <1>15, <1>16

LEMMA FollowUpLookedUpKeeps ==
    ASSUME ThreadInv, NEW e \in Exchanges, FollowUpLookedUp(e)
    PROVE  ThreadInv'
  <1>. USE DEF ThreadInv
  <1>1. /\ UNCHANGED <<plan, forkOwner, initial, runs, inbox, abortCall, marked, forkExists, beat,
                       opening, releasing, amiss>>
        /\ attempt[e].pc = "get" /\ mishaps' \in Nat /\ mishaps <= mishaps' /\ mishaps' \in 0..MaxMishaps
    BY MishapFacts DEF FollowUpLookedUp, stSession, stCalls
  <1>2. /\ e > 1 /\ e # 1 /\ e <= CurrentExchange /\ prompt[e] = "none" /\ ~attempt[e].pending
        /\ ~attempt[e].accepted /\ runs[e] = "none" /\ CurrentExchange > 1 /\ CurrentExchange # 1
        /\ CurrentExchange \in Exchanges
    <2>1. attempt[e] # NoAttempt0
      BY <1>1 DEF NoAttempt0
    <2>2. e # 1 /\ e <= CurrentExchange /\ CurrentExchange \in Exchanges
      BY <2>1, ExchangeFacts DEF PromptsAreKnown, InTurn
    <2>3. e > 1 /\ CurrentExchange > 1
      BY <2>2, ExchangeFacts
    <2>. QED
      BY <1>1, <2>2, <2>3 DEF PromptsAreKnown
  <1>3. \A f \in Exchanges : (IsRun(f)' <=> IsRun(f)) /\ (Ended(f)' <=> Ended(f)) /\ runs'[f] = runs[f]
    BY <1>1 DEF IsRun, Ended
  <1>4. CASE UNCHANGED <<thread, panel, prompt>> /\ attempt' = [attempt EXCEPT ![e].pc = "end"]
    <2>1. /\ attempt' \in [Exchanges -> FollowUps]
          /\ attempt'[e].pc = "end"
          /\ \A f \in Exchanges : /\ f # e => attempt'[f] = attempt[f]
                                  /\ attempt'[f].cancelled = attempt[f].cancelled
                                  /\ attempt'[f].pending = attempt[f].pending
                                  /\ attempt'[f].accepted = attempt[f].accepted
      <3>. DEFINE r == [attempt[e] EXCEPT !.pc = "end"]
      <3>1. /\ r \in FollowUps /\ r.pc = "end" /\ r.cancelled = attempt[e].cancelled
            /\ r.pending = attempt[e].pending /\ r.accepted = attempt[e].accepted
        <4>1. attempt[e] \in FollowUps
          BY DEF ThreadTypes
        <4>. QED
          BY ONLY <4>1 DEF FollowUps
      <3>2. attempt' = [attempt EXCEPT ![e] = r]
        BY <1>4
      <3>. HIDE DEF r
      <3>3. attempt' \in [Exchanges -> FollowUps] /\ attempt'[e] = r
            /\ \A f \in Exchanges : f # e => attempt'[f] = attempt[f]
        <4>1. attempt \in [Exchanges -> FollowUps]
          BY DEF ThreadTypes
        <4>. QED
          BY ONLY <3>1, <3>2, <4>1, e \in Exchanges
      <3>. QED
        BY ONLY <3>1, <3>3
    <2>2. InTurn' /\ CurrentExchange' = CurrentExchange
      BY <1>4, TurnStays
    <2>3. ThreadTypes'
      BY <1>1, <1>4, <2>1 DEF ThreadTypes
    <2>4. AbortsAreCounted' /\ (NeverAnswered' <=> NeverAnswered)
      <3>1. \A f \in Exchanges : attempt[f].pc \in {"abort", "end"} => attempt'[f].pc \in {"abort", "end"}
        BY <2>1
      <3>. QED
        BY <3>1, <1>1, <1>4, <2>2, CountStays
    <2>5. PromptsAreKnown'
      <3>1. \A f \in Exchanges : f > CurrentExchange \/ f = 1 => f # e
        BY <1>2, ExchangeFacts
      <3>. QED
        BY <3>1, <1>1, <1>2, <1>4, <2>1, <2>2, ExchangeFacts DEF PromptsAreKnown, Sure
    <2>6. LiveIsClean'
      BY <1>1, <1>4, <2>1, <2>2 DEF LiveIsClean, Live, Ours, InTurn
    <2>7. NothingRunsOn'
      <3>1. Owed => Owed'
        <4>1. SUFFICES ASSUME Owed PROVE Owed'
          OBVIOUS
        <4>2. e # CurrentExchange
          BY <4>1, <1>2 DEF Owed
        <4>. QED
          BY <4>1, <4>2, <1>2, <2>1, <2>2 DEF Owed
      <3>. QED
        BY <1>1, <1>2, <1>3, <1>4, <2>2, <2>4, <3>1 DEF NothingRunsOn, Ours, Sure
    <2>8. EventsInOrder'
      BY <1>1, <1>2, <1>3, <1>4, <2>2, OrderStays DEF Ours, Live
    <2>9. ForkIsGuarded'
      BY <1>1, <1>4, GuardStays
    <2>10. EndsAreItsOwn'
      BY <1>3, <1>4, <1>1, EndsStay
    <2>. QED
      BY <2>2, <2>3, <2>4, <2>5, <2>6, <2>7, <2>8, <2>9, <2>10
  <1>5. CASE /\ ~Stale(e)
             /\ thread' = [thread EXCEPT !.prompted = TRUE, !.accepting = TRUE]
             /\ attempt' = [attempt EXCEPT ![e].pc = "prompt", ![e].pending = TRUE]
             /\ prompt' = [prompt EXCEPT ![e] = "sent"]
             /\ panel' = panel
    <2>1. /\ attempt' \in [Exchanges -> FollowUps]
          /\ attempt'[e].pc = "prompt" /\ attempt'[e].pending
          /\ \A f \in Exchanges : /\ f # e => attempt'[f] = attempt[f]
                                  /\ attempt'[f].cancelled = attempt[f].cancelled
                                  /\ attempt'[f].accepted = attempt[f].accepted
          /\ prompt' \in [Exchanges -> {"none", "sent", "refused", "admitted"}]
          /\ prompt'[e] = "sent" /\ \A f \in Exchanges : f # e => prompt'[f] = prompt[f]
      <3>. DEFINE r == [attempt[e] EXCEPT !.pc = "prompt", !.pending = TRUE]
      <3>1. /\ r \in FollowUps /\ r.pc = "prompt" /\ r.pending
            /\ r.cancelled = attempt[e].cancelled /\ r.accepted = attempt[e].accepted
        <4>1. attempt[e] \in FollowUps
          BY DEF ThreadTypes
        <4>. QED
          BY ONLY <4>1 DEF FollowUps
      <3>2. attempt' = [attempt EXCEPT ![e] = r]
        BY <1>5 DEF ThreadTypes
      <3>. HIDE DEF r
      <3>3. attempt' \in [Exchanges -> FollowUps] /\ attempt'[e] = r
            /\ \A f \in Exchanges : f # e => attempt'[f] = attempt[f]
        <4>1. attempt \in [Exchanges -> FollowUps]
          BY DEF ThreadTypes
        <4>. QED
          BY ONLY <3>1, <3>2, <4>1, e \in Exchanges
      <3>4. /\ prompt' \in [Exchanges -> {"none", "sent", "refused", "admitted"}]
            /\ prompt'[e] = "sent" /\ \A f \in Exchanges : f # e => prompt'[f] = prompt[f]
        BY <1>5 DEF ThreadTypes
      <3>. QED
        BY ONLY <3>1, <3>3, <3>4
    <2>2. InTurn' /\ CurrentExchange' = CurrentExchange
      BY <1>5, TurnStays
    <2>3. Live /\ e = CurrentExchange
      BY <1>5 DEF Stale, Live, Ours
    <2>4. /\ thread' \in Answering /\ thread'.streaming /\ thread'.accepting /\ thread'.prompted
          /\ thread'.assistant = thread.assistant /\ thread'.needsAssistant = thread.needsAssistant
          /\ thread'.stale = thread.stale /\ thread'.pending = thread.pending
          /\ thread'.cancelled = thread.cancelled /\ thread'.beating = thread.beating
          /\ thread'.aborts = thread.aborts
      BY <1>5, <2>3 DEF ThreadTypes, Answering, Live
    <2>5. ThreadTypes'
      BY <1>1, <1>5, <2>1, <2>4 DEF ThreadTypes
    <2>6. AbortsAreCounted' /\ (NeverAnswered' <=> NeverAnswered)
      <3>1. \A f \in Exchanges : attempt[f].pc \in {"abort", "end"} => attempt'[f].pc \in {"abort", "end"}
        BY <1>1, <2>1
      <3>. QED
        BY <3>1, <1>1, <2>2, <2>4, CountStays
    <2>7. PromptsAreKnown'
      <3>1. \A f \in Exchanges : f > CurrentExchange \/ f = 1 => f # e
        BY <1>2, ExchangeFacts
      <3>2. ASSUME NEW f \in Exchanges
            PROVE  (/\ runs[f] # "none" <=> prompt[f] = "admitted"
                    /\ f > CurrentExchange => prompt[f] = "none" /\ attempt[f] = NoAttempt0
                    /\ attempt[f].accepted => prompt[f] = "admitted" /\ attempt[f].pc \in {"abort", "end"}
                    /\ attempt[f].pc \in {"none", "get"} /\ f > 1 => prompt[f] = "none"
                    /\ attempt[f].pc \in {"prompt", "abort"} \/ attempt[f].pending => prompt[f] # "none"
                    /\ f > 1 /\ prompt[f] = "sent" => f = CurrentExchange /\ attempt[f].pending)'
        <4>1. CASE f = e
          BY <4>1, <3>1, <1>1, <1>2, <2>1, <2>2, <2>3
        <4>2. CASE f # e
          BY <4>2, <1>1, <2>1, <2>2 DEF PromptsAreKnown
        <4>. QED
          BY <4>1, <4>2
      <3>3. attempt'[1] = attempt[1] /\ prompt'[1] = prompt[1]
        BY <1>2, <2>1, ExchangeFacts
      <3>. QED
        BY <3>2, <3>3, <1>1, <2>1, <2>2, <2>3, <2>4 DEF PromptsAreKnown, Sure
    <2>8. LiveIsClean'
      BY <1>1, <1>2, <1>5, <2>1, <2>2, <2>3, <2>4 DEF LiveIsClean, Live, Ours
    <2>9. NothingRunsOn'
      <3>1. \A f \in Exchanges : f < CurrentExchange => prompt'[f] = prompt[f]
        BY <2>1, <2>3, ExchangeFacts
      <3>. QED
        BY <3>1, <1>1, <1>2, <1>3, <2>2, <2>3, <2>4 DEF NothingRunsOn, Live, Ours, Sure
    <2>10. EventsInOrder'
      BY <1>1, <1>2, <1>3, <2>2, <2>3, <2>4, OrderStays DEF Ours, Live
    <2>11. ForkIsGuarded'
      BY <1>1, <2>4, GuardStays
    <2>12. EndsAreItsOwn'
      BY <1>1, <1>3, <1>5, EndsStay
    <2>. QED
      BY <2>2, <2>5, <2>6, <2>7, <2>8, <2>9, <2>10, <2>11, <2>12
  <1>6. CASE /\ ~Stale(e)
             /\ thread' = StreamOver(thread, "stopped")
             /\ attempt' = [attempt EXCEPT ![e].pc = "end", ![e].cancelled = TRUE]
             /\ Show("stopped")
             /\ prompt' = prompt
    <2>1. /\ attempt' \in [Exchanges -> FollowUps]
          /\ attempt'[e].pc = "end"
          /\ \A f \in Exchanges : /\ f # e => attempt'[f] = attempt[f]
                                  /\ attempt'[f].pending = attempt[f].pending
                                  /\ attempt'[f].accepted = attempt[f].accepted
      <3>. DEFINE r == [attempt[e] EXCEPT !.pc = "end", !.cancelled = TRUE]
      <3>1. /\ r \in FollowUps /\ r.pc = "end"
            /\ r.pending = attempt[e].pending /\ r.accepted = attempt[e].accepted
        <4>1. attempt[e] \in FollowUps
          BY DEF ThreadTypes
        <4>. QED
          BY ONLY <4>1 DEF FollowUps
      <3>2. attempt' = [attempt EXCEPT ![e] = r]
        BY <1>6 DEF ThreadTypes
      <3>. HIDE DEF r
      <3>3. attempt' \in [Exchanges -> FollowUps] /\ attempt'[e] = r
            /\ \A f \in Exchanges : f # e => attempt'[f] = attempt[f]
        <4>1. attempt \in [Exchanges -> FollowUps]
          BY DEF ThreadTypes
        <4>. QED
          BY ONLY <3>1, <3>2, <4>1, e \in Exchanges
      <3>. QED
        BY ONLY <3>1, <3>3
    <2>2. /\ panel' \in [Exchanges -> {"none", "streaming", "done", "stopped", "failed"}]
          /\ \A f \in Exchanges : /\ panel'[f] # "none" <=> panel[f] # "none"
                                  /\ panel'[f] # panel[f] => panel'[f] = "stopped"
      BY <1>2, <1>6 DEF Show, ThreadTypes
    <2>3. InTurn' /\ CurrentExchange' = CurrentExchange
      BY <2>2, TurnStays
    <2>4. e = CurrentExchange
      BY <1>6 DEF Stale
    <2>5. /\ thread' \in Answering /\ ~thread'.streaming /\ ~thread'.accepting
          /\ thread'.prompted = thread.prompted
          /\ thread'.assistant = thread.assistant /\ thread'.needsAssistant = thread.needsAssistant
          /\ thread'.stale = thread.stale /\ thread'.pending = thread.pending
          /\ thread'.beating = thread.beating /\ thread'.aborts = thread.aborts
      BY <1>6, StreamOverFacts DEF ThreadTypes
    <2>6. ThreadTypes'
      BY <1>1, <1>6, <2>1, <2>2, <2>5 DEF ThreadTypes
    <2>7. AbortsAreCounted' /\ (NeverAnswered' <=> NeverAnswered)
      <3>1. \A f \in Exchanges : attempt[f].pc \in {"abort", "end"} => attempt'[f].pc \in {"abort", "end"}
        BY <2>1
      <3>. QED
        BY <3>1, <1>1, <2>3, <2>5, CountStays
    <2>8. PromptsAreKnown'
      <3>1. \A f \in Exchanges : f > CurrentExchange \/ f = 1 => f # e
        BY <1>2, ExchangeFacts
      <3>. QED
        BY <3>1, <1>1, <1>2, <1>6, <2>1, <2>3, <2>5, ExchangeFacts DEF PromptsAreKnown, Sure
    <2>9. LiveIsClean'
      BY <2>5 DEF LiveIsClean, Live
    <2>10. NothingRunsOn'
      BY <1>1, <1>2, <1>3, <1>6, <2>3, <2>4, <2>5 DEF NothingRunsOn, Ours, Sure, IsRun
    <2>11. EventsInOrder'
      BY <1>1, <1>2, <1>3, <2>3, <2>5, OrderStays DEF Ours, Live
    <2>12. ForkIsGuarded'
      BY <1>1, <2>5, GuardStays
    <2>13. EndsAreItsOwn'
      BY <1>1, <2>2 DEF EndsAreItsOwn, Unsafe
    <2>. QED
      BY <2>3, <2>6, <2>7, <2>8, <2>9, <2>10, <2>11, <2>12, <2>13
  <1>. QED
    BY <1>4, <1>5, <1>6 DEF FollowUpLookedUp

\* What was cancelled while it was dispatched is aborted, or was already.
LEMMA FollowUpDispatchedKeeps ==
    ASSUME ThreadInv, NEW e \in Exchanges, FollowUpDispatched(e)
    PROVE  ThreadInv'
  <1>. USE DEF ThreadInv
  <1>1. PICK outcome \in {"accepted", "ambiguous", "refused"} :
          /\ DispatchSidePrompt(e, outcome)
          /\ IF outcome = "refused"
             THEN /\ thread' = StreamOver(thread, "stopped")
                  /\ attempt' = [attempt EXCEPT ![e].pc = "end", ![e].pending = FALSE, ![e].cancelled = TRUE]
                  /\ Show("stopped")
                  /\ UNCHANGED abortCall
             ELSE IF /\ attempt[e].cancelled /\ forkOwner # "user"
                     /\ forkOwner # "controller" \/ CurrentExchange = e
             THEN /\ SendAbort(e)
                  /\ thread' = Aborting(thread)
                  /\ attempt' = [attempt EXCEPT ![e].pc = "abort", ![e].accepted = outcome = "accepted"]
                  /\ UNCHANGED panel
             ELSE /\ attempt' = [attempt EXCEPT ![e].pc = "end", ![e].pending = @ /\ outcome # "accepted"]
                  /\ UNCHANGED <<thread, panel, abortCall>>
    BY DEF FollowUpDispatched
  <1>2. /\ UNCHANGED <<plan, forkOwner, initial, prompt, runs, inbox, marked, forkExists, beat,
                       opening, releasing, amiss>>
        /\ attempt[e].pc = "prompt" /\ mishaps' \in Nat /\ mishaps <= mishaps' /\ mishaps' \in 0..MaxMishaps
        /\ outcome = "accepted" => prompt[e] = "admitted"
        /\ outcome = "refused" => prompt[e] = "refused" /\ ~Stale(e)
    BY <1>1, MishapFacts DEF FollowUpDispatched, DispatchSidePrompt, stHost, stSession, stCalls
  <1>3. /\ e > 1 /\ e # 1 /\ e <= CurrentExchange /\ prompt[e] # "none"
        /\ ~attempt[e].accepted /\ CurrentExchange > 1 /\ CurrentExchange # 1
        /\ CurrentExchange \in Exchanges
    <2>1. attempt[e] # NoAttempt0
      BY <1>2 DEF NoAttempt0
    <2>2. e # 1 /\ e <= CurrentExchange /\ CurrentExchange \in Exchanges
      BY <2>1, ExchangeFacts DEF PromptsAreKnown, InTurn
    <2>3. e > 1 /\ CurrentExchange > 1
      BY <2>2, ExchangeFacts
    <2>. QED
      BY <1>2, <2>2, <2>3 DEF PromptsAreKnown
  <1>4. \A f \in Exchanges : /\ (IsRun(f)' <=> IsRun(f)) /\ (Ended(f)' <=> Ended(f)) /\ runs'[f] = runs[f]
                             /\ f > CurrentExchange \/ f = 1 => f # e
    BY <1>2, <1>3, ExchangeFacts DEF IsRun, Ended
  <1>5. CASE outcome = "refused"
    <2>1. /\ attempt' \in [Exchanges -> FollowUps]
          /\ attempt'[e].pc = "end" /\ ~attempt'[e].pending /\ ~attempt'[e].accepted
          /\ \A f \in Exchanges : f # e => attempt'[f] = attempt[f]
      <3>. DEFINE r == [attempt[e] EXCEPT !.pc = "end", !.pending = FALSE, !.cancelled = TRUE]
      <3>1. r \in FollowUps /\ r.pc = "end" /\ ~r.pending /\ r.accepted = attempt[e].accepted
        <4>1. attempt[e] \in FollowUps
          BY DEF ThreadTypes
        <4>. QED
          BY ONLY <4>1 DEF FollowUps
      <3>2. attempt' = [attempt EXCEPT ![e] = r]
        BY <1>1, <1>5 DEF ThreadTypes
      <3>. HIDE DEF r
      <3>3. attempt' \in [Exchanges -> FollowUps] /\ attempt'[e] = r
            /\ \A f \in Exchanges : f # e => attempt'[f] = attempt[f]
        <4>1. attempt \in [Exchanges -> FollowUps]
          BY DEF ThreadTypes
        <4>. QED
          BY ONLY <3>1, <3>2, <4>1, e \in Exchanges
      <3>. QED
        BY ONLY <3>1, <3>3, <1>3
    <2>2. /\ panel' \in [Exchanges -> {"none", "streaming", "done", "stopped", "failed"}]
          /\ \A f \in Exchanges : /\ panel'[f] # "none" <=> panel[f] # "none"
                                  /\ panel'[f] # panel[f] => panel'[f] = "stopped"
      BY <1>1, <1>3, <1>5 DEF Show, ThreadTypes
    <2>3. InTurn' /\ CurrentExchange' = CurrentExchange
      BY <2>2, TurnStays
    <2>4. e = CurrentExchange /\ prompt[e] = "refused" /\ runs[e] = "none" /\ abortCall' = abortCall
      BY <1>1, <1>2, <1>5 DEF Stale, PromptsAreKnown
    <2>5. /\ thread' \in Answering /\ ~thread'.streaming /\ ~thread'.accepting
          /\ thread'.prompted = thread.prompted
          /\ thread'.assistant = thread.assistant /\ thread'.needsAssistant = thread.needsAssistant
          /\ thread'.stale = thread.stale /\ thread'.pending = thread.pending
          /\ thread'.beating = thread.beating /\ thread'.aborts = thread.aborts
      BY <1>1, <1>5, StreamOverFacts DEF ThreadTypes
    <2>6. ThreadTypes'
      BY <1>2, <2>1, <2>2, <2>4, <2>5 DEF ThreadTypes
    <2>7. AbortsAreCounted' /\ (NeverAnswered' <=> NeverAnswered)
      <3>1. \A f \in Exchanges : attempt[f].pc \in {"abort", "end"} => attempt'[f].pc \in {"abort", "end"}
        BY <2>1
      <3>. QED
        BY <3>1, <1>2, <2>3, <2>4, <2>5, CountStays
    <2>8. PromptsAreKnown'
      <3>1. ASSUME NEW f \in Exchanges
            PROVE  (/\ runs[f] # "none" <=> prompt[f] = "admitted"
                    /\ f > CurrentExchange => prompt[f] = "none" /\ attempt[f] = NoAttempt0
                    /\ attempt[f].accepted => prompt[f] = "admitted" /\ attempt[f].pc \in {"abort", "end"}
                    /\ attempt[f].pc \in {"none", "get"} /\ f > 1 => prompt[f] = "none"
                    /\ attempt[f].pc \in {"prompt", "abort"} \/ attempt[f].pending => prompt[f] # "none"
                    /\ f > 1 /\ prompt[f] = "sent" => f = CurrentExchange /\ attempt[f].pending)'
        <4>1. CASE f = e
          BY <4>1, <1>2, <1>4, <2>1, <2>3, <2>4
        <4>2. CASE f # e
          BY <4>2, <1>2, <2>1, <2>3 DEF PromptsAreKnown
        <4>. QED
          BY <4>1, <4>2
      <3>2. attempt'[1] = attempt[1]
        BY <1>3, <2>1, ExchangeFacts
      <3>. QED
        BY <3>1, <3>2, <1>2, <2>3, <2>5 DEF PromptsAreKnown, Sure
    <2>9. LiveIsClean'
      BY <2>5 DEF LiveIsClean, Live
    <2>10. NothingRunsOn'
      BY <1>2, <1>3, <1>4, <2>3, <2>4, <2>5 DEF NothingRunsOn, Ours, Sure, IsRun
    <2>11. EventsInOrder'
      BY <1>2, <1>3, <1>4, <2>3, <2>5, OrderStays DEF Ours, Live
    <2>12. ForkIsGuarded'
      BY <1>2, <2>5, GuardStays
    <2>13. EndsAreItsOwn'
      BY <1>2, <2>2 DEF EndsAreItsOwn, Unsafe
    <2>. QED
      BY <2>3, <2>6, <2>7, <2>8, <2>9, <2>10, <2>11, <2>12, <2>13
  <1>6. CASE outcome # "refused" /\ attempt[e].cancelled /\ forkOwner # "user"
             /\ (forkOwner # "controller" \/ CurrentExchange = e)
    <2>1. /\ SendAbort(e) /\ thread' = Aborting(thread) /\ panel' = panel
          /\ attempt' = [attempt EXCEPT ![e].pc = "abort", ![e].accepted = outcome = "accepted"]
      BY <1>1, <1>6
    <2>2. /\ attempt' \in [Exchanges -> FollowUps]
          /\ attempt'[e].pc = "abort" /\ attempt'[e].pending = attempt[e].pending
          /\ attempt'[e].accepted => prompt[e] = "admitted"
          /\ \A f \in Exchanges : f # e => attempt'[f] = attempt[f]
      <3>. DEFINE yes == outcome = "accepted"
      <3>1. yes \in BOOLEAN /\ (yes => prompt[e] = "admitted")
        BY <1>2
      <3>2. attempt' = [attempt EXCEPT ![e].pc = "abort", ![e].accepted = yes]
        BY <2>1
      <3>. HIDE DEF yes
      <3>3. /\ attempt' \in [Exchanges -> FollowUps]
            /\ attempt'[e].pc = "abort" /\ attempt'[e].pending = attempt[e].pending
            /\ attempt'[e].accepted = yes
            /\ \A f \in Exchanges : f # e => attempt'[f] = attempt[f]
        <4>. DEFINE r == [attempt[e] EXCEPT !.pc = "abort", !.accepted = yes]
        <4>1. attempt \in [Exchanges -> FollowUps]
          BY DEF ThreadTypes
        <4>2. r \in FollowUps /\ r.pc = "abort" /\ r.pending = attempt[e].pending /\ r.accepted = yes
          BY ONLY <3>1, <4>1, e \in Exchanges DEF FollowUps
        <4>3. attempt' = [attempt EXCEPT ![e] = r]
          BY ONLY <3>2, <4>1, e \in Exchanges
        <4>. HIDE DEF r
        <4>. QED
          BY ONLY <4>1, <4>2, <4>3, e \in Exchanges
      <3>. QED
        BY <3>1, <3>3
    <2>3. InTurn' /\ CurrentExchange' = CurrentExchange
      BY <2>1, TurnStays
    <2>4. /\ thread' \in Answering
          /\ thread'.streaming = thread.streaming /\ thread'.accepting = thread.accepting
          /\ thread'.prompted = thread.prompted /\ thread'.assistant = thread.assistant
          /\ thread'.pending = thread.pending /\ thread'.beating = thread.beating
          /\ thread'.aborts = IF NeedsAbort THEN thread.aborts + 1 ELSE thread.aborts
          /\ thread'.stale <=> thread.stale \/ NeedsAbort
      BY <2>1, AbortingFacts DEF ThreadTypes
    <2>5. /\ AbortsAreCounted' /\ abortCall' \in [1..MaxAbortCalls -> AbortCalls]
          /\ NeedsAbort => \E a \in 1..MaxAbortCalls : abortCall'[a].pc = "sent"
      <3>1. e \in 0..MaxExchanges + 1 /\ e # TheFirst /\ e # TheReleaser
        BY <1>3, ExchangeFacts DEF TheFirst, TheReleaser
      <3>2. \A f \in Exchanges : attempt[f].pc \in {"abort", "end"} => attempt'[f].pc \in {"abort", "end"}
        BY <2>2
      <3>. QED
        BY <1>2, <2>1, <2>2, <2>3, <2>4, <3>1, <3>2, AbortCounts
    <2>6. ThreadTypes'
      BY <1>2, <2>1, <2>2, <2>4, <2>5 DEF ThreadTypes
    <2>7. PromptsAreKnown'
      <3>1. ASSUME NEW f \in Exchanges
            PROVE  (/\ runs[f] # "none" <=> prompt[f] = "admitted"
                    /\ f > CurrentExchange => prompt[f] = "none" /\ attempt[f] = NoAttempt0
                    /\ attempt[f].accepted => prompt[f] = "admitted" /\ attempt[f].pc \in {"abort", "end"}
                    /\ attempt[f].pc \in {"none", "get"} /\ f > 1 => prompt[f] = "none"
                    /\ attempt[f].pc \in {"prompt", "abort"} \/ attempt[f].pending => prompt[f] # "none"
                    /\ f > 1 /\ prompt[f] = "sent" => f = CurrentExchange /\ attempt[f].pending)'
        <4>1. CASE f = e
          BY <4>1, <1>2, <1>3, <1>4, <2>2, <2>3 DEF PromptsAreKnown
        <4>2. CASE f # e
          BY <4>2, <1>2, <2>2, <2>3 DEF PromptsAreKnown
        <4>. QED
          BY <4>1, <4>2
      <3>2. attempt'[1] = attempt[1]
        BY <1>3, <2>2, ExchangeFacts
      <3>. QED
        BY <3>1, <3>2, <1>2, <2>3, <2>4 DEF PromptsAreKnown, Sure
    <2>8. Ours => CurrentExchange = e /\ NeedsAbort /\ ~thread.streaming
      BY <1>3, <1>6 DEF Ours, Live, LiveIsClean, NeedsAbort, PromptsAreKnown
    <2>9. (Ours' <=> Ours) /\ ~Live' /\ ~Live
      BY <1>2, <2>4, <2>8 DEF Ours, Live
    <2>10. LiveIsClean'
      BY <2>4, <2>9 DEF LiveIsClean
    <2>11. NothingRunsOn'
      <3>1. Ours /\ prompt[CurrentExchange] = "sent" => Owed'
        <4>1. SUFFICES ASSUME Ours, prompt[CurrentExchange] = "sent" PROVE Owed'
          OBVIOUS
        <4>2. CurrentExchange = e /\ prompt[e] = "sent"
          BY <2>8, <4>1
        <4>3. attempt[e].pending
          BY <1>3, <4>2 DEF PromptsAreKnown
        <4>4. attempt'[e].pending /\ ~attempt'[e].accepted /\ attempt'[e].pc # "prompt"
          BY <2>2, <4>2, <4>3
        <4>. QED
          BY <1>3, <2>3, <4>2, <4>4 DEF Owed
      <3>2. Ours /\ Sure => \A f \in Exchanges : f < CurrentExchange => ~IsRun(f) /\ prompt[f] # "sent"
        BY DEF NothingRunsOn
      <3>3. Ours => ~thread'.streaming
        BY <2>4, <2>8
      <3>. QED
        BY <1>2, <1>3, <1>4, <2>3, <2>5, <2>8, <2>9, <3>1, <3>2, <3>3 DEF NothingRunsOn, Sure
    <2>12. EventsInOrder'
      <3>1. (\A i \in 1..Len(inbox) : inbox[i].type = "answer" =>
            inbox[i].own /\ inbox[i].of \in Exchanges /\ runs[inbox[i].of] \notin {"none", "running"})'
        BY <1>2 DEF EventsInOrder
      <3>2. (Ours /\ thread.assistant => runs[CurrentExchange] \notin {"none", "running"})'
        BY <1>2, <2>3, <2>4, <2>9 DEF EventsInOrder
      <3>3. (Ours => thread.stale)'
        BY <2>4, <2>8, <2>9
      <3>. QED
        BY <2>9, <3>1, <3>2, <3>3 DEF EventsInOrder
    <2>13. ForkIsGuarded'
      BY <1>2, <1>6, <2>4, GuardStays
    <2>14. EndsAreItsOwn'
      BY <1>2, <1>4, <2>1, EndsStay
    <2>. QED
      BY <2>3, <2>5, <2>6, <2>7, <2>10, <2>11, <2>12, <2>13, <2>14
  <1>7. CASE outcome # "refused" /\ ~(attempt[e].cancelled /\ forkOwner # "user"
             /\ (forkOwner # "controller" \/ CurrentExchange = e))
    <2>1. /\ attempt' = [attempt EXCEPT ![e].pc = "end", ![e].pending = @ /\ outcome # "accepted"]
          /\ UNCHANGED <<thread, panel, abortCall>>
      BY <1>1, <1>7
    <2>2. /\ attempt' \in [Exchanges -> FollowUps]
          /\ attempt'[e].pc = "end" /\ ~attempt'[e].accepted
          /\ attempt'[e].pending <=> attempt[e].pending /\ outcome # "accepted"
          /\ \A f \in Exchanges : /\ f # e => attempt'[f] = attempt[f]
                                  /\ attempt'[f].cancelled = attempt[f].cancelled
      <3>. DEFINE p == attempt[e].pending /\ outcome # "accepted"
      <3>1. p \in BOOLEAN /\ (p <=> attempt[e].pending /\ outcome # "accepted")
        BY DEF ThreadTypes, FollowUps
      <3>2. attempt' = [attempt EXCEPT ![e].pc = "end", ![e].pending = p]
        BY <2>1
      <3>. HIDE DEF p
      <3>. DEFINE r == [attempt[e] EXCEPT !.pc = "end", !.pending = p]
      <3>4. /\ r \in FollowUps /\ r.pc = "end" /\ r.accepted = attempt[e].accepted /\ r.pending = p
            /\ r.cancelled = attempt[e].cancelled
        <4>1. attempt[e] \in FollowUps
          BY DEF ThreadTypes
        <4>. QED
          BY ONLY <3>1, <4>1 DEF FollowUps
      <3>5. attempt' = [attempt EXCEPT ![e] = r]
        BY <3>2 DEF ThreadTypes
      <3>. HIDE DEF r
      <3>3. /\ attempt' \in [Exchanges -> FollowUps]
            /\ attempt'[e].pc = "end" /\ ~attempt'[e].accepted /\ attempt'[e].pending = p
            /\ \A f \in Exchanges : /\ f # e => attempt'[f] = attempt[f]
                                    /\ attempt'[f].cancelled = attempt[f].cancelled
        <4>1. attempt' \in [Exchanges -> FollowUps] /\ attempt'[e] = r
              /\ \A f \in Exchanges : f # e => attempt'[f] = attempt[f]
          <5>1. attempt \in [Exchanges -> FollowUps]
            BY DEF ThreadTypes
          <5>. QED
            BY ONLY <3>4, <3>5, <5>1, e \in Exchanges
        <4>. QED
          BY ONLY <1>3, <3>4, <4>1
      <3>. QED
        BY <3>1, <3>3
    <2>3. InTurn' /\ CurrentExchange' = CurrentExchange
      BY <2>1, TurnStays
    <2>4. ThreadTypes'
      BY <1>2, <2>1, <2>2 DEF ThreadTypes
    <2>5. AbortsAreCounted' /\ (NeverAnswered' <=> NeverAnswered)
      <3>1. \A f \in Exchanges : attempt[f].pc \in {"abort", "end"} => attempt'[f].pc \in {"abort", "end"}
        BY <2>2
      <3>. QED
        BY <3>1, <1>2, <2>1, <2>3, CountStays
    <2>6. PromptsAreKnown'
      <3>1. ASSUME NEW f \in Exchanges
            PROVE  (/\ runs[f] # "none" <=> prompt[f] = "admitted"
                    /\ f > CurrentExchange => prompt[f] = "none" /\ attempt[f] = NoAttempt0
                    /\ attempt[f].accepted => prompt[f] = "admitted" /\ attempt[f].pc \in {"abort", "end"}
                    /\ attempt[f].pc \in {"none", "get"} /\ f > 1 => prompt[f] = "none"
                    /\ attempt[f].pc \in {"prompt", "abort"} \/ attempt[f].pending => prompt[f] # "none"
                    /\ f > 1 /\ prompt[f] = "sent" => f = CurrentExchange /\ attempt[f].pending)'
        <4>1. CASE f = e
          BY <4>1, <1>2, <1>3, <1>4, <2>2, <2>3 DEF PromptsAreKnown
        <4>2. CASE f # e
          BY <4>2, <1>2, <2>2, <2>3 DEF PromptsAreKnown
        <4>. QED
          BY <4>1, <4>2
      <3>2. attempt'[1] = attempt[1]
        BY <1>3, <2>2, ExchangeFacts
      <3>. QED
        BY <3>1, <3>2, <1>2, <2>1, <2>3 DEF PromptsAreKnown, Sure
    <2>7. LiveIsClean'
      BY <1>2, <1>3, <2>1, <2>2, <2>3 DEF LiveIsClean, Live, Ours
    <2>8. NothingRunsOn'
      <3>1. Ours /\ Owed => Owed'
        <4>1. SUFFICES ASSUME Ours, Owed PROVE Owed'
          OBVIOUS
        <4>2. e # CurrentExchange
          BY <4>1, <1>2, <1>3, <1>7 DEF Owed, Ours
        <4>. QED
          BY <4>1, <4>2, <1>3, <2>2, <2>3 DEF Owed
      <3>. QED
        BY <1>2, <1>3, <1>4, <2>1, <2>3, <2>5, <3>1 DEF NothingRunsOn, Ours, Sure
    <2>9. EventsInOrder'
      BY <1>2, <1>3, <1>4, <2>1, <2>3, OrderStays DEF Ours, Live
    <2>10. ForkIsGuarded'
      BY <1>2, <2>1, GuardStays
    <2>11. EndsAreItsOwn'
      BY <1>2, <1>4, <2>1, EndsStay
    <2>. QED
      BY <2>3, <2>4, <2>5, <2>6, <2>7, <2>8, <2>9, <2>10, <2>11
  <1>. QED
    BY <1>5, <1>6, <1>7

\* Once the first event is taken or lost each other tells what it told, unless the
\* first was the answer they hang on.
LEMMA ShiftedTells ==
    ASSUME NEW n \in Nat, \A i \in 1..n : inbox'[i] = inbox[i + 1], CurrentExchange' = CurrentExchange,
           \/ /\ thread'.needsAssistant = thread.needsAssistant
              /\ thread'.assistant = thread.assistant
           \/ Answers(1) /\ thread'.assistant
    PROVE  /\ \A i \in 1..n + 1 : IsProven(i)' => IsProven(i + 1)
           /\ ~Answers(1) \/ thread'.assistant => \A i \in 1..n + 1 : IsProven(i + 1) => IsProven(i)'
           /\ \A i \in 1..n : Tells(i)' => Tells(i + 1)
           /\ ~Answers(1) \/ thread'.assistant => \A i \in 1..n : Tells(i + 1) => Tells(i)'
  <1>1. \A k \in 1..n : Answers(k)' <=> Answers(k + 1)
    BY DEF Answers
  <1>2. ASSUME NEW i \in 1..n + 1, IsProven(i)'
        PROVE  IsProven(i + 1)
    <2>1. CASE thread'.needsAssistant = thread.needsAssistant /\ thread'.assistant = thread.assistant
      <3>1. CASE ~thread.needsAssistant \/ thread.assistant
        BY <3>1 DEF IsProven
      <3>2. CASE thread.needsAssistant /\ ~thread.assistant
        <4>1. PICK k \in 1..i - 1 : Answers(k)'
          BY <1>2, <2>1, <3>2 DEF IsProven
        <4>2. k + 1 \in 1..(i + 1) - 1 /\ k \in 1..n
          OBVIOUS
        <4>3. Answers(k + 1)
          BY <4>1, <4>2, <1>1
        <4>. QED
          BY <4>2, <4>3 DEF IsProven
      <3>. QED
        BY <3>1, <3>2
    <2>2. CASE Answers(1)
      <3>1. 1 \in 1..(i + 1) - 1
        OBVIOUS
      <3>. QED
        BY <2>2, <3>1 DEF IsProven
    <2>. QED
      BY <2>1, <2>2
  <1>3. ASSUME ~Answers(1) \/ thread'.assistant, NEW i \in 1..n + 1, IsProven(i + 1)
        PROVE  IsProven(i)'
    <2>1. CASE thread'.assistant
      BY <2>1 DEF IsProven
    <2>2. CASE ~thread'.assistant
      <3>1. thread'.needsAssistant = thread.needsAssistant /\ thread'.assistant = thread.assistant
            /\ ~Answers(1)
        BY <1>3, <2>2
      <3>2. CASE ~thread.needsAssistant
        BY <3>1, <3>2 DEF IsProven
      <3>3. CASE thread.needsAssistant
        <4>1. PICK k \in 1..(i + 1) - 1 : Answers(k)
          BY <1>3, <2>2, <3>1, <3>3 DEF IsProven
        <4>2. k # 1
          BY <3>1, <4>1
        <4>3. k - 1 \in 1..i - 1 /\ k - 1 \in 1..n /\ (k - 1) + 1 = k
          BY <4>2
        <4>4. Answers(k - 1)'
          BY <4>1, <4>3, <1>1
        <4>. QED
          BY <4>3, <4>4 DEF IsProven
      <3>. QED
        BY <3>2, <3>3
    <2>. QED
      BY <2>1, <2>2
  <1>4. \A i \in 1..n : i \in 1..n + 1
    OBVIOUS
  <1>. QED
    BY <1>2, <1>3, <1>4 DEF Tells

\* The order that is left, while the exchange goes on or did not stream.
LEMMA OrderShrinks ==
    ASSUME EventsInOrder, NEW n \in Nat, Len(inbox) = n + 1, Len(inbox') = n,
           \A i \in 1..n : inbox'[i] = inbox[i + 1],
           CurrentExchange' = CurrentExchange, CurrentExchange \in Exchanges,
           \/ /\ thread'.needsAssistant = thread.needsAssistant
              /\ thread'.assistant = thread.assistant
           \/ Answers(1) /\ thread'.assistant,
           UNCHANGED <<forkOwner, runs>>, thread'.streaming = thread.streaming,
           "prompt" \in amiss' <=> "prompt" \in amiss,
           (Ours /\ thread.assistant => runs[CurrentExchange] \notin {"none", "running"})',
           (Ours /\ ((\E i \in 1..Len(inbox) : ~inbox[i].own) \/ thread.aborts > 0) => thread.stale)',
           \/ "event" \in amiss'
           \/ /\ amiss' = amiss
              /\ Live /\ ~Unsafe(CurrentExchange) => ~Tells(1)
              /\ Live => ~Answers(1) \/ thread'.assistant
    PROVE  EventsInOrder'
  <1>1. /\ \A i \in 1..n + 1 : IsProven(i)' => IsProven(i + 1)
        /\ ~Answers(1) \/ thread'.assistant => \A i \in 1..n + 1 : IsProven(i + 1) => IsProven(i)'
        /\ \A i \in 1..n : Tells(i)' => Tells(i + 1)
        /\ ~Answers(1) \/ thread'.assistant => \A i \in 1..n : Tells(i + 1) => Tells(i)'
    BY ShiftedTells
  <1>2. \A i \in 1..n : i + 1 \in 1..n + 1 /\ i \in 1..n + 1
    OBVIOUS
  <1>3. (Ours' <=> Ours) /\ (Live' <=> Live) /\ (Sure' <=> Sure)
        /\ (Ended(CurrentExchange)' <=> Ended(CurrentExchange))
    BY DEF Ours, Live, Sure, Ended
  <1>4. (\A i \in 1..Len(inbox) : inbox[i].type = "answer" =>
              inbox[i].own /\ inbox[i].of \in Exchanges /\ runs[inbox[i].of] \notin {"none", "running"})'
    BY <1>2 DEF EventsInOrder
  <1>5. (Live => \A i \in 1..Len(inbox) : ~inbox[i].own => ~IsProven(i))'
    BY <1>1, <1>2, <1>3 DEF EventsInOrder
  <1>6. (Live /\ (Sure \/ CurrentExchange = 1) =>
          \A i \in 1..Len(inbox) : Tells(i) =>
             /\ Ended(CurrentExchange)
             /\ inbox[i].type = "error" => runs[CurrentExchange] = "failed")'
    BY <1>1, <1>2, <1>3 DEF EventsInOrder
  <1>7. (Live /\ ~Unsafe(CurrentExchange) =>
          \A i \in 1..Len(inbox) : Foremost(i) => EndsAs(inbox[i].type))'
    <2>1. SUFFICES ASSUME Live', ~Unsafe(CurrentExchange)', NEW i \in 1..n, Foremost(i)'
                   PROVE  EndsAs(inbox[i].type)'
      OBVIOUS
    <2>2. Tells(i)' /\ \A k \in 1..i - 1 : ~Tells(k)'
      BY <2>1 DEF Foremost
    <2>3. CASE "event" \in amiss'
      <3>1. Sure \/ CurrentExchange = 1
        BY <2>1, <2>3, ExchangeFacts DEF Unsafe, Sure
      <3>2. inbox'[i].type \in {"idle", "error"}
        BY <2>2 DEF Tells
      <3>3. Ended(CurrentExchange)' /\ (inbox'[i].type = "error" => runs'[CurrentExchange'] = "failed")
        BY <1>3, <1>6, <2>1, <2>2, <3>1
      <3>. QED
        BY <2>3, <3>2, <3>3 DEF EndsAs, Ended
    <2>4. CASE "event" \notin amiss'
      <3>1. /\ amiss' = amiss /\ Live /\ ~Unsafe(CurrentExchange) /\ ~Tells(1)
            /\ (~Answers(1) \/ thread'.assistant)
        BY <2>1, <2>4, <1>3 DEF Unsafe
      <3>2. ASSUME NEW k \in 1..(i + 1) - 1
            PROVE  ~Tells(k)
        <4>1. CASE k = 1
          BY <4>1, <3>1
        <4>2. CASE k # 1
          <5>1. k - 1 \in 1..i - 1 /\ k - 1 \in 1..n /\ (k - 1) + 1 = k
            BY <4>2
          <5>. QED
            BY <5>1, <2>2, <3>1, <1>1
        <4>. QED
          BY <4>1, <4>2
      <3>3. Foremost(i + 1)
        BY <2>2, <3>2, <1>1 DEF Foremost
      <3>4. EndsAs(inbox[i + 1].type)
        BY <3>1, <3>3, <1>2 DEF EventsInOrder
      <3>. QED
        BY <3>1, <3>4 DEF EndsAs
    <2>. QED
      BY <2>3, <2>4
  <1>8. (Live /\ ~Sure /\ "event" \notin amiss /\ CurrentExchange = 2 /\ Ended(2)
          /\ IsProven(Len(inbox) + 1) => \E i \in 1..Len(inbox) : Tells(i))'
    <2>1. SUFFICES ASSUME (Live /\ ~Sure /\ "event" \notin amiss /\ CurrentExchange = 2 /\ Ended(2)
                             /\ IsProven(Len(inbox) + 1))'
                   PROVE  (\E i \in 1..Len(inbox) : Tells(i))'
      OBVIOUS
    <2>2. Live /\ ~Sure /\ CurrentExchange = 2 /\ Ended(2) /\ amiss' = amiss /\ "event" \notin amiss
      BY <2>1, <1>3
    <2>3. ~Unsafe(CurrentExchange)
      BY <2>2 DEF Unsafe
    <2>4. ~Tells(1) /\ (~Answers(1) \/ thread'.assistant)
      BY <2>1, <2>2, <2>3
    <2>5. n + 1 \in 1..n + 1 /\ IsProven(n + 1)' /\ Len(inbox) + 1 = (n + 1) + 1
      BY <2>1
    <2>6. IsProven(Len(inbox) + 1)
      BY <2>5, <1>1
    <2>7. PICK i \in 1..Len(inbox) : Tells(i)
      BY <2>2, <2>6 DEF EventsInOrder
    <2>8. i # 1
      BY <2>4, <2>7
    <2>9. i - 1 \in 1..n /\ (i - 1) + 1 = i
      BY <2>8
    <2>10. Tells(i - 1)'
      BY <2>4, <2>7, <2>9, <1>1
    <2>. QED
      BY <2>9, <2>10
  <1>. QED
    BY <1>4, <1>5, <1>6, <1>7, <1>8 DEF EventsInOrder

\* An event that does no more than arrive, or none at all.
LEMMA NothingTaken ==
    ASSUME ThreadInv, inbox # <<>>, inbox' = Tail(inbox),
           UNCHANGED <<plan, forkOwner, initial, prompt, runs, marked, forkExists, beat, opening,
                       releasing, attempt, panel, abortCall>>,
           mishaps' \in Nat, mishaps <= mishaps', mishaps' \in 0..MaxMishaps,
           amiss' \in {amiss, amiss \cup {"event"}},
           thread' \in Answering,
           thread'.streaming = thread.streaming, thread'.accepting = thread.accepting,
           thread'.prompted = thread.prompted, thread'.pending = thread.pending,
           thread'.cancelled = thread.cancelled, thread'.aborts = thread.aborts,
           thread'.beating = thread.beating,
           \/ /\ thread'.needsAssistant = thread.needsAssistant
              /\ thread'.assistant = thread.assistant /\ thread'.stale = thread.stale
           \/ Answers(1) /\ thread'.assistant /\ ~thread'.needsAssistant /\ Live,
           \/ "event" \in amiss'
           \/ /\ Live /\ ~Unsafe(CurrentExchange) => ~Tells(1)
              /\ Live => ~Answers(1) \/ thread'.assistant
    PROVE  ThreadInv'
  <1>. USE DEF ThreadInv
  <1>1. InTurn' /\ CurrentExchange' = CurrentExchange /\ CurrentExchange \in Exchanges
    BY TurnStays DEF InTurn
  <1>2. PICK n \in Nat : /\ Len(inbox) = n + 1 /\ Len(inbox') = n /\ inbox' \in Seq(ThreadEvents)
                         /\ \A i \in 1..n : inbox'[i] = inbox[i + 1]
    <2>1. inbox \in Seq(ThreadEvents)
      BY DEF ThreadTypes
    <2>2. /\ Tail(inbox) \in Seq(ThreadEvents) /\ Len(Tail(inbox)) = Len(inbox) - 1
          /\ \A i \in 1..Len(Tail(inbox)) : Tail(inbox)[i] = inbox[i + 1]
      BY <2>1, HeadTailProperties
    <2>3. Len(inbox) \in Nat \ {0}
      BY <2>1, EmptySeq
    <2>. DEFINE m == Len(inbox) - 1
    <2>4. m \in Nat /\ Len(inbox) = m + 1
      BY ONLY <2>3
    <2>. HIDE DEF m
    <2>5. /\ Len(inbox') = m /\ inbox' \in Seq(ThreadEvents)
          /\ \A i \in 1..m : inbox'[i] = inbox[i + 1]
      BY <2>2, <2>4
    <2>. QED
      BY ONLY <2>4, <2>5
  <1>3. ThreadTypes'
    BY <1>2 DEF ThreadTypes
  <1>4. AbortsAreCounted' /\ (NeverAnswered' <=> NeverAnswered)
    BY <1>1, CountStays
  <1>5. (Sure' <=> Sure) /\ (Ours' <=> Ours) /\ (Live' <=> Live) /\ (Owed' <=> Owed) /\ amiss \subseteq amiss'
    BY <1>1 DEF Sure, Ours, Live, Owed
  <1>6. PromptsAreKnown'
    BY <1>1, <1>5 DEF PromptsAreKnown
  <1>7. LiveIsClean'
    BY <1>1, <1>5 DEF LiveIsClean
  <1>8. NothingRunsOn'
    <2>1. \A e \in Exchanges : (IsRun(e)' <=> IsRun(e)) /\ (Ended(e)' <=> Ended(e))
      BY DEF IsRun, Ended
    <2>2. Live \/ thread'.stale = thread.stale
      OBVIOUS
    <2>3. thread'.assistant \/ (thread'.needsAssistant = thread.needsAssistant
                                  /\ thread'.assistant = thread.assistant)
      OBVIOUS
    <2>. QED
      BY <1>1, <1>4, <1>5, <2>1, <2>2, <2>3, ExchangeFacts DEF NothingRunsOn, Live
  <1>9. EventsInOrder'
    <2>1. (Ours /\ thread.assistant => runs[CurrentExchange] \notin {"none", "running"})'
      <3>1. Answers(1) => runs[CurrentExchange] \notin {"none", "running"}
        <4>1. 1 \in 1..Len(inbox)
          BY <1>2
        <4>. QED
          BY <4>1 DEF Answers, EventsInOrder
      <3>. QED
        BY <3>1, <1>1, <1>5 DEF EventsInOrder
    <2>2. (Ours /\ ((\E i \in 1..Len(inbox) : ~inbox[i].own) \/ thread.aborts > 0) => thread.stale)'
      <3>1. \A i \in 1..n : i + 1 \in 1..Len(inbox)
        BY <1>2
      <3>2. CASE thread'.stale = thread.stale
        BY <3>1, <3>2, <1>2, <1>5 DEF EventsInOrder
      <3>3. CASE Answers(1) /\ Live
        <4>1. ASSUME NEW i \in 1..n
              PROVE  inbox'[i].own
          <5>1. 1 \in 1..(i + 1) - 1
            OBVIOUS
          <5>2. IsProven(i + 1)
            BY <5>1, <3>3 DEF IsProven
          <5>. QED
            BY <5>2, <3>1, <3>3, <1>2 DEF EventsInOrder
        <4>2. ~(thread'.aborts > 0)
          BY <3>3 DEF LiveIsClean
        <4>. QED
          BY <4>1, <4>2, <1>2
      <3>. QED
        BY <3>2, <3>3
    <2>3. "prompt" \in amiss' <=> "prompt" \in amiss
      OBVIOUS
    <2>4. \/ "event" \in amiss'
          \/ /\ amiss' = amiss
             /\ Live /\ ~Unsafe(CurrentExchange) => ~Tells(1)
             /\ Live => ~Answers(1) \/ thread'.assistant
      OBVIOUS
    <2>. QED
      BY <1>1, <1>2, <2>1, <2>2, <2>3, <2>4, OrderShrinks
  <1>10. ForkIsGuarded'
    BY <1>5, GuardStays
  <1>11. EndsAreItsOwn'
    BY <1>5, EndsStay
  <1>. QED
    BY <1>1, <1>3, <1>4, <1>6, <1>7, <1>8, <1>9, <1>10, <1>11

\* An event that is taken for the end of the exchange is that of its own run.
LEMMA TerminalTaken ==
    ASSUME ThreadInv, Ours, TakesTerminal, inbox # <<>>, inbox' \in Seq(ThreadEvents),
           \A i \in 1..Len(inbox') : \E k \in 1..Len(inbox) : inbox'[i] = inbox[k],
           UNCHANGED <<plan, forkOwner, initial, prompt, runs, marked, forkExists, beat, opening,
                       releasing, abortCall, amiss, mishaps>>,
           inbox[1].type \in {"idle", "error"},
           NEW status, status = IF inbox[1].type = "idle" THEN "done" ELSE "failed",
           thread' = [StreamOver(thread, status) EXCEPT !.stale = FALSE],
           FinishAttempt(status), Show(status)
    PROVE  ThreadInv'
  <1>. USE DEF ThreadInv
  <1>1. /\ Live /\ thread.prompted /\ thread.aborts = 0 /\ panel[CurrentExchange] = "streaming"
        /\ ~thread.needsAssistant \/ thread.assistant
    BY DEF TakesTerminal, Live, Ours, LiveIsClean
  <1>2. status \in {"done", "failed", "stopped"} /\ Len(inbox) \in Nat /\ 1 \in 1..Len(inbox)
    <2>1. inbox \in Seq(ThreadEvents)
      BY DEF ThreadTypes
    <2>2. Len(inbox) \in Nat \ {0}
      BY <2>1, EmptySeq
    <2>. QED
      BY <2>2
  <1>3. /\ thread' \in Answering /\ ~thread'.streaming /\ ~thread'.accepting /\ ~thread'.stale
        /\ thread'.prompted = thread.prompted /\ thread'.assistant = thread.assistant
        /\ thread'.pending = thread.pending
        /\ thread'.beating = thread.beating /\ thread'.aborts = thread.aborts
    <2>. DEFINE u == StreamOver(thread, status)
    <2>1. /\ u \in Answering /\ ~u.streaming /\ ~u.accepting
          /\ u.prompted = thread.prompted /\ u.assistant = thread.assistant /\ u.pending = thread.pending
          /\ u.beating = thread.beating /\ u.aborts = thread.aborts
      BY <1>2, StreamOverFacts DEF ThreadTypes
    <2>2. thread' = [u EXCEPT !.stale = FALSE]
      OBVIOUS
    <2>. HIDE DEF u
    <2>. QED
      BY ONLY <2>1, <2>2 DEF Answering
  <1>4. /\ panel' \in [Exchanges -> {"none", "streaming", "done", "stopped", "failed"}]
        /\ \A e \in Exchanges : /\ panel'[e] # "none" <=> panel[e] # "none"
                                /\ panel'[e] # panel[e] => e = CurrentExchange /\ panel'[e] = status
        /\ attempt' \in [Exchanges -> FollowUps]
        /\ CurrentExchange = 1 => attempt' = attempt
        /\ \A e \in Exchanges :
              /\ e # CurrentExchange => attempt'[e] = attempt[e]
              /\ attempt'[e].pc = attempt[e].pc /\ attempt'[e].accepted = attempt[e].accepted
              /\ attempt'[e].pending => attempt[e].pending
              /\ attempt[e].pending /\ ~(status = "done" /\ thread.assistant) => attempt'[e].pending
    BY <1>2, FinishFacts
  <1>5. InTurn' /\ CurrentExchange' = CurrentExchange /\ CurrentExchange \in Exchanges
    BY <1>4, TurnStays DEF InTurn
  <1>6. AbortsAreCounted' /\ (NeverAnswered' <=> NeverAnswered)
    <2>1. mishaps' \in Nat /\ mishaps <= mishaps'
      BY MishapFacts
    <2>. QED
      BY <2>1, <1>3, <1>4, <1>5, CountStays
  <1>7. ThreadTypes'
    BY <1>3, <1>4 DEF ThreadTypes
  <1>8. thread.assistant => prompt[CurrentExchange] = "admitted"
    BY <1>5 DEF EventsInOrder, PromptsAreKnown
  <1>9. PromptsAreKnown'
    <2>1. ASSUME NEW e \in Exchanges, e > CurrentExchange
          PROVE  attempt'[e] = attempt[e]
      BY <2>1, <1>4, <1>5, ExchangeFacts
    <2>2. attempt'[1] = attempt[1]
      BY <1>4, ExchangeFacts
    <2>3. ASSUME NEW e \in Exchanges, e > 1, prompt[e] = "sent"
          PROVE  e = CurrentExchange /\ attempt'[e].pending
      BY <2>3, <1>4, <1>8 DEF PromptsAreKnown
    <2>. QED
      BY <1>3, <1>4, <1>5, <2>1, <2>2, <2>3 DEF PromptsAreKnown, Sure
  <1>10. Tells(1) /\ Foremost(1)
    BY <1>1 DEF Tells, Foremost, IsProven
  <1>11. Sure \/ CurrentExchange = 1 => Ended(CurrentExchange)
    BY <1>1, <1>2, <1>10 DEF EventsInOrder
  <1>12. LiveIsClean'
    BY <1>3 DEF LiveIsClean, Live
  <1>13. NothingRunsOn'
    <2>1. \A e \in Exchanges : (IsRun(e)' <=> IsRun(e)) /\ (Ended(e)' <=> Ended(e))
      BY DEF IsRun, Ended
    <2>2. Ended(CurrentExchange) => prompt[CurrentExchange] # "sent" /\ ~IsRun(CurrentExchange)
      BY <1>5 DEF Ended, IsRun, PromptsAreKnown
    <2>. QED
      BY <1>3, <1>5, <1>11, <2>1, <2>2 DEF NothingRunsOn, Sure
  <1>14. EventsInOrder'
    <2>1. (\A i \in 1..Len(inbox) : inbox[i].type = "answer" =>
              inbox[i].own /\ inbox[i].of \in Exchanges /\ runs[inbox[i].of] \notin {"none", "running"})'
      BY DEF EventsInOrder
    <2>2. (Ours /\ thread.assistant => runs[CurrentExchange] \notin {"none", "running"})'
      BY <1>3, <1>5 DEF EventsInOrder
    <2>3. \A k \in 1..Len(inbox) : inbox[k].own
      BY <1>1 DEF EventsInOrder, IsProven
    <2>4. (Ours /\ ((\E i \in 1..Len(inbox) : ~inbox[i].own) \/ thread.aborts > 0) => thread.stale)'
      BY <1>1, <1>3, <2>3
    <2>5. ~Live'
      BY <1>3 DEF Live
    <2>. QED
      BY <2>1, <2>2, <2>4, <2>5 DEF EventsInOrder
  <1>15. ForkIsGuarded'
    BY <1>3, GuardStays
  <1>16. EndsAreItsOwn'
    <2>1. ASSUME ~Unsafe(CurrentExchange)
          PROVE  EndsAs(inbox[1].type)
      BY <1>1, <1>2, <1>10, <2>1 DEF EventsInOrder
    <2>2. ASSUME NEW e \in Exchanges
          PROVE  (/\ panel[e] = "done" => \/ runs[e] = "finished"
                                          \/ runs[e] = "failed" /\ "event" \in amiss
                                          \/ Unsafe(e)
                  /\ panel[e] = "failed" => runs[e] = "failed" \/ Unsafe(e))'
      <3>1. CASE panel'[e] = panel[e]
        BY <3>1 DEF EndsAreItsOwn, Unsafe
      <3>2. CASE panel'[e] # panel[e]
        BY <3>2, <1>4, <2>1 DEF EndsAs, Unsafe
      <3>. QED
        BY <3>1, <3>2
    <2>. QED
      BY <2>2 DEF EndsAreItsOwn
  <1>. QED
    BY <1>5, <1>6, <1>7, <1>9, <1>12, <1>13, <1>14, <1>15, <1>16

LEMMA EventArrivesKeeps ==
    ASSUME ThreadInv, EventArrives
    PROVE  ThreadInv'
  <1>. USE DEF ThreadInv
  <1>1. /\ inbox # <<>> /\ inbox' = Tail(inbox)
        /\ UNCHANGED <<plan, forkOwner, initial, prompt, runs, marked, forkExists, beat, opening,
                       releasing>>
    BY DEF EventArrives, stSession, stCalls
  <1>2. /\ 1 \in 1..Len(inbox) /\ inbox[1] \in ThreadEvents
        /\ inbox' \in Seq(ThreadEvents)
        /\ \A i \in 1..Len(inbox') : \E k \in 1..Len(inbox) : inbox'[i] = inbox[k]
    <2>1. inbox \in Seq(ThreadEvents)
      BY DEF ThreadTypes
    <2>2. /\ Tail(inbox) \in Seq(ThreadEvents) /\ Len(Tail(inbox)) = Len(inbox) - 1
          /\ \A i \in 1..Len(Tail(inbox)) : Tail(inbox)[i] = inbox[i + 1]
      BY <1>1, <2>1, HeadTailProperties
    <2>3. Len(inbox) \in Nat \ {0}
      BY <1>1, <2>1, EmptySeq
    <2>4. \A i \in 1..Len(Tail(inbox)) : i + 1 \in 1..Len(inbox)
      BY <2>2, <2>3
    <2>5. 1 \in 1..Len(inbox) /\ inbox[1] \in ThreadEvents
      BY <2>1, <2>3
    <2>. QED
      BY <1>1, <2>2, <2>4, <2>5
  <1>3. mishaps \in Nat /\ mishaps <= mishaps /\ mishaps \in 0..MaxMishaps /\ thread \in Answering
    BY MishapFacts DEF ThreadTypes
  <1>4. inbox[1].type \in {"answer", "idle", "error", "granted"} /\ inbox[1].own \in BOOLEAN
    BY <1>2 DEF ThreadEvents
  <1>5. Answers(1) => inbox[1].type = "answer" /\ inbox[1].own /\ prompt[CurrentExchange] = "admitted"
    BY <1>2 DEF Answers, EventsInOrder, PromptsAreKnown
  <1>6. CASE /\ SideMishap
             /\ amiss' = IF inbox[1].own THEN amiss \cup {"event"} ELSE amiss
             /\ UNCHANGED <<thread, attempt, panel, abortCall>>
    <2>1. mishaps' \in Nat /\ mishaps <= mishaps' /\ mishaps' \in 0..MaxMishaps
      BY <1>6, MishapFacts
    <2>2. ASSUME ~inbox[1].own
          PROVE  ~Answers(1) /\ (Live => ~Tells(1))
      BY <2>2, <1>2, <1>5 DEF EventsInOrder, Tells
    <2>3. /\ amiss' \in {amiss, amiss \cup {"event"}}
          /\ "event" \in amiss' \/ ~inbox[1].own
      BY <1>6
    <2>. QED
      BY <1>1, <1>3, <1>6, <2>1, <2>2, <2>3, NothingTaken
  <1>7. CASE UNCHANGED <<amiss, mishaps>> /\ forkOwner # "controller"
             /\ UNCHANGED <<thread, attempt, panel, abortCall>>
    BY <1>1, <1>3, <1>7, NothingTaken DEF Live, Ours
  <1>8. CASE UNCHANGED <<amiss, mishaps>> /\ Ours /\ inbox[1].type = "granted" /\ StopRun("stopped")
    BY <1>1, <1>2, <1>8, StopRunKeeps
  <1>9. CASE /\ UNCHANGED <<amiss, mishaps, attempt, panel, abortCall>> /\ Ours /\ inbox[1].type = "answer"
             /\ thread' = IF thread.accepting /\ thread.prompted /\ inbox[1].of = CurrentExchange
                          THEN [thread EXCEPT !.assistant = TRUE, !.stale = FALSE,
                                              !.needsAssistant = FALSE]
                          ELSE thread
    <2>1. ~Tells(1)
      BY <1>9 DEF Tells
    <2>2. CASE thread.accepting /\ thread.prompted /\ inbox[1].of = CurrentExchange
      <3>1. Live /\ Answers(1)
        BY <1>9, <2>2 DEF LiveIsClean, Live, Answers
      <3>2. /\ thread' \in Answering
            /\ thread'.streaming = thread.streaming /\ thread'.accepting = thread.accepting
            /\ thread'.prompted = thread.prompted /\ thread'.pending = thread.pending
            /\ thread'.cancelled = thread.cancelled /\ thread'.aborts = thread.aborts
            /\ thread'.beating = thread.beating
            /\ thread'.assistant /\ ~thread'.needsAssistant
        BY <1>3, <1>9, <2>2 DEF Answering
      <3>. QED
        BY <1>1, <1>3, <1>9, <2>1, <3>1, <3>2, NothingTaken
    <2>3. CASE ~(thread.accepting /\ thread.prompted /\ inbox[1].of = CurrentExchange)
      <3>1. Live => ~Answers(1)
        BY <1>5, <2>3 DEF Live, LiveIsClean, PromptsAreKnown, Answers
      <3>2. thread' = thread
        BY <1>9, <2>3
      <3>. QED
        BY <1>1, <1>3, <1>9, <2>1, <3>1, <3>2, NothingTaken
    <2>. QED
      BY <2>2, <2>3
  <1>10. CASE /\ UNCHANGED <<amiss, mishaps, abortCall>> /\ Ours /\ inbox[1].type \in {"idle", "error"}
              /\ LET status == IF inbox[1].type = "idle" THEN "done" ELSE "failed"
                 IN  IF TakesTerminal
                     THEN /\ thread' = [StreamOver(thread, status) EXCEPT !.stale = FALSE]
                          /\ FinishAttempt(status)
                          /\ Show(status)
                     ELSE UNCHANGED <<thread, attempt, panel>>
    <2>1. CASE TakesTerminal
      <3>. DEFINE status == IF inbox[1].type = "idle" THEN "done" ELSE "failed"
      <3>1. /\ thread' = [StreamOver(thread, status) EXCEPT !.stale = FALSE]
            /\ FinishAttempt(status) /\ Show(status)
        BY <1>10, <2>1
      <3>. HIDE DEF status
      <3>2. status = IF inbox[1].type = "idle" THEN "done" ELSE "failed"
        BY DEF status
      <3>. QED
        BY <1>1, <1>2, <1>10, <2>1, <3>1, <3>2, TerminalTaken
    <2>2. CASE ~TakesTerminal
      <3>1. ~Answers(1)
        BY <1>5, <1>10
      <3>2. ASSUME Live, ~Unsafe(CurrentExchange), Tells(1)
            PROVE  FALSE
        <4>1. IsProven(1) /\ Foremost(1)
          BY <3>2 DEF Tells, Foremost
        <4>2. ~thread.needsAssistant \/ thread.assistant
          BY <4>1 DEF IsProven
        <4>3. ~thread.accepting
          BY <2>2, <3>2, <4>2 DEF TakesTerminal, Live
        <4>4. prompt[CurrentExchange] = "none"
          BY <3>2, <4>3 DEF Live, LiveIsClean, PromptsAreKnown
        <4>5. EndsAs(inbox[1].type)
          BY <1>2, <3>2, <4>1 DEF EventsInOrder
        <4>. QED
          BY <4>4, <4>5 DEF EndsAs, PromptsAreKnown, InTurn
      <3>3. thread' = thread /\ UNCHANGED <<attempt, panel>>
        BY <1>10, <2>2
      <3>. QED
        BY <1>1, <1>3, <1>10, <3>1, <3>2, <3>3, NothingTaken
    <2>. QED
      BY <2>1, <2>2
  <1>11. \/ /\ SideMishap
            /\ amiss' = IF inbox[1].own THEN amiss \cup {"event"} ELSE amiss
            /\ UNCHANGED <<thread, attempt, panel, abortCall>>
         \/ /\ UNCHANGED <<amiss, mishaps>>
            /\ CASE forkOwner # "controller" -> UNCHANGED <<thread, attempt, panel, abortCall>>
                 [] forkOwner = "controller" /\ inbox[1].type = "granted" -> StopRun("stopped")
                 [] forkOwner = "controller" /\ inbox[1].type = "answer" ->
                       /\ thread' = IF thread.accepting /\ thread.prompted /\ inbox[1].of = CurrentExchange
                                    THEN [thread EXCEPT !.assistant = TRUE, !.stale = FALSE,
                                                        !.needsAssistant = FALSE]
                                    ELSE thread
                       /\ UNCHANGED <<attempt, panel, abortCall>>
                 [] forkOwner = "controller" /\ inbox[1].type \in {"idle", "error"} ->
                       LET status == IF inbox[1].type = "idle" THEN "done" ELSE "failed"
                       IN  /\ IF TakesTerminal
                              THEN /\ thread' = [StreamOver(thread, status) EXCEPT !.stale = FALSE]
                                   /\ FinishAttempt(status)
                                   /\ Show(status)
                              ELSE UNCHANGED <<thread, attempt, panel>>
                           /\ UNCHANGED abortCall
    BY DEF EventArrives
  <1>12. CASE UNCHANGED <<amiss, mishaps>> /\ forkOwner # "controller"
    BY <1>6, <1>7, <1>11, <1>12
  <1>13. CASE UNCHANGED <<amiss, mishaps>> /\ Ours /\ inbox[1].type = "granted"
    BY <1>6, <1>8, <1>11, <1>13 DEF Ours
  <1>14. CASE UNCHANGED <<amiss, mishaps>> /\ Ours /\ inbox[1].type = "answer"
    BY <1>6, <1>9, <1>11, <1>14 DEF Ours
  <1>15. CASE UNCHANGED <<amiss, mishaps>> /\ Ours /\ inbox[1].type \in {"idle", "error"}
    BY <1>6, <1>10, <1>11, <1>15 DEF Ours
  <1>. QED
    BY <1>4, <1>6, <1>11, <1>12, <1>13, <1>14, <1>15 DEF Ours

LEMMA ThreadInit ==
    ASSUME STInit
    PROVE  ThreadInv
  <1>. USE DEF STInit, STRest
  <1>1. 1 \in Exchanges /\ \A e \in Exchanges : e \in Nat \ {0} /\ e <= MaxExchanges
    BY ExchangeFacts
  <1>2. CurrentExchange = 1
    <2>1. \A e \in Exchanges : panel[e] # "none" <=> e <= 1
      BY <1>1
    <2>. QED
      BY <1>1, <2>1, LastOfFirsts DEF CurrentExchange
  <1>3. InTurn
    BY <1>1, <1>2 DEF InTurn
  <1>4. Cardinality(Unanswered(abortCall)) = 0
    <2>1. \A a \in 1..MaxAbortCalls : abortCall[a].pc = "free"
      BY DEF NoAbortCall
    <2>2. Unanswered(abortCall) = {}
      BY <2>1 DEF Unanswered
    <2>. QED
      BY <2>2, FS_EmptySet
  <1>5. ThreadTypes
    <2>1. thread \in Answering
      BY DEF Answering
    <2>2. attempt \in [Exchanges -> FollowUps]
      BY DEF NoAttempt0, FollowUps
    <2>3. abortCall \in [1..MaxAbortCalls -> AbortCalls]
      BY ExchangeFacts DEF NoAbortCall, AbortCalls
    <2>4. inbox \in Seq(ThreadEvents) /\ mishaps \in 0..MaxMishaps
      BY ExchangeFacts
    <2>5. panel \in [Exchanges -> {"none", "streaming", "done", "stopped", "failed"}]
      OBVIOUS
    <2>6. prompt \in [Exchanges -> {"none", "sent", "refused", "admitted"}]
      OBVIOUS
    <2>7. runs \in [Exchanges -> {"none", "running", "answered", "finished", "failed", "aborted"}]
      OBVIOUS
    <2>. QED
      BY <2>1, <2>2, <2>3, <2>4, <2>5, <2>6, <2>7 DEF ThreadTypes
  <1>6. AbortsAreCounted
    BY <1>4 DEF AbortsAreCounted, NoAbortCall
  <1>7. PromptsAreKnown
    BY <1>1, <1>2 DEF PromptsAreKnown, NoAttempt0, Sure
  <1>8. LiveIsClean
    BY <1>1, <1>2 DEF LiveIsClean, NoAttempt0, Live, Ours
  <1>9. NothingRunsOn
    BY <1>1, <1>2 DEF NothingRunsOn, Sure
  <1>10. EventsInOrder
    <2>1. Len(inbox) = 0 /\ \A i : i \notin 1..0
      OBVIOUS
    <2>. QED
      BY <1>2, <2>1 DEF EventsInOrder
  <1>11. ForkIsGuarded
    BY DEF ForkIsGuarded, Ours, StillDue
  <1>12. EndsAreItsOwn
    BY DEF EndsAreItsOwn
  <1>. QED
    BY <1>3, <1>5, <1>6, <1>7, <1>8, <1>9, <1>10, <1>11, <1>12 DEF ThreadInv

LEMMA ThreadStutters ==
    ASSUME ThreadInv, UNCHANGED stVars
    PROVE  ThreadInv'
  <1>. USE DEF ThreadInv
  <1>1. UNCHANGED <<plan, forkOwner, thread, initial, attempt, panel, prompt, runs, inbox, abortCall,
                    marked, forkExists, beat, opening, releasing, amiss, mishaps>>
    BY DEF stVars, stHost, stSession, stCalls, stBounds
  <1>2. thread = [thread EXCEPT !.beating = thread.beating] /\ mishaps \in Nat /\ mishaps <= mishaps
    BY MishapFacts DEF ThreadTypes, Answering
  <1>3. ThreadParts'
    BY <1>1, <1>2, Beside
  <1>4. ThreadTypes'
    BY <1>1 DEF ThreadTypes
  <1>5. ForkIsGuarded'
    BY <1>1, GuardStays
  <1>. QED
    BY <1>3, <1>4, <1>5 DEF ThreadParts

LEMMA ThreadStep ==
    ASSUME ThreadInv, [STNext]_stVars
    PROVE  ThreadInv'
  <1>1. CASE UNCHANGED stVars
    BY <1>1, ThreadStutters
  <1>2. CASE \E e \in Exchanges : \/ PromptArrives(e) \/ RunAnswers(e)
                                  \/ FollowUpLookedUp(e) \/ FollowUpDispatched(e)
    BY <1>2, PromptArrivesKeeps, RunAnswersKeeps, FollowUpLookedUpKeeps, FollowUpDispatchedKeeps
  <1>3. CASE \E a \in DOMAIN abortCall : AbortLands(a) \/ AbortReturns(a)
    BY <1>3, AbortLandsKeeps, AbortReturnsKeeps
  <1>4. CASE RunEnds \/ ToolGranted \/ EventArrives
    BY <1>4, RunEndsKeeps, ToolGrantedKeeps, EventArrivesKeeps
  <1>5. CASE InitialDispatched \/ AskFollowUp \/ StopStreaming \/ LetGo
    BY <1>5, InitialDispatchedKeeps, AskFollowUpKeeps, StopStreamingKeeps, LetGoKeeps
  <1>6. CASE ClearFork \/ StartBeat \/ BeatMarks \/ BeatReturns \/ BeatUnmarks
    BY <1>6, ClearForkKeeps, StartBeatKeeps, BeatMarksKeeps, BeatReturnsKeeps, BeatUnmarksKeeps
  <1>7. CASE OpenFork \/ OpenUnmarks \/ OpenReturns \/ OpenRemarks \/ OpenGivesUp
    BY <1>7, OpenForkKeeps, OpenUnmarksKeeps, OpenReturnsKeeps, OpenRemarksKeeps, OpenGivesUpKeeps
  <1>. QED
    BY <1>1, <1>2, <1>3, <1>4, <1>5, <1>6, <1>7 DEF STNext

LEMMA ThreadIsSoundThen ==
    ASSUME ThreadInv
    PROVE  ThreadIsSound
  <1>. USE DEF ThreadInv
  <1>1. STTypeOK
    <2>1. DOMAIN abortCall = 1..MaxAbortCalls /\ mishaps \in 0..MaxMishaps /\ thread.aborts \in Int
      BY DEF ThreadTypes, Answering
    <2>2. IsFiniteSet(1..MaxAbortCalls) /\ Cardinality(1..MaxAbortCalls) = MaxAbortCalls
      <3>1. 1 \in Int /\ MaxAbortCalls \in Int /\ MaxAbortCalls \in Nat
        BY ExchangeFacts
      <3>2. /\ IsFiniteSet(1..MaxAbortCalls)
            /\ Cardinality(1..MaxAbortCalls) = IF 1 > MaxAbortCalls THEN 0 ELSE MaxAbortCalls - 1 + 1
        BY ONLY <3>1, FS_Interval
      <3>. QED
        BY ONLY <3>1, <3>2
    <2>3. Unanswered(abortCall) \in SUBSET (1..MaxAbortCalls)
      BY DEF Unanswered
    <2>4. Cardinality(Unanswered(abortCall)) <= MaxAbortCalls /\ Cardinality(Unanswered(abortCall)) \in Nat
      BY <2>2, <2>3, FS_Subset, UnansweredFacts
    <2>5. /\ Cardinality(Unanswered(abortCall)) <= thread.aborts
          /\ thread.aborts <= Cardinality(Unanswered(abortCall)) + mishaps
      BY DEF AbortsAreCounted
    <2>6. thread.aborts \in 0..MaxAbortCalls + MaxMishaps
      BY <2>1, <2>4, <2>5, ExchangeFacts
    <2>7. \A e \in Exchanges : /\ panel[e] \in {"none", "streaming", "done", "stopped", "failed"}
                               /\ attempt[e].pc \in {"none", "get", "prompt", "abort", "end"}
      BY DEF ThreadTypes, FollowUps
    <2>8. forkOwner \in {"controller", "user", "nobody"}
      BY DEF ThreadTypes
    <2>. QED
      BY <2>1, <2>2, <2>6, <2>7, <2>8 DEF STTypeOK
  <1>2. HandedOverClean
    BY DEF HandedOverClean, ForkIsGuarded, StillDue
  <1>. QED
    BY <1>1, <1>2 DEF ThreadIsSound

\* An abort that has not landed is of the exchange that is shown, and no later one has
\* a run; the user gets no fork of which an abort is under way.
LEMMA AbortsAreAimedThen ==
    ASSUME ThreadInv, NEW a \in DOMAIN abortCall, abortCall[a].pc \in {"sent", "late"}
    PROVE  forkOwner # "user" /\ \A e \in Loop : e <= abortCall[a].of
  <1>. USE DEF ThreadInv
  <1>1. a \in 1..MaxAbortCalls
    BY DEF ThreadTypes
  <1>2. forkOwner # "user"
    BY <1>1, NoAbortsMeansNone DEF ForkIsGuarded
  <1>3. ASSUME NEW e \in Loop
        PROVE  e <= abortCall[a].of
    <2>1. e \in Exchanges /\ runs[e] # "none"
      BY DEF Loop
    <2>2. e <= CurrentExchange
      BY <2>1, ExchangeFacts DEF PromptsAreKnown, InTurn
    <2>3. abortCall[a].of = CurrentExchange
      BY <1>1 DEF AbortsAreCounted
    <2>. QED
      BY <2>2, <2>3
  <1>. QED
    BY <1>2, <1>3

\* An exchange is called answered or failed only by the end of its own run, whatever
\* events of aborted runs, late prompts and lost calls come in between, as far as the
\* controller can know; the user gets a fork that exists and whose mark goes; and an
\* abort hits no later exchange, nor the user's session (createBtwController).
THEOREM ThreadsAreKeptHolds == STSpec => ThreadsAreKept
  <1>1. STInit => ThreadInv
    BY ThreadInit
  <1>2. ThreadInv /\ [STNext]_stVars => ThreadInv'
    BY ThreadStep
  <1>3. ThreadInv => ThreadIsSound
    BY ThreadIsSoundThen
  <1>4. ThreadInv /\ [STNext]_stVars =>
          [\A a \in DOMAIN abortCall :
              abortCall[a].pc \in {"sent", "late"} /\ runs' # runs /\ abortCall'[a] # abortCall[a]
              => forkOwner # "user" /\ \A e \in Loop : e <= abortCall[a].of]_stVars
    BY AbortsAreAimedThen
  <1>. QED
    BY <1>1, <1>2, <1>3, <1>4, PTL DEF STSpec, ThreadsAreKept, AbortsAreAimed
=============================================================================
