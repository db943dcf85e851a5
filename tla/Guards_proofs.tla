---------------------------- MODULE Guards_proofs ----------------------------
(***************************************************************************)
(* What must not count unapproved, and controls that must tell the truth:  *)
(* the install key of redact-secrets, the settings of a project, the save  *)
(* of a setting, the controls of a terminal, the pins of a session, what   *)
(* the server knows and the terminal keeps of a side question's fork, and  *)
(* the usage numbers on screen.                                            *)
(* They share no state; each has its inductive invariant, a lemma for      *)
(* every action and the theorem.                                           *)
(***************************************************************************)
EXTENDS InstallKey, PolicyTrust, SettingsSave, TuiControls, SessionPins, SideMarks, SideForks,
        UsageLimits, SequenceTheorems, FiniteSetTheorems, TLAPS

-----------------------------------------------------------------------------
(* InstallKey: under the lock the key file is broken and nobody fills it.  *)

IKTypeOK ==
    /\ keyFile \in [by : Starts \cup {0}, is : {"missing", "broken", "whole"}]
    /\ keyLock \in Starts \cup {0} /\ lockStale \in BOOLEAN /\ excused \in BOOLEAN
    /\ doing \in [Starts -> {"off", "read", "create", "fill", "raced", "lock", "stat", "steal", "poll",
                             "check", "publish", "unlock", "giveUp", "ephemeral", "done", "dead"}]
    /\ took \in [Starts -> Starts \cup {0}]

\* A start with the lock, and one that has seen the file exist.
HasLock(p) == doing[p] \in {"check", "publish", "unlock", "giveUp"}
FoundFile(p) == doing[p] \in {"raced", "lock", "stat", "steal", "poll", "check", "publish"}

IKOrder ==
    /\ \A p \in Starts : HasLock(p) => keyLock = p
    /\ \A p \in Starts : FoundFile(p) => keyFile # Missing
    /\ \A p \in Starts : doing[p] = "fill" => keyFile = [by |-> p, is |-> "broken"]
    /\ \A p \in Starts : doing[p] = "publish" => ~IsWhole /\ \A q \in Starts : doing[q] # "fill"
    /\ \A p \in Starts : doing[p] \in {"unlock", "done"} => keyFile = [by |-> took[p], is |-> "whole"]

IKInv ==
    /\ IKTypeOK
    /\ lockStale => keyLock \in Starts /\ doing[keyLock] = "dead"
    /\ ~excused => IKOrder

LEMMA IKMoves ==
    ASSUME IKTypeOK, NEW p \in Starts, NEW at, To(p, at)
    PROVE  doing'[p] = at /\ \A q \in Starts : q # p => doing'[q] = doing[q]
  BY DEF IKTypeOK, To

LEMMA IKTakes ==
    ASSUME IKTypeOK, NEW p \in Starts, NEW key, NEW at, Take(p, key, at)
    PROVE  /\ doing'[p] = at /\ \A q \in Starts : q # p => doing'[q] = doing[q]
           /\ took'[p] = key /\ \A q \in Starts : q # p => took'[q] = took[q]
  BY IKMoves DEF IKTypeOK, Take

\* 0 is no start.
LEMMA NoStart == 0 \notin Starts
  BY IKAssumption

LEMMA IKTypes == ASSUME IKTypeOK, [IKNext]_ikVars PROVE IKTypeOK'
  <1> USE NoStart
  <1>1. CASE LockAges
    BY <1>1 DEF LockAges, IKTypeOK
  <1>2. ASSUME NEW p \in Starts, Start(p) \/ Stat(p) \/ StartDies(p) PROVE IKTypeOK'
    BY <1>2 DEF Start, Stat, StartDies, To, Stay, IKTypeOK
  <1>3. ASSUME NEW p \in Starts, Reads(p) \/ Check(p) PROVE IKTypeOK'
    <2>1. \E at \in {"done", "create", "lock", "unlock", "publish"} : To(p, at)
      BY <1>3 DEF Reads, Check, ReadKey, Take
    <2>2. took' \in [Starts -> Starts \cup {0}]
      BY <1>3 DEF Reads, Check, ReadKey, Take, Stay, IKTypeOK
    <2>3. UNCHANGED <<keyFile, keyLock, lockStale>> /\ excused' \in BOOLEAN
      BY <1>3 DEF Reads, Check, IKTypeOK
    <2> QED BY <2>1, <2>2, <2>3 DEF To, IKTypeOK
  <1>4. ASSUME NEW p \in Starts, Create(p) PROVE IKTypeOK'
    BY <1>4 DEF Create, To, IKTypeOK
  <1>5. ASSUME NEW p \in Starts, Fill(p) PROVE IKTypeOK'
    <2>1. [keyFile EXCEPT !.is = "whole"] \in [by : Starts \cup {0}, is : {"missing", "broken", "whole"}]
      BY DEF IKTypeOK
    <2> QED BY <1>5, <2>1 DEF Fill, Take, To, IKTypeOK
  <1>6. ASSUME NEW p \in Starts, TakeLock(p) \/ Deadline(p) \/ Steal(p) \/ Unlock(p) PROVE IKTypeOK'
    <2>1. \E at \in {"check", "stat", "ephemeral", "poll", "done"} : To(p, at)
      BY <1>6 DEF TakeLock, Deadline, Steal, Unlock, Take
    <2>2. took' \in [Starts -> Starts \cup {0}]
      BY <1>6 DEF TakeLock, Deadline, Steal, Unlock, Take, Stay, IKTypeOK
    <2>3. keyLock' \in Starts \cup {0} /\ lockStale' \in BOOLEAN
      BY <1>6 DEF TakeLock, Deadline, Steal, Unlock, Locks, IKTypeOK
    <2>4. keyFile' = keyFile /\ excused' \in BOOLEAN
      BY <1>6 DEF TakeLock, Deadline, Steal, Unlock, IKTypeOK
    <2> QED BY <2>1, <2>2, <2>3, <2>4 DEF To, IKTypeOK
  <1>7. ASSUME NEW p \in Starts, PublishKey(p) \/ PublishFails(p) PROVE IKTypeOK'
    BY <1>7 DEF PublishKey, PublishFails, Take, To, IKTypeOK
  <1>8. CASE UNCHANGED ikVars
    BY <1>8 DEF ikVars, IKTypeOK
  <1> QED BY <1>1, <1>2, <1>3, <1>4, <1>5, <1>6, <1>7, <1>8 DEF IKNext

LEMMA LockIsStale ==
    ASSUME IKInv, [IKNext]_ikVars
    PROVE  lockStale' => keyLock' \in Starts /\ doing'[keyLock'] = "dead"
  <1> IKTypeOK
    BY DEF IKInv
  <1> SUFFICES ASSUME lockStale' PROVE keyLock' \in Starts /\ doing'[keyLock'] = "dead"
    OBVIOUS
  <1>1. CASE LockAges
    BY <1>1 DEF LockAges, IKTypeOK
  <1>2. CASE UNCHANGED <<keyLock, lockStale>>
    <2>1. keyLock \in Starts /\ doing[keyLock] = "dead"
      BY <1>2 DEF IKInv
    <2>2. doing'[keyLock] = "dead"
      <3>1. ASSUME NEW p \in Starts, NEW at, To(p, at), doing[p] # "dead" PROVE doing'[keyLock] = "dead"
        BY <2>1, <3>1, IKMoves
      <3>2. CASE LockAges \/ UNCHANGED ikVars
        BY <2>1, <3>2 DEF LockAges, ikVars
      <3>3. ASSUME NEW p \in Starts, Start(p) \/ Stat(p) \/ StartDies(p) \/ Create(p) PROVE doing'[keyLock] = "dead"
        BY <3>1, <3>3 DEF Start, Stat, StartDies, Create
      <3>4. ASSUME NEW p \in Starts, Reads(p) \/ Check(p) PROVE doing'[keyLock] = "dead"
        BY <3>1, <3>4 DEF Reads, Check, ReadKey, Take
      <3>5. ASSUME NEW p \in Starts, Fill(p) \/ Deadline(p) \/ PublishKey(p) \/ PublishFails(p)
            PROVE  doing'[keyLock] = "dead"
        BY <3>1, <3>5 DEF Fill, Deadline, PublishKey, PublishFails, Take
      <3>6. ASSUME NEW p \in Starts, TakeLock(p) \/ Steal(p) \/ Unlock(p) PROVE doing'[keyLock] = "dead"
        BY <3>1, <3>6 DEF TakeLock, Steal, Unlock
      <3> QED BY <3>2, <3>3, <3>4, <3>5, <3>6 DEF IKNext
    <2> QED BY <1>2, <2>1, <2>2
  <1>3. ASSUME ~UNCHANGED <<keyLock, lockStale>>, ~LockAges PROVE FALSE
    <2>1. ASSUME NEW p \in Starts, TakeLock(p) \/ Steal(p) \/ Unlock(p) PROVE FALSE
      BY <1>3, <2>1 DEF TakeLock, Steal, Unlock, Locks
    <2>2. ASSUME NEW p \in Starts, ~(TakeLock(p) \/ Steal(p) \/ Unlock(p)),
                 \/ Start(p) \/ Reads(p) \/ Create(p) \/ Fill(p) \/ Deadline(p) \/ Stat(p)
                 \/ Check(p) \/ PublishKey(p) \/ PublishFails(p) \/ StartDies(p)
          PROVE FALSE
      BY <1>3, <2>2 DEF Start, Reads, Create, Fill, Deadline, Stat, Check, PublishKey, PublishFails, StartDies, Locks
    <2> QED BY <1>3, <2>1, <2>2 DEF IKNext, ikVars
  <1> QED BY <1>1, <1>2, <1>3

\* A start that goes on without touching the file or the lock: what it goes on to
\* is all that counts.
LEMMA StepsOn ==
    ASSUME IKTypeOK, IKOrder, NEW p \in Starts, NEW at, doing'[p] = at,
           \A q \in Starts : q # p => doing'[q] = doing[q],
           \A q \in Starts : q # p => took'[q] = took[q],
           UNCHANGED <<keyFile, keyLock>>,
           at \in {"check", "publish", "unlock", "giveUp"} => keyLock = p,
           at \in {"raced", "lock", "stat", "steal", "poll", "check", "publish"} => keyFile # Missing,
           at # "fill",
           at = "publish" => keyFile.is # "whole" /\ \A q \in Starts : doing[q] # "fill",
           at \in {"unlock", "done"} => keyFile = [by |-> took'[p], is |-> "whole"]
    PROVE  IKOrder'
  BY DEF IKOrder, HasLock, FoundFile, IsWhole

LEMMA IKOrderKept ==
    ASSUME IKInv, IKOrder, [IKNext]_ikVars, ~excused'
    PROVE  IKOrder'
  <1> IKTypeOK
    BY DEF IKInv
  <1> USE NoStart DEF IsWhole
  <1>0. keyFile = [by |-> keyFile.by, is |-> keyFile.is]
    BY DEF IKTypeOK
  <1>1. CASE UNCHANGED ikVars
    BY <1>1 DEF ikVars, IKOrder, HasLock, FoundFile
  <1>2. CASE LockAges
    BY <1>2 DEF LockAges, IKOrder, HasLock, FoundFile
  <1>3. ASSUME NEW p \in Starts, Start(p) \/ StartDies(p) PROVE IKOrder'
    BY <1>3, IKMoves, StepsOn DEF Start, StartDies, Stay
  <1>4. ASSUME NEW p \in Starts, Reads(p) PROVE IKOrder'
    <2>1. CASE keyFile.is = "whole"
      <3>1. Take(p, keyFile.by, "done") /\ UNCHANGED <<keyFile, keyLock>>
        BY <1>4, <2>1 DEF Reads, ReadKey
      <3> QED BY <1>0, <2>1, <3>1, IKTakes, StepsOn
    <2>2. CASE keyFile.is # "whole"
      <3>1. PICK at \in {"create", "lock"} :
               /\ To(p, at) /\ UNCHANGED <<took, keyFile, keyLock>>
               /\ at = "lock" => doing[p] \in {"raced", "poll"}
        BY <1>4, <2>2 DEF Reads, ReadKey, Stay
      <3>2. at = "lock" => keyFile # Missing
        BY <3>1 DEF IKOrder, FoundFile
      <3> QED BY <3>1, <3>2, IKMoves, StepsOn
    <2> QED BY <2>1, <2>2
  <1>5. ASSUME NEW p \in Starts, Create(p) PROVE IKOrder'
    <2>1. CASE keyFile = Missing
      <3>1. /\ keyFile' = [by |-> p, is |-> "broken"] /\ doing'[p] = "fill" /\ UNCHANGED <<keyLock, took>>
            /\ \A q \in Starts : q # p => doing'[q] = doing[q]
        BY <1>5, <2>1, IKMoves DEF Create
      <3>2. \A q \in Starts : doing[q] \notin {"fill", "unlock", "done"} /\ ~FoundFile(q)
        BY <2>1 DEF IKOrder, Missing
      <3>3. keyFile' # Missing
        BY <3>1 DEF Missing
      <3> QED BY <3>1, <3>2, <3>3 DEF IKOrder, HasLock, FoundFile
    <2>2. CASE keyFile # Missing
      <3>1. To(p, "raced") /\ UNCHANGED <<keyFile, keyLock, took>>
        BY <1>5, <2>2 DEF Create
      <3> QED BY <2>2, <3>1, IKMoves, StepsOn
    <2> QED BY <2>1, <2>2
  <1>6. ASSUME NEW p \in Starts, Fill(p) PROVE IKOrder'
    <2>1. /\ keyFile = [by |-> p, is |-> "broken"] /\ doing[p] = "fill"
          /\ \A q \in Starts : q # p => doing[q] # "fill"
          /\ \A q \in Starts : doing[q] \notin {"publish", "unlock", "done"}
      BY <1>6 DEF Fill, IKOrder
    <2>2. /\ keyFile' = [by |-> p, is |-> "whole"] /\ doing'[p] = "done" /\ took'[p] = p
          /\ \A q \in Starts : q # p => doing'[q] = doing[q]
          /\ UNCHANGED keyLock
      <3>1. [keyFile EXCEPT !.is = "whole"] = [by |-> p, is |-> "whole"]
        <4>1. keyFile = [by |-> p, is |-> "broken"]
          BY <2>1
        <4> QED BY <4>1
      <3> QED BY <1>6, <2>1, <3>1, IKTakes DEF Fill
    <2>3. keyFile' # Missing
      BY <2>2 DEF Missing
    <2> QED BY <2>1, <2>2, <2>3 DEF IKOrder, HasLock, FoundFile
  <1>7. ASSUME NEW p \in Starts, TakeLock(p) PROVE IKOrder'
    <2>1. keyFile # Missing /\ doing[p] = "lock" /\ UNCHANGED <<keyFile, took>>
      BY <1>7 DEF TakeLock, IKOrder, FoundFile
    <2>2. CASE keyLock = 0
      <3>1. /\ doing'[p] = "check" /\ keyLock' = p
            /\ \A q \in Starts : q # p => doing'[q] = doing[q]
        BY <1>7, <2>2, IKMoves DEF TakeLock
      <3>2. \A q \in Starts : ~HasLock(q)
        BY <2>2 DEF IKOrder
      <3> QED BY <2>1, <3>1, <3>2 DEF IKOrder, HasLock, FoundFile
    <2>3. CASE keyLock # 0
      <3>1. To(p, "stat") /\ UNCHANGED keyLock
        BY <1>7, <2>3 DEF TakeLock, Locks
      <3> QED BY <2>1, <3>1, IKMoves, StepsOn
    <2> QED BY <2>2, <2>3
  <1>8. ASSUME NEW p \in Starts, Deadline(p) PROVE IKOrder'
    BY <1>8, IKTakes, StepsOn DEF Deadline, Locks
  <1>9. ASSUME NEW p \in Starts, Stat(p) PROVE IKOrder'
    <2>1. keyFile # Missing /\ UNCHANGED <<keyFile, keyLock, took>>
      BY <1>9 DEF Stat, IKOrder, FoundFile
    <2>2. PICK at \in {"steal", "poll"} : To(p, at)
      BY <1>9 DEF Stat
    <2> QED BY <2>1, <2>2, IKMoves, StepsOn
  <1>10. ASSUME NEW p \in Starts, Steal(p) PROVE IKOrder'
    <2>1. /\ keyFile # Missing /\ UNCHANGED <<keyFile, took>> /\ keyLock' = 0
          /\ doing'[p] = "poll" /\ \A q \in Starts : q # p => doing'[q] = doing[q]
      BY <1>10, IKMoves DEF Steal, IKOrder, FoundFile
    <2>2. \A q \in Starts : ~HasLock(q)
      <3>1. keyLock = 0 \/ lockStale
        BY <1>10 DEF Steal
      <3>2. lockStale => keyLock \in Starts /\ ~HasLock(keyLock)
        BY DEF IKInv, HasLock
      <3> QED BY <3>1, <3>2 DEF IKOrder
    <2> QED BY <2>1, <2>2 DEF IKOrder, HasLock, FoundFile
  <1>11. ASSUME NEW p \in Starts, Check(p) PROVE IKOrder'
    <2>1. /\ keyFile # Missing /\ keyLock = p /\ UNCHANGED <<keyFile, keyLock>>
          /\ ~\E q \in Starts : doing[q] = "fill" /\ keyFile.by = q
      BY <1>11 DEF Check, ReadKey, IKOrder, FoundFile, HasLock
    <2>2. \A q \in Starts : doing[q] # "fill"
      BY <2>1 DEF IKOrder
    <2>3. CASE keyFile.is = "whole"
      <3>1. Take(p, keyFile.by, "unlock")
        BY <1>11, <2>3 DEF Check, ReadKey
      <3> QED BY <1>0, <2>1, <2>3, <3>1, IKTakes, StepsOn
    <2>4. CASE keyFile.is # "whole"
      <3>1. To(p, "publish") /\ UNCHANGED took
        BY <1>11, <2>4 DEF Check, ReadKey, Stay
      <3> QED BY <2>1, <2>2, <2>4, <3>1, IKMoves, StepsOn
    <2> QED BY <2>3, <2>4
  <1>12. ASSUME NEW p \in Starts, PublishKey(p) PROVE IKOrder'
    <2>1. /\ keyLock = p /\ keyFile.is # "whole" /\ \A q \in Starts : doing[q] \notin {"fill", "unlock", "done"}
      BY <1>12 DEF PublishKey, IKOrder, HasLock
    <2>2. /\ keyFile' = [by |-> p, is |-> "whole"] /\ UNCHANGED keyLock
          /\ doing'[p] = "unlock" /\ took'[p] = p
          /\ \A q \in Starts : q # p => doing'[q] = doing[q]
      BY <1>12, IKTakes DEF PublishKey
    <2>3. keyFile' # Missing /\ \A q \in Starts : q # p => ~HasLock(q)
      BY <2>1, <2>2 DEF Missing, IKOrder
    <2> QED BY <2>1, <2>2, <2>3 DEF IKOrder, HasLock, FoundFile
  <1>13. ASSUME NEW p \in Starts, PublishFails(p) PROVE IKOrder'
    <2>1. keyLock = p
      BY <1>13 DEF PublishFails, IKOrder, HasLock
    <2> QED BY <1>13, <2>1, IKTakes, StepsOn DEF PublishFails
  <1>14. ASSUME NEW p \in Starts, Unlock(p) PROVE IKOrder'
    <2>1. keyLock = p /\ \A q \in Starts : q # p => ~HasLock(q)
      BY <1>14 DEF Unlock, IKOrder, HasLock
    <2>2. PICK at \in {"done", "ephemeral"} :
             /\ To(p, at) /\ keyLock' = 0 /\ UNCHANGED <<keyFile, took>>
             /\ at = "done" => doing[p] = "unlock"
      BY <1>14 DEF Unlock, Stay
    <2>3. doing'[p] = at /\ \A q \in Starts : q # p => doing'[q] = doing[q]
      BY <2>2, IKMoves
    <2> QED BY <2>1, <2>2, <2>3 DEF IKOrder, HasLock, FoundFile
  <1> QED BY <1>1, <1>2, <1>3, <1>4, <1>5, <1>6, <1>7, <1>8, <1>9, <1>10, <1>11, <1>12, <1>13, <1>14 DEF IKNext

LEMMA ExcusedStays == ASSUME IKTypeOK, [IKNext]_ikVars, excused PROVE excused'
  BY DEF IKTypeOK, IKNext, ikVars, LockAges, Start, Reads, Create, Fill, TakeLock, Deadline, Stat, Steal, Check,
         PublishKey, PublishFails, Unlock, StartDies

LEMMA IKInitially == ASSUME IKInit PROVE IKInv
  <1>1. /\ keyFile \in {[by |-> 0, is |-> "missing"], [by |-> 0, is |-> "broken"]}
        /\ keyLock = 0 /\ lockStale = FALSE /\ excused = FALSE
        /\ doing = [p \in Starts |-> "off"] /\ took = [p \in Starts |-> 0]
    BY DEF IKInit, Missing, Debris
  <1>2. FALSE \in BOOLEAN
    OBVIOUS
  <1>3. keyFile \in [by : Starts \cup {0}, is : {"missing", "broken", "whole"}]
    BY <1>1, <1>2
  <1>4. IKTypeOK
    BY <1>1, <1>2, <1>3 DEF IKTypeOK
  <1>5. IKOrder
    BY <1>1 DEF IKOrder, HasLock, FoundFile
  <1> QED BY <1>1, <1>4, <1>5 DEF IKInv

\* Every start that goes on with a stored key goes on with the one in the file,
\* but for the two known races: for any number of starts, deaths and repairs.
THEOREM KeysAgreeHolds == IKSpec => []KeysAgree
  <1>1. IKInit => IKInv
    BY IKInitially
  <1>2. ASSUME IKInv, [IKNext]_ikVars PROVE IKInv'
    <2>1. IKTypeOK'
      BY <1>2, IKTypes DEF IKInv
    <2>2. ~excused' => IKOrder'
      BY <1>2, ExcusedStays, IKOrderKept DEF IKInv
    <2> QED BY <1>2, <2>1, <2>2, LockIsStale DEF IKInv
  <1>3. IKInv => KeysAgree
    BY DEF IKInv, IKOrder, KeysAgree, Converged
  <1> QED BY <1>1, <1>2, <1>3, PTL DEF IKSpec

-----------------------------------------------------------------------------
(* PolicyTrust: the record a reading compares with was in force meanwhile, *)
(* and what the reading has found is one content for a file.               *)

FileContents == {"missing", "code", "strict", "loose", "others"}
ServerReading == server.at = "scanning"

PTInv ==
    /\ projectFiles \in [Files -> FileContents]
    /\ blessing = told
    /\ server.at \in {"idle", "scanning", "ok"}
    /\ ServerReading =>
          /\ server = [at |-> "scanning", k |-> server.k, found |-> server.found, record |-> server.record,
                       during |-> server.during]
          /\ told \in server.during
          /\ server.record = Unread \/ server.record \in server.during
          /\ server.k \in {2, 3}
          /\ server.found \in SUBSET (Files \X FileContents)
          /\ server.k = 2 => \A x \in server.found : x[1] = "outer"
          /\ \A x, y \in server.found : x[1] = y[1] => x = y
    /\ PolicyIsReviewed

LEMMA FilesAre == Files = {"outer", "inner", "source"} /\ Source = "source" /\ Len(ScanOrder) = 2
                  /\ ScanOrder[1] = {"outer"} /\ ScanOrder[2] = {"inner", "source"}
  BY DEF Files, ConfigFiles, Source, ScanOrder

LEMMA ContentsAre == \A f \in Files : ContentsOf(f) \subseteq FileContents
  BY DEF ContentsOf, FileContents, Entries

\* A step of the scan adds one content for each file that is there.
LEMMA ScanAdds ==
    ASSUME projectFiles \in [Files -> FileContents], NEW S, S \subseteq Files, NEW found,
           found = {<<f, projectFiles[f]>> : f \in {g \in S : projectFiles[g] # "missing"}}
    PROVE  /\ found \in SUBSET (Files \X FileContents)
           /\ \A x \in found : x[1] \in S
           /\ \A x, y \in found : x[1] = y[1] => x = y
  <1>1. \A x \in found : \E f \in S : x = <<f, projectFiles[f]>>
    OBVIOUS
  <1>2. \A x \in found : x[1] \in S /\ x = <<x[1], projectFiles[x[1]]>>
    BY <1>1
  <1> QED BY <1>2

LEMMA ScannedRecord ==
    ASSUME NEW k, NEW f, NEW r, NEW d, NEW n, NEW g, NEW s, NEW t,
           s = [at |-> "scanning", k |-> k, found |-> f, record |-> r, during |-> d],
           t = [s EXCEPT !.k = n, !.found = g]
    PROVE  t = [at |-> "scanning", k |-> n, found |-> g, record |-> r, during |-> d]
  OBVIOUS

LEMMA PTInitially == ASSUME PTInit PROVE PTInv
  <1>1. /\ projectFiles = [f \in Files |-> "missing"] /\ blessing = told /\ server = [at |-> "idle"]
    BY DEF PTInit, Resting
  <1>2. projectFiles \in [Files -> FileContents]
    BY <1>1 DEF FileContents
  <1> QED BY <1>1, <1>2 DEF PTInv, ServerReading, PolicyIsReviewed

\* Steps that leave the server and the record alone.
LEMMA ServerStays ==
    ASSUME PTInv, UNCHANGED <<blessing, server, told>>, projectFiles' \in [Files -> FileContents]
    PROVE  PTInv'
  BY DEF PTInv, ServerReading, PolicyIsReviewed

LEMMA WritesBlessingKeeps == ASSUME PTInv, NEW t \in Terminals, WritesBlessing(t) PROVE PTInv'
  <1>1. projectFiles' = projectFiles /\ projectFiles \in [Files -> FileContents] /\ blessing = told
    BY DEF WritesBlessing, PTInv
  <1>2. CASE UNCHANGED <<blessing, told, server>>
    BY <1>1, <1>2, ServerStays
  <1>3. CASE /\ blessing' = flow[t].record /\ told' = flow[t].record
             /\ server' = IF server.at = "idle" THEN server
                          ELSE [server EXCEPT !.during = @ \cup {flow[t].record}]
    <2>1. CASE server.at = "idle"
      BY <1>1, <1>3, <2>1 DEF PTInv, ServerReading, PolicyIsReviewed
    <2>2. CASE server.at = "scanning"
      <3> DEFINE r == flow[t].record
      <3>0. server = [at |-> server.at, k |-> server.k, found |-> server.found, record |-> server.record,
                      during |-> server.during]
        BY <2>2 DEF PTInv, ServerReading
      <3>1. server' = [at |-> server.at, k |-> server.k, found |-> server.found, record |-> server.record,
                       during |-> server.during \cup {r}]
        BY <1>3, <2>2, <3>0
      <3>2. /\ server'.at = "scanning" /\ server'.k = server.k /\ server'.found = server.found
            /\ server'.record = server.record /\ server'.during = server.during \cup {r}
            /\ server' = [at |-> "scanning", k |-> server'.k, found |-> server'.found,
                          record |-> server'.record, during |-> server'.during]
        BY <2>2, <3>1
      <3>3. told' = r /\ blessing' = r
        BY <1>3
      <3> HIDE DEF r
      <3> QED BY <1>1, <2>2, <3>2, <3>3 DEF PTInv, ServerReading, PolicyIsReviewed
    <2>3. CASE server.at = "ok"
      <3>1. /\ server'.at = "ok" /\ server'.found = server.found /\ server'.warned = server.warned
            /\ server.during \subseteq server'.during
        BY <1>3, <2>3 DEF PTInv
      <3> QED BY <1>1, <1>3, <2>3, <3>1 DEF PTInv, ServerReading, PolicyIsReviewed
    <2> QED BY <2>1, <2>2, <2>3 DEF PTInv
  <1> QED BY <1>2, <1>3 DEF WritesBlessing, Recorded

LEMMA ServerStartsKeeps == ASSUME PTInv, ServerStarts PROVE PTInv'
  <1> DEFINE new == {<<f, projectFiles[f]>> : f \in {g \in {"outer"} : projectFiles[g] # "missing"}}
  <1>1. Scanning.k = 2 /\ Scanning.found = new
    BY FilesAre DEF Scanning, Scanned
  <1>2. server' = [at |-> "scanning", k |-> 2, found |-> new, record |-> Unread, during |-> {told}]
    BY <1>1 DEF ServerStarts
  <1>3. /\ new \in SUBSET (Files \X FileContents) /\ \A x \in new : x[1] \in {"outer"}
        /\ \A x, y \in new : x[1] = y[1] => x = y
    BY FilesAre, ScanAdds DEF PTInv
  <1> HIDE DEF new
  <1> QED BY <1>2, <1>3 DEF PTInv, ServerStarts, ServerReading, PolicyIsReviewed

LEMMA ServerScansKeeps == ASSUME PTInv, ServerScans PROVE PTInv'
  <1> DEFINE new == {<<f, projectFiles[f]>> : f \in {g \in {"inner", "source"} : projectFiles[g] # "missing"}}
  <1>1. /\ server.at = "scanning" /\ server.k = 2 /\ UNCHANGED <<projectFiles, blessing, told>>
        /\ server = [at |-> "scanning", k |-> server.k, found |-> server.found, record |-> server.record,
                     during |-> server.during]
    BY FilesAre DEF ServerScans, ScanDone, PTInv, ServerReading
  <1>2. server' = [at |-> "scanning", k |-> 3, found |-> server.found \cup new, record |-> server.record,
                   during |-> server.during]
    <2>1. server' = [server EXCEPT !.k = @ + 1, !.found = @ \cup new]
      BY <1>1, FilesAre DEF ServerScans, Scanned
    <2> HIDE DEF new
    <2>2. server.k + 1 = 3
      BY <1>1
    <2>3. server' = [server EXCEPT !.k = 3, !.found = server.found \cup new]
      BY <2>1, <2>2
    <2> QED BY <1>1, <2>3, ScannedRecord
  <1>3. /\ new \in SUBSET (Files \X FileContents) /\ \A x \in new : x[1] \in {"inner", "source"}
        /\ \A x, y \in new : x[1] = y[1] => x = y
    BY FilesAre, ScanAdds DEF PTInv
  <1> HIDE DEF new
  <1>4. \A x, y \in server.found \cup new : x[1] = y[1] => x = y
    BY <1>1, <1>3 DEF PTInv, ServerReading
  <1> QED BY <1>1, <1>2, <1>3, <1>4 DEF PTInv, ServerReading, PolicyIsReviewed

LEMMA ReadsBlessingKeeps == ASSUME PTInv, ReadsBlessing PROVE PTInv'
  <1>1. /\ server.at = "scanning" /\ UNCHANGED <<projectFiles, blessing, told>>
        /\ server = [at |-> "scanning", k |-> server.k, found |-> server.found, record |-> server.record,
                     during |-> server.during]
    BY DEF ReadsBlessing, PTInv, ServerReading
  <1>2. server' = [at |-> "scanning", k |-> server.k, found |-> server.found, record |-> told,
                   during |-> server.during]
    BY <1>1 DEF ReadsBlessing, PTInv
  <1> QED BY <1>1, <1>2 DEF PTInv, ServerReading, PolicyIsReviewed

\* What is evaluated without a pending file is what one record says.
LEMMA EvaluatedKeeps == ASSUME PTInv, Evaluated PROVE PTInv'
  <1>1. /\ server.at = "scanning" /\ server.record # Unread /\ UNCHANGED <<projectFiles, blessing, told>>
    BY DEF Evaluated
  <1>2. CASE server' = Resting
    BY <1>1, <1>2 DEF PTInv, ServerReading, PolicyIsReviewed, Resting
  <1>3. CASE /\ Pending(server.found, server.record) = {}
             /\ server' = [at |-> "ok", found |-> server.found, during |-> server.during,
                           warned |-> Unblessed(server.found, server.record)]
    <2> DEFINE seen == server.record
               kept == {x[1] : x \in ConfigsOf(server.found) \cap seen.files}
    <2>1. seen \in server.during
      BY <1>1 DEF PTInv, ServerReading
    <2>2. Suppliers(server.found) \cup seen.policy \subseteq kept
      BY <1>3 DEF Pending
    <2>3. ASSUME NEW x \in server.found, HasOwnEntry(x[2]) PROVE x \in seen.files
      <3>1. x[1] \in kept
        BY <2>2, <2>3 DEF Suppliers
      <3>2. PICK y \in ConfigsOf(server.found) \cap seen.files : x[1] = y[1]
        BY <3>1
      <3>3. x = y
        BY <1>1, <3>2 DEF PTInv, ServerReading, ConfigsOf
      <3> QED BY <3>2, <3>3
    <2>4. ASSUME NEW f \in seen.policy PROVE \E x \in server.found : x[1] = f /\ x \in seen.files
      BY <2>2 DEF ConfigsOf
    <2>5. \A x \in Reviewed(server.found) \ seen.files : x[1] \in server'.warned
      BY <1>3 DEF Unblessed
    <2>6. server'.at = "ok" /\ server'.found = server.found /\ server'.during = server.during
      BY <1>3
    <2>7. PolicyIsReviewed'
      BY <2>1, <2>3, <2>4, <2>5, <2>6 DEF PolicyIsReviewed
    <2> QED BY <1>1, <2>6, <2>7 DEF PTInv, ServerReading
  <1> QED BY <1>2, <1>3 DEF Evaluated

\* Settings of the project are in effect only as one dialog showed them, whose
\* answer was in force at some moment of the server's reading: for any number
\* of terminals, edits and answers.
THEOREM PolicyIsReviewedHolds == PTSpec => []PolicyIsReviewed
  <1>1. PTInit => PTInv
    BY PTInitially
  <1>2. ASSUME PTInv, [PTNext]_ptVars PROVE PTInv'
    <2>1. ASSUME NEW f \in Files, ChangeFile(f) PROVE PTInv'
      <3>1. projectFiles' \in [Files -> FileContents]
        BY <1>2, <2>1, ContentsAre DEF ChangeFile, PTInv
      <3> QED BY <1>2, <2>1, <3>1, ServerStays DEF ChangeFile
    <2>2. ASSUME NEW t \in Terminals, TrustProject(t) \/ ShowsDialog(t) \/ DialogAnswered(t) PROVE PTInv'
      BY <1>2, <2>2, ServerStays DEF TrustProject, ShowsDialog, DialogAnswered, PTInv
    <2>3. CASE SnapshotUsed
      BY <1>2, <2>3 DEF SnapshotUsed, PTInv, ServerReading, PolicyIsReviewed, Resting
    <2>4. CASE UNCHANGED ptVars
      BY <1>2, <2>4, ServerStays DEF ptVars, PTInv
    <2> QED BY <1>2, <2>1, <2>2, <2>3, <2>4, WritesBlessingKeeps, ServerStartsKeeps, ServerScansKeeps,
               ReadsBlessingKeeps, EvaluatedKeeps DEF PTNext
  <1>3. PTInv => PolicyIsReviewed
    BY DEF PTInv
  <1> QED BY <1>1, <1>2, <1>3, PTL DEF PTSpec

-----------------------------------------------------------------------------
(* SettingsSave: what is staged holds what the file held when it was       *)
(* looked at, a change since then is known to have happened, and from its  *)
(* read to its rename a save is the only one in its global config.         *)

ConfigType == [kind : Kinds, holds : SUBSET (Savers \cup Nat), closed : BOOLEAN]
SaveType == [at : {"idle", "scanning", "scanning2", "explaining", "locking", "reading", "staged", "checked",
                   "publishing", "ok", "corrupt", "no-entry", "shadowed", "conflict"},
             place : ConfigPlaces \cup {"none"}, attempt : 1..Attempts, base : ConfigType, staged : ConfigType,
             late : BOOLEAN, changes : 0..Attempts]

SSTypeOK ==
    /\ configs \in [ConfigPlaces -> ConfigType]
    /\ locked \in [ConfigPlaces -> SUBSET Savers]
    /\ save \in [Savers -> SaveType]
    /\ edited \in Nat

\* The files have changed under the save r in this attempt.
Disturbed(r) == r.changes >= r.attempt
IsGlobal(p) == p \in {"early", "late"}
HoldsAll(next, past) == past.holds \subseteq next.holds /\ (past.closed => next.closed)

\* The save r of s in the configs c under the locks l.
SoundSave(s, r, c, l) ==
    /\ r.at = "idle" => r.attempt = 1
    /\ r.at \notin {"idle", "ok", "corrupt", "no-entry", "shadowed", "conflict"} => r.changes + 1 >= r.attempt
    /\ r.at = "conflict" => r.changes >= Attempts
    /\ r.at = "scanning2" => c["early"] = r.base \/ Disturbed(r)
    /\ r.at \in {"locking", "reading", "staged", "checked"} =>
          IsGlobal(r.place) /\ (c[r.place] = r.base \/ Disturbed(r))
    /\ r.at \in {"reading", "staged", "checked", "publishing"} /\ IsGlobal(r.place) => l[r.place] = {s}
    /\ r.at \in {"staged", "checked", "publishing"} /\ IsGlobal(r.place) => HoldsAll(r.staged, r.base)
    /\ r.at \in {"checked", "publishing"} /\ IsGlobal(r.place) => r.late \/ c[r.place] = r.base
    /\ r.at = "publishing" =>
          /\ r.place \in ConfigPlaces
          /\ r.place = Project => r.late \/ c[Project].holds \subseteq r.staged.holds

SSInv == SSTypeOK /\ \A s \in Savers : SoundSave(s, save[s], configs, locked)

Stages == {"idle", "scanning", "scanning2", "explaining", "locking", "reading", "staged", "checked",
           "publishing", "ok", "corrupt", "no-entry", "shadowed", "conflict"}

LEMMA ConfigsAre ==
    /\ \A k \in Kinds : Config(k) \in ConfigType
    /\ \A k \in Kinds : Config(k).holds = {} /\ ~Config(k).closed
    /\ Nothing \in ConfigType /\ NotSaving \in SaveType
    /\ \A p \in ConfigPlaces : KindsOf(p) \subseteq Kinds
    /\ Project \in ConfigPlaces /\ ~IsGlobal(Project)
    /\ \A p \in ConfigPlaces : IsGlobal(p) \/ p = Project
  BY SSAssumption DEF Config, ConfigType, Nothing, NotSaving, SaveType, Kinds, KindsOf, ConfigPlaces, Project, IsGlobal

LEMMA Outcomes ==
    ASSUME NEW a \in Stages
    PROVE  Result(a) \in SaveType /\ Result(a).at = a /\ Result(a).attempt = 1 /\ Result(a).changes = 0
  BY SSAssumption, ConfigsAre DEF Result, NotSaving, SaveType, Stages, ConfigPlaces

\* A save in another stage.
LEMMA StageMoves ==
    ASSUME SSInv, NEW s \in Savers, NEW a \in Stages
    PROVE  /\ save[s] \in SaveType /\ Goes(s, a) \in SaveType
           /\ Goes(s, a).at = a /\ Goes(s, a).place = save[s].place /\ Goes(s, a).attempt = save[s].attempt
           /\ Goes(s, a).base = save[s].base /\ Goes(s, a).staged = save[s].staged
           /\ Goes(s, a).late = save[s].late /\ Goes(s, a).changes = save[s].changes
           /\ SoundSave(s, save[s], configs, locked)
  BY DEF SSInv, SSTypeOK, Goes, SaveType, Stages

LEMMA SSInitially == ASSUME SSInit PROVE SSInv
  <1>1. PICK k \in [ConfigPlaces -> Kinds \ {"broken"}] : configs = [p \in ConfigPlaces |-> Config(k[p])]
    BY DEF SSInit
  <1>2. configs \in [ConfigPlaces -> ConfigType]
    BY <1>1, ConfigsAre
  <1>3. locked \in [ConfigPlaces -> SUBSET Savers] /\ save \in [Savers -> SaveType] /\ edited \in Nat
    BY ConfigsAre DEF SSInit
  <1>4. \A s \in Savers : save[s].at = "idle" /\ save[s].attempt = 1
    BY DEF SSInit, NotSaving
  <1>5. \A s \in Savers : SoundSave(s, save[s], configs, locked)
    BY <1>4 DEF SoundSave
  <1> QED BY <1>2, <1>3, <1>5 DEF SSInv, SSTypeOK

\* A step of one save that changes no file and takes no lock of another's.
LEMMA SaveMoves ==
    ASSUME SSInv, NEW s \in Savers, NEW r \in SaveType, save' = [save EXCEPT ![s] = r],
           UNCHANGED <<configs, edited>>, locked' \in [ConfigPlaces -> SUBSET Savers],
           \A t \in Savers \ {s}, p \in ConfigPlaces : locked[p] = {t} => locked'[p] = {t},
           SoundSave(s, r, configs, locked')
    PROVE  SSInv'
  <1>1. SSTypeOK'
    BY DEF SSInv, SSTypeOK
  <1>2. ASSUME NEW t \in Savers PROVE SoundSave(t, save[t], configs, locked)'
    <2>1. CASE t = s
      <3>1. save'[t] = r
        BY <2>1 DEF SSInv, SSTypeOK
      <3> QED BY <2>1, <3>1
    <2>2. CASE t # s
      <3>1. save'[t] = save[t] /\ configs' = configs
        BY <2>2 DEF SSInv, SSTypeOK
      <3>2. SoundSave(t, save[t], configs, locked)
        BY DEF SSInv
      <3>3. \A p \in ConfigPlaces : locked[p] = {t} => locked'[p] = {t}
        BY <2>2
      <3> QED BY <3>1, <3>2, <3>3 DEF SoundSave, IsGlobal, ConfigPlaces
    <2> QED BY <2>1, <2>2
  <1> QED BY <1>1, <1>2 DEF SSInv

LEMMA Unlocking ==
    ASSUME SSInv, NEW s \in Savers, save[s].place \in ConfigPlaces
    PROVE  /\ Unlocked(s) \in [ConfigPlaces -> SUBSET Savers]
           /\ \A t \in Savers \ {s}, p \in ConfigPlaces : locked[p] = {t} => Unlocked(s)[p] = {t}
  BY DEF SSInv, SSTypeOK, Unlocked

\* Who has been disturbed tries again, or has been disturbed often enough.
LEMMA Conflicts ==
    ASSUME SSInv, NEW s \in Savers, Disturbed(save[s]), NEW l
    PROVE  Conflict(s) \in SaveType /\ SoundSave(s, Conflict(s), configs, l)
  <1>1. /\ save[s] \in SaveType /\ save[s].attempt \in 1..Attempts /\ save[s].changes \in 0..Attempts
        /\ save[s].changes >= save[s].attempt
    BY DEF SSInv, SSTypeOK, SaveType, Disturbed
  <1>2. CASE save[s].attempt < Attempts
    <2> DEFINE r == [NotSaving EXCEPT !.at = "scanning", !.attempt = save[s].attempt + 1, !.changes = save[s].changes]
    <2>1. save[s].attempt + 1 \in 1..Attempts
      BY <1>1, <1>2, SSAssumption
    <2>2. r \in SaveType
      BY <1>1, <2>1, ConfigsAre DEF NotSaving, SaveType
    <2>3. r.at = "scanning" /\ r.attempt = save[s].attempt + 1 /\ r.changes = save[s].changes
      BY DEF NotSaving
    <2>4. Conflict(s) = r
      BY <1>2 DEF Conflict
    <2> HIDE DEF r
    <2>5. SoundSave(s, r, configs, l)
      BY <1>1, <2>1, <2>3 DEF SoundSave
    <2> QED BY <2>2, <2>4, <2>5
  <1>3. CASE ~(save[s].attempt < Attempts)
    <2> DEFINE r == [NotSaving EXCEPT !.at = "conflict", !.changes = save[s].changes]
    <2>1. r \in SaveType
      BY <1>1, ConfigsAre DEF NotSaving, SaveType
    <2>2. r.at = "conflict" /\ r.changes = save[s].changes
      BY DEF NotSaving
    <2>3. Conflict(s) = r
      BY <1>3 DEF Conflict
    <2>4. save[s].changes >= Attempts
      BY <1>1, <1>3, SSAssumption
    <2> HIDE DEF r
    <2>5. SoundSave(s, r, configs, l)
      BY <2>2, <2>4 DEF SoundSave
    <2> QED BY <2>1, <2>3, <2>5
  <1> QED BY <1>2, <1>3

-----------------------------------------------------------------------------

LEMMA SaveGloballyKeeps == ASSUME SSInv, NEW s \in Savers, SaveGlobally(s) PROVE SSInv'
  <1>1. /\ save[s].at = "idle" /\ save' = [save EXCEPT ![s] = Goes(s, "scanning")]
        /\ UNCHANGED <<configs, edited>> /\ locked' = locked
    BY DEF SaveGlobally, Moves
  <1>2. "scanning" \in Stages
    BY DEF Stages
  <1>3. SoundSave(s, Goes(s, "scanning"), configs, locked')
    BY <1>1, <1>2, StageMoves DEF SoundSave, SaveType
  <1> QED BY <1>1, <1>2, <1>3, StageMoves, SaveMoves DEF SSInv, SSTypeOK

LEMMA ScansEarlyKeeps == ASSUME SSInv, NEW s \in Savers, ScansEarly(s) PROVE SSInv'
  <1>1. /\ save[s].at = "scanning" /\ UNCHANGED <<configs, edited>> /\ locked' = locked
        /\ locked \in [ConfigPlaces -> SUBSET Savers]
    BY DEF ScansEarly, Moves, SSInv, SSTypeOK
  <1>2. CASE save' = [save EXCEPT ![s] = Result("corrupt")]
    <2>1. "corrupt" \in Stages
      BY DEF Stages
    <2>2. SoundSave(s, Result("corrupt"), configs, locked')
      BY <2>1, Outcomes DEF SoundSave
    <2> QED BY <1>1, <1>2, <2>1, <2>2, Outcomes, SaveMoves
  <1>3. CASE save' = [save EXCEPT ![s] = [Goes(s, "scanning2") EXCEPT !.base = configs["early"]]]
    <2> DEFINE g == Goes(s, "scanning2")
               r == [g EXCEPT !.base = configs["early"]]
    <2>1. "scanning2" \in Stages
      BY DEF Stages
    <2>2. /\ g \in SaveType /\ g.at = "scanning2" /\ g.attempt = save[s].attempt /\ g.changes = save[s].changes
          /\ SoundSave(s, save[s], configs, locked)
      BY <2>1, StageMoves
    <2>3. configs["early"] \in ConfigType
      BY DEF SSInv, SSTypeOK, ConfigPlaces
    <2> HIDE DEF g
    <2>4. r \in SaveType /\ r.at = "scanning2" /\ r.base = configs["early"]
          /\ r.attempt = save[s].attempt /\ r.changes = save[s].changes
      BY <2>2, <2>3 DEF SaveType
    <2>5. save' = [save EXCEPT ![s] = r]
      BY <1>3 DEF g
    <2> HIDE DEF r
    <2>6. SoundSave(s, r, configs, locked')
      BY <1>1, <2>2, <2>4 DEF SoundSave
    <2> QED BY <1>1, <2>4, <2>5, <2>6, SaveMoves
  <1> QED BY <1>2, <1>3 DEF ScansEarly, Moves

\* A save that ends at its scan.
LEMMA ScanEnds ==
    ASSUME SSInv, NEW s \in Savers, NEW a \in {"corrupt", "no-entry", "shadowed"},
           save' = [save EXCEPT ![s] = Result(a)], UNCHANGED <<configs, edited, locked>>
    PROVE  SSInv'
  <1>1. a \in Stages /\ locked' \in [ConfigPlaces -> SUBSET Savers]
    BY DEF Stages, SSInv, SSTypeOK
  <1>2. SoundSave(s, Result(a), configs, locked')
    BY <1>1, Outcomes DEF SoundSave
  <1> QED BY <1>1, <1>2, Outcomes, SaveMoves

LEMMA ScansLateKeeps == ASSUME SSInv, NEW s \in Savers, ScansLate(s) PROVE SSInv'
  <1> DEFINE late == configs["late"]
             early == save[s].base
             winner == IF DefinesPlugin(late) THEN late ELSE early
             place == IF DefinesPlugin(late) THEN "late" ELSE "early"
             g == Goes(s, "locking")
             r == [g EXCEPT !.place = place, !.base = winner]
  <1>1. /\ save[s].at = "scanning2" /\ UNCHANGED <<configs, edited, locked>>
        /\ locked' \in [ConfigPlaces -> SUBSET Savers]
    BY DEF ScansLate, Moves, SSInv, SSTypeOK
  <1>2. \/ \E a \in {"corrupt", "no-entry"} : save' = [save EXCEPT ![s] = Result(a)]
        \/ save' = [save EXCEPT ![s] = r]
        \/ save' = [save EXCEPT ![s] = Goes(s, "explaining")]
    BY DEF ScansLate, Moves
  <1>3. CASE \E a \in {"corrupt", "no-entry"} : save' = [save EXCEPT ![s] = Result(a)]
    BY <1>1, <1>3, ScanEnds
  <1>4. CASE save' = [save EXCEPT ![s] = r]
    <2>1. "locking" \in Stages
      BY DEF Stages
    <2>2. /\ g \in SaveType /\ g.at = "locking" /\ g.attempt = save[s].attempt /\ g.changes = save[s].changes
          /\ SoundSave(s, save[s], configs, locked) /\ save[s] \in SaveType
      BY <2>1, StageMoves
    <2>3. winner \in ConfigType /\ place \in ConfigPlaces /\ IsGlobal(place)
      BY <2>2 DEF SSInv, SSTypeOK, ConfigPlaces, SaveType, IsGlobal
    <2>4. configs[place] = winner \/ save[s].changes >= save[s].attempt
      BY <1>1, <2>2 DEF SoundSave, Disturbed
    <2> HIDE DEF g, winner, place
    <2>5. r \in SaveType /\ r.at = "locking" /\ r.place = place /\ r.base = winner
          /\ r.attempt = save[s].attempt /\ r.changes = save[s].changes
      BY <2>2, <2>3 DEF SaveType
    <2> HIDE DEF r
    <2>6. SoundSave(s, r, configs, locked')
      BY <1>1, <2>2, <2>3, <2>4, <2>5 DEF SoundSave, Disturbed
    <2> QED BY <1>1, <1>4, <2>5, <2>6, SaveMoves
  <1>5. CASE save' = [save EXCEPT ![s] = Goes(s, "explaining")]
    <2>1. "explaining" \in Stages
      BY DEF Stages
    <2>2. SoundSave(s, Goes(s, "explaining"), configs, locked')
      BY <1>1, <2>1, StageMoves DEF SoundSave
    <2> QED BY <1>1, <1>5, <2>1, <2>2, StageMoves, SaveMoves
  <1> QED BY <1>2, <1>3, <1>4, <1>5

LEMMA ExplainsKeeps == ASSUME SSInv, NEW s \in Savers, Explains(s) PROVE SSInv'
  <1>1. UNCHANGED <<configs, edited, locked>>
    BY DEF Explains, Moves
  <1>2. \E a \in {"shadowed", "no-entry"} : save' = [save EXCEPT ![s] = Result(a)]
    BY DEF Explains, Moves
  <1> QED BY <1>1, <1>2, ScanEnds

LEMMA TakesLockKeeps == ASSUME SSInv, NEW s \in Savers, TakesLock(s) PROVE SSInv'
  <1> DEFINE p == save[s].place
  <1>1. /\ save[s].at = "locking" /\ save' = [save EXCEPT ![s] = Goes(s, "reading")]
        /\ UNCHANGED <<configs, edited>>
        /\ locked[p] = {} /\ locked' = [locked EXCEPT ![p] = {s}]
    BY DEF TakesLock, Moves
  <1>2. "reading" \in Stages
    BY DEF Stages
  <1>3. SoundSave(s, save[s], configs, locked) /\ IsGlobal(p) /\ p \in ConfigPlaces
    BY <1>1, <1>2, StageMoves DEF SoundSave, IsGlobal, ConfigPlaces
  <1>4. locked' \in [ConfigPlaces -> SUBSET Savers] /\ locked'[p] = {s}
    BY <1>1, <1>3 DEF SSInv, SSTypeOK
  <1>5. \A t \in Savers \ {s}, q \in ConfigPlaces : locked[q] = {t} => locked'[q] = {t}
    BY <1>1, <1>3 DEF SSInv, SSTypeOK
  <1>6. SoundSave(s, Goes(s, "reading"), configs, locked')
    BY <1>1, <1>2, <1>3, <1>4, StageMoves DEF SoundSave, Disturbed
  <1> QED BY <1>1, <1>2, <1>4, <1>5, <1>6, StageMoves, SaveMoves

LEMMA ReadsSourceKeeps == ASSUME SSInv, NEW s \in Savers, ReadsSource(s) PROVE SSInv'
  <1> DEFINE p == save[s].place
             now == configs[p]
             staging == [now EXCEPT !.holds = @ \cup {s}]
             g == Goes(s, "staged")
             r == [g EXCEPT !.base = now, !.staged = staging]
  <1>1. save[s].at = "reading" /\ UNCHANGED <<configs, edited>>
    BY DEF ReadsSource, Moves
  <1>2. /\ save[s] \in SaveType /\ g \in SaveType /\ g.at = "staged" /\ g.place = p
        /\ g.attempt = save[s].attempt /\ g.changes = save[s].changes
        /\ SoundSave(s, save[s], configs, locked)
    BY StageMoves DEF Stages
  <1>3. /\ IsGlobal(p) /\ p \in ConfigPlaces /\ locked[p] = {s}
        /\ now = save[s].base \/ Disturbed(save[s])
    BY <1>1, <1>2 DEF SoundSave, IsGlobal, ConfigPlaces
  <1>4. CASE HashOf(now) = HashOf(save[s].base)
    <2>1. save' = [save EXCEPT ![s] = r] /\ locked' = locked
      BY <1>4 DEF ReadsSource, Moves
    <2>2. now \in ConfigType
      BY <1>3 DEF SSInv, SSTypeOK
    <2> HIDE DEF now, g
    <2>3. staging \in ConfigType /\ HoldsAll(staging, now)
      BY <2>2 DEF ConfigType, HoldsAll
    <2> HIDE DEF staging
    <2>4. /\ r \in SaveType /\ r.at = "staged" /\ r.place = p /\ r.base = now /\ r.staged = staging
          /\ r.attempt = save[s].attempt /\ r.changes = save[s].changes
      BY <1>2, <2>2, <2>3 DEF SaveType
    <2> HIDE DEF r
    <2>5. SoundSave(s, r, configs, locked')
      BY <1>1, <1>2, <1>3, <2>1, <2>3, <2>4 DEF SoundSave, now
    <2> QED BY <1>1, <2>1, <2>4, <2>5, SaveMoves DEF SSInv, SSTypeOK
  <1>5. CASE HashOf(now) # HashOf(save[s].base)
    <2>1. save' = [save EXCEPT ![s] = Conflict(s)] /\ locked' = Unlocked(s)
      BY <1>5 DEF ReadsSource, Moves
    <2>2. Disturbed(save[s])
      BY <1>3, <1>5
    <2>3. Conflict(s) \in SaveType /\ SoundSave(s, Conflict(s), configs, locked')
      BY <2>2, Conflicts
    <2>4. /\ locked' \in [ConfigPlaces -> SUBSET Savers]
          /\ \A t \in Savers \ {s}, q \in ConfigPlaces : locked[q] = {t} => locked'[q] = {t}
      BY <1>3, <2>1, Unlocking
    <2> QED BY <1>1, <2>1, <2>3, <2>4, SaveMoves
  <1> QED BY <1>4, <1>5

LEMMA LooksAgainKeeps == ASSUME SSInv, NEW s \in Savers, LooksAgain(s) PROVE SSInv'
  <1> DEFINE p == save[s].place
  <1>1. save[s].at = "staged" /\ UNCHANGED <<configs, edited>>
    BY DEF LooksAgain, Moves
  <1>2. "checked" \in Stages
    BY DEF Stages
  <1>3. /\ save[s] \in SaveType /\ SoundSave(s, save[s], configs, locked)
    BY <1>2, StageMoves
  <1>4. /\ IsGlobal(p) /\ p \in ConfigPlaces /\ locked[p] = {s}
        /\ configs[p] = save[s].base \/ Disturbed(save[s])
    BY <1>1, <1>3 DEF SoundSave, IsGlobal, ConfigPlaces
  <1>5. CASE configs[p] = save[s].base
    <2>1. save' = [save EXCEPT ![s] = Goes(s, "checked")] /\ locked' = locked
      BY <1>5 DEF LooksAgain, Moves, Unchanged
    <2>2. SoundSave(s, Goes(s, "checked"), configs, locked')
      BY <1>1, <1>2, <1>3, <1>4, <1>5, <2>1, StageMoves DEF SoundSave
    <2> QED BY <1>1, <1>2, <2>1, <2>2, StageMoves, SaveMoves DEF SSInv, SSTypeOK
  <1>6. CASE configs[p] # save[s].base
    <2>1. save' = [save EXCEPT ![s] = Conflict(s)] /\ locked' = Unlocked(s)
      BY <1>6 DEF LooksAgain, Moves, Unchanged
    <2>2. Disturbed(save[s])
      BY <1>4, <1>6
    <2>3. Conflict(s) \in SaveType /\ SoundSave(s, Conflict(s), configs, locked')
      BY <2>2, Conflicts
    <2>4. /\ locked' \in [ConfigPlaces -> SUBSET Savers]
          /\ \A t \in Savers \ {s}, q \in ConfigPlaces : locked[q] = {t} => locked'[q] = {t}
      BY <1>4, <2>1, Unlocking
    <2> QED BY <1>1, <2>1, <2>3, <2>4, SaveMoves
  <1> QED BY <1>5, <1>6

LEMMA ReconcilesModeKeeps == ASSUME SSInv, NEW s \in Savers, ReconcilesMode(s) PROVE SSInv'
  <1> DEFINE p == save[s].place
  <1>1. save[s].at = "checked" /\ UNCHANGED <<configs, edited>> /\ locked' = locked
    BY DEF ReconcilesMode, Moves
  <1>2. "publishing" \in Stages /\ "staged" \in Stages
    BY DEF Stages
  <1>3. save[s] \in SaveType /\ SoundSave(s, save[s], configs, locked)
    BY <1>2, StageMoves
  <1>4. /\ IsGlobal(p) /\ p \in ConfigPlaces /\ locked[p] = {s} /\ HoldsAll(save[s].staged, save[s].base)
        /\ configs[p] = save[s].base \/ Disturbed(save[s])
    BY <1>1, <1>3 DEF SoundSave, IsGlobal, ConfigPlaces
  <1>5. CASE save' = [save EXCEPT ![s] = Goes(s, "publishing")]
    <2>1. SoundSave(s, Goes(s, "publishing"), configs, locked')
      BY <1>1, <1>2, <1>3, <1>4, StageMoves, ConfigsAre DEF SoundSave
    <2> QED BY <1>1, <1>2, <1>5, <2>1, StageMoves, SaveMoves DEF SSInv, SSTypeOK
  <1>6. CASE save' = [save EXCEPT ![s] = [Goes(s, "staged") EXCEPT !.staged.closed = TRUE]]
    <2> DEFINE g == Goes(s, "staged")
               staging == [save[s].staged EXCEPT !.closed = TRUE]
               r == [g EXCEPT !.staged = staging]
    <2>1. /\ g \in SaveType /\ g.at = "staged" /\ g.place = p /\ g.base = save[s].base /\ g.staged = save[s].staged
          /\ g.attempt = save[s].attempt /\ g.changes = save[s].changes
      BY <1>2, StageMoves
    <2>2. [g EXCEPT !.staged.closed = TRUE] = r
      BY <2>1
    <2>3. save[s].staged \in ConfigType
      BY <1>3 DEF SaveType
    <2>4. staging \in ConfigType /\ HoldsAll(staging, save[s].base)
      BY <1>4, <2>3 DEF ConfigType, HoldsAll
    <2> HIDE DEF g, staging
    <2>5. /\ r \in SaveType /\ r.at = "staged" /\ r.place = p /\ r.base = save[s].base /\ r.staged = staging
          /\ r.attempt = save[s].attempt /\ r.changes = save[s].changes
      BY <2>1, <2>4 DEF SaveType
    <2>6. save' = [save EXCEPT ![s] = r]
      BY <1>6, <2>2 DEF g
    <2> HIDE DEF r
    <2>7. SoundSave(s, r, configs, locked')
      BY <1>1, <1>3, <1>4, <2>4, <2>5 DEF SoundSave, Disturbed
    <2> QED BY <1>1, <2>5, <2>6, <2>7, SaveMoves DEF SSInv, SSTypeOK
  <1> QED BY <1>5, <1>6 DEF ReconcilesMode, Moves

LEMMA SaveForProjectKeeps == ASSUME SSInv, NEW s \in Savers, SaveForProject(s) PROVE SSInv'
  <1>1. save[s].at = "idle" /\ UNCHANGED <<configs, edited, locked>>
    BY DEF SaveForProject, Moves
  <1>2. CASE save' = [save EXCEPT ![s] = Result("corrupt")]
    BY <1>1, <1>2, ScanEnds
  <1>3. CASE save' = [save EXCEPT ![s] = [Goes(s, "publishing") EXCEPT
                        !.place = Project,
                        !.staged = [Config("plain") EXCEPT !.holds = configs[Project].holds \cup {s}]]]
    <2> DEFINE g == Goes(s, "publishing")
               staging == [Config("plain") EXCEPT !.holds = configs[Project].holds \cup {s}]
               r == [g EXCEPT !.place = Project, !.staged = staging]
    <2>1. /\ g \in SaveType /\ g.at = "publishing" /\ g.attempt = save[s].attempt /\ g.changes = save[s].changes
          /\ SoundSave(s, save[s], configs, locked) /\ save[s] \in SaveType
      BY StageMoves DEF Stages
    <2>2. save[s].attempt = 1 /\ save[s].changes \in 0..Attempts
      BY <1>1, <2>1 DEF SoundSave, SaveType
    <2>3. configs[Project] \in ConfigType
      BY ConfigsAre DEF SSInv, SSTypeOK
    <2>4. staging \in ConfigType /\ staging.holds = configs[Project].holds \cup {s}
      BY <2>3 DEF Config, ConfigType, Kinds
    <2>5. save' = [save EXCEPT ![s] = r]
      BY <1>3
    <2> HIDE DEF g, staging
    <2>6. /\ r \in SaveType /\ r.at = "publishing" /\ r.place = Project /\ r.staged = staging
          /\ r.attempt = 1 /\ r.changes = save[s].changes
      BY <2>1, <2>2, <2>4, ConfigsAre DEF SaveType
    <2> HIDE DEF r
    <2>7. SoundSave(s, r, configs, locked')
      BY <2>2, <2>4, <2>6, ConfigsAre, SSAssumption DEF SoundSave
    <2> QED BY <1>1, <2>5, <2>6, <2>7, SaveMoves DEF SSInv, SSTypeOK
  <1> QED BY <1>2, <1>3 DEF SaveForProject, Moves

-----------------------------------------------------------------------------

\* A file has changed: the saves that still look at it are disturbed, and one
\* that does not is known to be late.
LEMMA AlarmKeeps ==
    ASSUME SSInv, NEW p \in ConfigPlaces, NEW c \in ConfigType, NEW byHand \in BOOLEAN, NEW t \in Savers,
           configs' = [configs EXCEPT ![p] = c], save'[t] = Alarmed(p, byHand)[t],
           \A q \in ConfigPlaces : locked[q] = {t} => locked'[q] = {t},
           byHand \/ ~(IsGlobal(p) /\ save[t].place = p /\ PastTheLook(t))
    PROVE  save'[t] \in SaveType /\ SoundSave(t, save'[t], configs', locked')
  <1> DEFINE changes == IF p # Project /\ save[t].changes < Attempts THEN save[t].changes + 1 ELSE save[t].changes
             late == save[t].late \/ (save[t].place = p /\ (p = Project \/ (byHand /\ PastTheLook(t))))
             r == [save[t] EXCEPT !.changes = changes, !.late = late]
  <1>1. save[t] \in SaveType /\ SoundSave(t, save[t], configs, locked) /\ configs \in [ConfigPlaces -> ConfigType]
    BY DEF SSInv, SSTypeOK
  <1>2. CASE ~Working(t)
    <2>1. save'[t] = save[t]
      BY <1>2 DEF Alarmed
    <2> QED BY <1>1, <1>2, <2>1 DEF Working, SoundSave
  <1>3. CASE Working(t)
    <2>1. save'[t] = r
      BY <1>3 DEF Alarmed
    <2>2. /\ save[t].changes \in 0..Attempts /\ save[t].attempt \in 1..Attempts
          /\ save[t].late \in BOOLEAN /\ save[t].changes + 1 >= save[t].attempt
      BY <1>1, <1>3 DEF SaveType, SoundSave, Working
    <2>3. /\ changes \in 0..Attempts /\ changes >= save[t].changes
          /\ IsGlobal(p) => changes >= save[t].attempt
      BY <2>2, SSAssumption, ConfigsAre
    <2>4. late \in BOOLEAN /\ (save[t].late => late)
      BY <2>2
    <2>5. save[t].place = p /\ (p = Project \/ (IsGlobal(p) /\ PastTheLook(t))) => late
      OBVIOUS
    <2> HIDE DEF changes, late
    <2>6. /\ r \in SaveType /\ r.at = save[t].at /\ r.place = save[t].place /\ r.attempt = save[t].attempt
          /\ r.base = save[t].base /\ r.staged = save[t].staged /\ r.late = late /\ r.changes = changes
      BY <1>1, <2>3, <2>4 DEF SaveType
    <2> HIDE DEF r
    <2>7. /\ r.changes + 1 >= r.attempt
          /\ Disturbed(save[t]) \/ IsGlobal(p) => Disturbed(r)
      BY <2>2, <2>3, <2>6 DEF Disturbed
    <2>8. \A q \in ConfigPlaces : q # p => configs'[q] = configs[q]
      BY <1>1
    <2>9. r.at \notin {"idle", "conflict"}
      BY <1>3, <2>6 DEF Working
    <2>10. r.at = "scanning2" => configs'["early"] = r.base \/ Disturbed(r)
      BY <1>1, <2>6, <2>7, <2>8 DEF SoundSave, IsGlobal, ConfigPlaces
    <2>11. r.at \in {"locking", "reading", "staged", "checked"} =>
              IsGlobal(r.place) /\ (configs'[r.place] = r.base \/ Disturbed(r))
      BY <1>1, <2>6, <2>7, <2>8 DEF SoundSave, IsGlobal, ConfigPlaces
    <2>12. r.at \in {"reading", "staged", "checked", "publishing"} /\ IsGlobal(r.place) => locked'[r.place] = {t}
      BY <1>1, <2>6 DEF SoundSave, IsGlobal, ConfigPlaces
    <2>13. r.at \in {"checked", "publishing"} /\ IsGlobal(r.place) => r.late \/ configs'[r.place] = r.base
      BY <1>1, <2>4, <2>5, <2>6, <2>8 DEF SoundSave, IsGlobal, ConfigPlaces, PastTheLook
    <2>14. r.at = "publishing" =>
              /\ r.place \in ConfigPlaces
              /\ r.place = Project => r.late \/ configs'[Project].holds \subseteq r.staged.holds
      BY <1>1, <2>4, <2>5, <2>6, <2>8 DEF SoundSave
    <2>15. r.at \in {"staged", "checked", "publishing"} /\ IsGlobal(r.place) => HoldsAll(r.staged, r.base)
      BY <1>1, <2>6 DEF SoundSave
    <2>16. SoundSave(t, r, configs', locked')
      BY <2>7, <2>9, <2>10, <2>11, <2>12, <2>13, <2>14, <2>15 DEF SoundSave
    <2> QED BY <2>1, <2>6, <2>16
  <1> QED BY <1>2, <1>3

\* An edit keeps what is there and never widens a mode.
LEMMA EditIs ==
    ASSUME SSInv, NEW p \in ConfigPlaces, EditByHand(p)
    PROVE  \E c \in ConfigType : configs' = [configs EXCEPT ![p] = c] /\ HoldsAll(c, configs[p])
  <1>1. configs \in [ConfigPlaces -> ConfigType] /\ configs[p] \in ConfigType /\ edited \in Nat
    BY DEF SSInv, SSTypeOK
  <1>2. CASE \E k \in KindsOf(p) \ {"missing", IF p = Project THEN "own" ELSE "plain"} :
                configs' = [configs EXCEPT ![p].kind = k, ![p].holds = @ \cup {edited}]
    <2>1. PICK k \in Kinds : configs' = [configs EXCEPT ![p].kind = k, ![p].holds = @ \cup {edited}]
      BY <1>2, ConfigsAre
    <2> DEFINE d == [configs[p] EXCEPT !.kind = k, !.holds = @ \cup {edited}]
    <2>2. configs' = [configs EXCEPT ![p] = d]
      BY <1>1, <2>1
    <2>3. d \in ConfigType /\ HoldsAll(d, configs[p])
      BY <1>1 DEF ConfigType, HoldsAll
    <2> HIDE DEF d
    <2> QED BY <2>2, <2>3
  <1>3. CASE configs' = [configs EXCEPT ![p].closed = TRUE]
    <2> DEFINE d == [configs[p] EXCEPT !.closed = TRUE]
    <2>1. configs' = [configs EXCEPT ![p] = d]
      BY <1>1, <1>3
    <2>2. d \in ConfigType /\ HoldsAll(d, configs[p])
      BY <1>1 DEF ConfigType, HoldsAll
    <2> HIDE DEF d
    <2> QED BY <2>1, <2>2
  <1> QED BY <1>2, <1>3 DEF EditByHand

LEMMA EditKeeps == ASSUME SSInv, NEW p \in ConfigPlaces, EditByHand(p) PROVE SSInv'
  <1>1. PICK c \in ConfigType : configs' = [configs EXCEPT ![p] = c]
    BY EditIs
  <1>2. /\ edited' = edited + 1 /\ save' = Alarmed(p, TRUE) /\ locked' = locked
    BY DEF EditByHand
  <1>3. \A t \in Savers : save'[t] = Alarmed(p, TRUE)[t]
    BY <1>2
  <1>4. \A t \in Savers : save'[t] \in SaveType /\ SoundSave(t, save'[t], configs', locked')
    <2> TAKE t \in Savers
    <2>1. TRUE \in BOOLEAN /\ \A q \in ConfigPlaces : locked[q] = {t} => locked'[q] = {t}
      BY <1>2
    <2> QED BY <1>1, <1>3, <2>1, AlarmKeeps
  <1>5. save' \in [Savers -> SaveType]
    BY <1>2, <1>4 DEF Alarmed
  <1>6. configs' \in [ConfigPlaces -> ConfigType] /\ locked' \in [ConfigPlaces -> SUBSET Savers] /\ edited' \in Nat
    BY <1>1, <1>2 DEF SSInv, SSTypeOK
  <1> QED BY <1>4, <1>5, <1>6 DEF SSInv, SSTypeOK

LEMMA PublishesKeeps == ASSUME SSInv, NEW s \in Savers, Publishes(s) PROVE SSInv'
  <1> DEFINE p == save[s].place
             c == save[s].staged
  <1>1. /\ save[s].at = "publishing" /\ configs' = [configs EXCEPT ![p] = c]
        /\ save' = [Alarmed(p, FALSE) EXCEPT ![s] = Result("ok")]
        /\ locked' = Unlocked(s) /\ edited' = edited
    BY DEF Publishes
  <1>2. save[s] \in SaveType /\ SoundSave(s, save[s], configs, locked)
    BY DEF SSInv, SSTypeOK
  <1>3. p \in ConfigPlaces /\ c \in ConfigType /\ (IsGlobal(p) => locked[p] = {s})
    BY <1>1, <1>2 DEF SoundSave, SaveType
  <1>4. /\ locked' \in [ConfigPlaces -> SUBSET Savers]
        /\ \A t \in Savers \ {s}, q \in ConfigPlaces : locked[q] = {t} => locked'[q] = {t}
    BY <1>1, <1>3, Unlocking
  <1>5. save'[s] = Result("ok") /\ \A t \in Savers \ {s} : save'[t] = Alarmed(p, FALSE)[t]
    BY <1>1 DEF Alarmed
  <1>6. ASSUME NEW t \in Savers PROVE save'[t] \in SaveType /\ SoundSave(t, save'[t], configs', locked')
    <2>1. CASE t = s
      <3>1. "ok" \in Stages
        BY DEF Stages
      <3> QED BY <1>5, <2>1, <3>1, Outcomes DEF SoundSave
    <2>2. CASE t # s
      <3>1. save'[t] = Alarmed(p, FALSE)[t] /\ FALSE \in BOOLEAN
        BY <1>5, <2>2
      <3>2. \A q \in ConfigPlaces : locked[q] = {t} => locked'[q] = {t}
        BY <1>4, <2>2
      <3>3. SoundSave(t, save[t], configs, locked)
        BY DEF SSInv
      <3>4. ~(IsGlobal(p) /\ save[t].place = p /\ PastTheLook(t))
        BY <1>3, <2>2, <3>3 DEF SoundSave, PastTheLook
      <3> QED BY <1>1, <1>3, <3>1, <3>2, <3>4, AlarmKeeps
    <2> QED BY <2>1, <2>2
  <1>7. save' \in [Savers -> SaveType]
    BY <1>1, <1>6 DEF Alarmed
  <1>8. configs' \in [ConfigPlaces -> ConfigType] /\ edited' \in Nat
    BY <1>1, <1>3 DEF SSInv, SSTypeOK
  <1> QED BY <1>4, <1>6, <1>7, <1>8 DEF SSInv, SSTypeOK

LEMMA SSInductive == ASSUME SSInv, [SSNext]_ssVars PROVE SSInv'
  <1>1. CASE UNCHANGED ssVars
    BY <1>1 DEF ssVars, SSInv, SSTypeOK
  <1> QED BY <1>1, EditKeeps, SaveGloballyKeeps, ScansEarlyKeeps, ScansLateKeeps, ExplainsKeeps, TakesLockKeeps,
             ReadsSourceKeeps, LooksAgainKeeps, ReconcilesModeKeeps, SaveForProjectKeeps, PublishesKeeps DEF SSNext

\* A config keeps what it holds, but for a rename that was late.
ConfigKept(p) ==
    \/ configs[p].holds \subseteq configs'[p].holds
       /\ (configs[p].closed => configs'[p].closed \/ p = Project)
    \/ \E s \in Savers : save[s].place = p /\ save[s].at = "publishing" /\ save[s].late

LEMMA ConfigsKept == ASSUME SSInv, SSNext, NEW p \in ConfigPlaces PROVE ConfigKept(p)
  <1>0. configs \in [ConfigPlaces -> ConfigType]
    BY DEF SSInv, SSTypeOK
  <1>1. CASE configs' = configs
    BY <1>1 DEF ConfigKept
  <1>2. ASSUME NEW q \in ConfigPlaces, EditByHand(q) PROVE ConfigKept(p)
    <2>1. PICK c \in ConfigType : configs' = [configs EXCEPT ![q] = c] /\ HoldsAll(c, configs[q])
      BY <1>2, EditIs
    <2> QED BY <1>0, <2>1 DEF ConfigKept, HoldsAll
  <1>3. ASSUME NEW s \in Savers, Publishes(s) PROVE ConfigKept(p)
    <2>1. save[s].at = "publishing" /\ configs' = [configs EXCEPT ![save[s].place] = save[s].staged]
      BY <1>3 DEF Publishes
    <2>2. SoundSave(s, save[s], configs, locked)
      BY DEF SSInv
    <2>3. CASE p # save[s].place
      BY <1>0, <2>1, <2>3 DEF ConfigKept
    <2>4. CASE p = save[s].place /\ ~save[s].late
      <3>1. configs'[p] = save[s].staged
        BY <1>0, <2>1, <2>4
      <3> QED BY <2>1, <2>2, <2>4, <3>1, ConfigsAre DEF SoundSave, ConfigKept, HoldsAll
    <2>5. CASE p = save[s].place /\ save[s].late
      BY <2>1, <2>5 DEF ConfigKept
    <2> QED BY <2>3, <2>4, <2>5
  <1> QED BY <1>1, <1>2, <1>3 DEF SSNext, SaveGlobally, ScansEarly, ScansLate, Explains, TakesLock, ReadsSource,
             LooksAgain, ReconcilesMode, SaveForProject, Moves

\* No config loses what it holds, and no narrowed mode is widened, but to a
\* rename that a change by hand had come too late for; and a save gives up over
\* conflicts only after as many changes as attempts: for any number of terminals
\* and edits.
THEOREM SavesAreKeptHolds == SSSpec => SavesAreKept
  <1>1. SSInit => SSInv
    BY SSInitially
  <1>2. SSInv /\ [SSNext]_ssVars => SSInv'
    BY SSInductive
  <1>3. ASSUME SSInv, SSInv', SSNext
        PROVE  /\ \A p \in ConfigPlaces : ConfigKept(p)
               /\ \A s \in Savers : save'[s].at = "conflict" => save'[s].changes >= Attempts
    <2>1. \A s \in Savers : SoundSave(s, save[s], configs, locked)'
      BY <1>3 DEF SSInv
    <2>2. \A s \in Savers : save'[s].at = "conflict" => save'[s].changes >= Attempts
      BY <2>1 DEF SoundSave
    <2> QED BY <1>3, <2>2, ConfigsKept
  <1>4. SSInv /\ SSInv' /\ [SSNext]_ssVars =>
          [/\ \A p \in ConfigPlaces :
                \/ configs[p].holds \subseteq configs'[p].holds
                   /\ (configs[p].closed => configs'[p].closed \/ p = Project)
                \/ \E s \in Savers : save[s].place = p /\ save[s].at = "publishing" /\ save[s].late
           /\ \A s \in Savers : save'[s].at = "conflict" => save'[s].changes >= Attempts]_ssVars
    BY <1>3 DEF ConfigKept
  <1> QED BY <1>1, <1>2, <1>4, PTL DEF SSSpec, SavesAreKept

-----------------------------------------------------------------------------
(* TuiControls: who the server is known to have been, what is known of the *)
(* files through what, and how far a toggle has come.                      *)

OverrideValue == [on : BOOLEAN, by : {"nobody", "me", "peer"}]
ReadType == [who : {"watch", "press"}, value : OverrideValue, read : BOOLEAN, older : BOOLEAN]
Instances == 0..MaxServers

EnvInv ==
    /\ live \in Servers /\ local \in SUBSET Servers
    /\ override \in [Servers -> OverrideValue]
    /\ landed \in Instances

\* Nobody is known that has not run, and nobody is settled while the files of
\* another are looked for.
AdoptionType == [at : {"none", "probing", "resolving", "proving"}, answer : Instances, late : BOOLEAN]
IdInv ==
    /\ owner \in Instances /\ settled \in Instances /\ available \in BOOLEAN /\ adoption \in AdoptionType
    /\ owner <= live /\ settled <= live /\ adoption.answer <= live
    /\ adoption.at = "resolving" => settled = Nobody

\* A toggle goes to an instance that has run; when that one answers after the
\* write, it ran when the toggle landed.
PressType == [at : {"idle", "adopting", "gate", "proving", "reading", "writing", "probing", "confirming", "announced"},
              owner : Instances, late : BOOLEAN, next : BOOLEAN, answer : Instances]
PressInv ==
    /\ press \in PressType /\ press.owner <= live
    /\ press.at \in {"idle", "adopting", "gate", "proving", "reading", "writing"} => press.answer = Nobody
    /\ press.at \in {"proving", "reading", "writing", "probing"} => press.owner # Nobody
    /\ press.at = "writing" => press.owner \in local
    /\ press.at = "probing" => /\ press.owner <= landed /\ landed <= live
                               /\ press.answer # Nobody => landed <= press.answer /\ press.answer <= live
    /\ press.at \in {"confirming", "announced"} => landed = press.owner

\* A toggle has one read at a time, none once its epoch is over.
OwnReads ==
    /\ \A k \in 1..Len(reads) : reads[k].who = "press" => press.at \in {"reading", "confirming"} /\ ~press.late
    /\ \A j, k \in 1..Len(reads) : reads[j].who = "press" /\ reads[k].who = "press" => j = k

\* What is known of the files is known through a filesystem that is shared.
SharedInv ==
    shared = "yes" \/ watching # "no" \/ loaded \/ mirror # Unset \/ reads # <<>> => settled \in local

\* With no change unseen, the last read gives the file as it is, or has done so
\* when a later one was shown first.
ReadsOrdered == \A j, k \in 1..Len(reads) : j < k /\ reads[k].older => reads[j].older
LastIsDone == reads = <<>> \/ reads[Len(reads)].older
MirrorInv ==
    watching = "yes" =>
        IF LastIsDone THEN mirror = override[settled]
        ELSE reads[Len(reads)].read => reads[Len(reads)].value = override[settled]

FilesInv ==
    /\ shared \in {"unknown", "yes", "no"} /\ proving \in BOOLEAN
    /\ watching \in {"no", "yes", "changed"} /\ loaded \in BOOLEAN
    /\ mirror \in OverrideValue /\ reads \in Seq(ReadType)
    /\ SharedInv /\ ReadsOrdered /\ MirrorInv

TCInv == EnvInv /\ IdInv /\ PressInv /\ OwnReads /\ FilesInv

LEMMA InstancesAre ==
    /\ MaxServers \in Nat \ {0} /\ Servers = 1..MaxServers /\ Instances = 0..MaxServers /\ Nobody = 0
    /\ \A l \in SUBSET Servers : Nobody \notin l /\ l \subseteq Instances
    /\ Unset \in OverrideValue /\ NoFlight \in AdoptionType /\ Started \in AdoptionType
    /\ NoFlight.answer = Nobody /\ NoFlight.at = "none" /\ Started.answer = Nobody /\ Started.at = "probing"
    /\ NoPress \in PressType /\ NoPress.at = "idle" /\ NoPress.owner = Nobody /\ NoPress.answer = Nobody
    /\ ~NoPress.late
  <1>1. MaxServers \in Nat \ {0} /\ Servers = 1..MaxServers /\ Instances = 0..MaxServers /\ Nobody = 0 /\ 0 \in Instances
    BY TCAssumption DEF Servers, Instances, Nobody
  <1>2. \A l \in SUBSET Servers : Nobody \notin l /\ l \subseteq Instances
    BY <1>1
  <1>3. TRUE \in BOOLEAN /\ FALSE \in BOOLEAN
    OBVIOUS
  <1>4. Unset \in OverrideValue
    BY <1>3 DEF Unset, OverrideValue
  <1>5. NoFlight \in AdoptionType /\ NoFlight.answer = Nobody /\ NoFlight.at = "none"
    BY <1>1, <1>3 DEF NoFlight, AdoptionType
  <1>6. Started \in AdoptionType /\ Started.answer = Nobody /\ Started.at = "probing"
    BY <1>5 DEF Started, AdoptionType
  <1>7. NoPress \in PressType /\ NoPress.at = "idle" /\ NoPress.owner = Nobody /\ NoPress.answer = Nobody /\ ~NoPress.late
    BY <1>1, <1>3 DEF NoPress, PressType
  <1> QED BY <1>1, <1>2, <1>4, <1>5, <1>6, <1>7

LEMMA EmptyReads == <<>> \in Seq(ReadType) /\ 1..Len(<<>>) = {}
  OBVIOUS

\* A terminal that knows nothing of the files.
LEMMA NothingKnown ==
    ASSUME shared \in {"unknown", "no"}, proving = FALSE, watching = "no", loaded = FALSE, mirror = Unset, reads = <<>>
    PROVE  FilesInv /\ OwnReads
  <1>1. proving \in BOOLEAN /\ loaded \in BOOLEAN
    OBVIOUS
  <1>2. SharedInv /\ MirrorInv
    BY DEF SharedInv, MirrorInv
  <1>3. ReadsOrdered /\ OwnReads /\ reads \in Seq(ReadType)
    BY EmptyReads DEF ReadsOrdered, OwnReads
  <1> QED BY <1>1, <1>2, <1>3, InstancesAre DEF FilesInv

LEMMA TCInitially == ASSUME TCInit PROVE TCInv
  <1>1. /\ live = 1 /\ local \in SUBSET Servers /\ override = [i \in Servers |-> Unset] /\ landed = Nobody
        /\ owner = Nobody /\ settled = Nobody /\ available = TRUE /\ adoption = NoFlight
        /\ shared = "unknown" /\ proving = FALSE /\ watching = "no" /\ loaded = FALSE
        /\ mirror = Unset /\ reads = <<>> /\ press = NoPress
    BY DEF TCInit
  <1>2. EnvInv
    BY <1>1, InstancesAre DEF EnvInv
  <1>3. IdInv
    BY <1>1, InstancesAre DEF IdInv
  <1>4. PressInv
    BY <1>1, InstancesAre DEF PressInv
  <1>5. FilesInv /\ OwnReads
    BY <1>1, NothingKnown
  <1> QED BY <1>2, <1>3, <1>4, <1>5 DEF TCInv

-----------------------------------------------------------------------------
(* What leaves the parts of the invariant alone.                           *)

LEMMA EnvStays == ASSUME TCInv, UNCHANGED <<live, local, override, landed>> PROVE EnvInv'
  BY DEF TCInv, EnvInv

LEMMA IdStays == ASSUME TCInv, UNCHANGED <<live, idVars>> PROVE IdInv'
  BY DEF TCInv, IdInv, idVars

LEMMA PressStays == ASSUME TCInv, UNCHANGED <<live, local, press, landed>> PROVE PressInv'
  BY DEF TCInv, PressInv

LEMMA FilesStay ==
    ASSUME TCInv, UNCHANGED <<shared, watching, loaded, mirror, reads, settled, local, override>>, proving' \in BOOLEAN
    PROVE  FilesInv'
  BY DEF TCInv, FilesInv, SharedInv, ReadsOrdered, MirrorInv, LastIsDone

LEMMA OwnReadsStay ==
    ASSUME TCInv, UNCHANGED reads, press' = press \/ press.at \notin {"reading", "confirming"} \/ press.late
    PROVE  OwnReads'
  BY DEF TCInv, OwnReads

\* A new epoch knows nothing of the files.
LEMMA InvalidatedKeeps ==
    ASSUME TCInv, NEW x \in {"unknown", "no"}, Invalidated(x)
    PROVE  FilesInv' /\ OwnReads'
  <1>1. /\ shared' = x /\ proving' = FALSE /\ watching' = "no" /\ loaded' = FALSE /\ mirror' = Unset /\ reads' = <<>>
    BY DEF Invalidated
  <1>2. shared' \in {"unknown", "no"}
    BY <1>1
  <1>3. SharedInv' /\ MirrorInv'
    BY <1>1, <1>2 DEF SharedInv, MirrorInv
  <1>4. ReadsOrdered' /\ OwnReads' /\ reads' \in Seq(ReadType)
    BY <1>1, EmptyReads DEF ReadsOrdered, OwnReads
  <1>5. proving' \in BOOLEAN /\ loaded' \in BOOLEAN
    BY <1>1
  <1> QED BY <1>1, <1>2, <1>3, <1>4, <1>5, InstancesAre DEF FilesInv

LEMMA OutdatedIs ==
    ASSUME TCInv, UNCHANGED <<live, local, landed>>, press' = Outdated(press)
    PROVE  PressInv'
  <1>1. press \in PressType
    BY DEF TCInv, PressInv
  <1>2. (press.late \/ press.at # "idle") \in BOOLEAN
    OBVIOUS
  <1>3. /\ press' \in PressType /\ press'.at = press.at /\ press'.owner = press.owner
        /\ press'.next = press.next /\ press'.answer = press.answer
    BY <1>1, <1>2 DEF Outdated, PressType
  <1> QED BY <1>3 DEF TCInv, PressInv

LEMMA NoPressKeeps ==
    ASSUME TCInv, live' = live, press' = NoPress
    PROVE  PressInv'
  BY InstancesAre DEF TCInv, EnvInv, PressInv

LEMMA AdoptionEndsIs ==
    ASSUME TCInv, NEW ok \in BOOLEAN, AdoptionEnds(ok), UNCHANGED <<live, local, landed>>
    PROVE  /\ adoption' \in {Started, NoFlight}
           /\ PressInv'
           /\ reads' = reads => OwnReads'
  <1>1. adoption' \in {Started, NoFlight}
    BY DEF AdoptionEnds
  <1>2. \/ press' = press
        \/ press.at = "adopting" /\ (press' = NoPress \/ press' = [press EXCEPT !.at = "gate"])
    BY DEF AdoptionEnds
  <1>3. PressInv'
    <2>1. CASE press' = press
      BY <2>1, PressStays
    <2>2. CASE press' = NoPress
      BY <2>2, NoPressKeeps
    <2>3. CASE press.at = "adopting" /\ press' = [press EXCEPT !.at = "gate"]
      BY <2>3 DEF TCInv, PressInv, PressType
    <2> QED BY <1>2, <2>1, <2>2, <2>3
  <1>4. reads' = reads => OwnReads'
    BY <1>2, OwnReadsStay
  <1> QED BY <1>1, <1>3, <1>4

-----------------------------------------------------------------------------
(* The server and who it is.                                               *)

LEMMA RestartKeeps == ASSUME TCInv, Restart PROVE TCInv'
  <1>1. /\ live < MaxServers /\ live' = live + 1
        /\ UNCHANGED <<local, override, idVars, filesVars, press, landed>>
    BY DEF Restart
  <1>2. live \in Servers /\ live' \in Servers
    BY <1>1, InstancesAre DEF TCInv, EnvInv
  <1>3. EnvInv'
    BY <1>1, <1>2 DEF TCInv, EnvInv
  <1>4. IdInv'
    BY <1>1, <1>2, InstancesAre DEF TCInv, IdInv, idVars, AdoptionType
  <1>5. PressInv'
    BY <1>1, <1>2, InstancesAre DEF TCInv, EnvInv, PressInv, PressType
  <1>6. OwnReads' /\ FilesInv'
    <2>1. UNCHANGED <<shared, watching, loaded, mirror, reads, settled, local, override, proving, press>>
      BY <1>1 DEF idVars, filesVars
    <2>2. proving' \in BOOLEAN
      BY <2>1 DEF TCInv, FilesInv
    <2> QED BY <2>1, <2>2, FilesStay, OwnReadsStay
  <1> QED BY <1>3, <1>4, <1>5, <1>6 DEF TCInv

\* A write to an override file that is watched is unseen at first.
LEMMA WrittenKeeps ==
    ASSUME TCInv, NEW i \in Servers, NEW v \in OverrideValue, Written(i, v),
           UNCHANGED <<local, settled, shared, proving, loaded, mirror, reads>>
    PROVE  FilesInv' /\ override' \in [Servers -> OverrideValue]
  <1>1. override' = [override EXCEPT ![i] = v] /\ override \in [Servers -> OverrideValue]
    BY DEF Written, TCInv, EnvInv
  <1>2. /\ watching' = (IF watching # "no" /\ settled = i THEN "changed" ELSE watching)
        /\ watching \in {"no", "yes", "changed"}
    BY DEF Written, TCInv, FilesInv
  <1>3. watching # "no" => settled \in Servers
    BY DEF TCInv, FilesInv, SharedInv, EnvInv
  <1>4. watching' = "yes" => watching = "yes" /\ override'[settled] = override[settled]
    BY <1>1, <1>2, <1>3
  <1>5. MirrorInv'
    BY <1>4 DEF TCInv, FilesInv, MirrorInv, LastIsDone
  <1>6. watching' \in {"no", "yes", "changed"} /\ (watching' # "no" => watching # "no")
    BY <1>2
  <1>7. SharedInv' /\ ReadsOrdered'
    BY <1>6 DEF TCInv, FilesInv, SharedInv, ReadsOrdered
  <1> QED BY <1>1, <1>5, <1>6, <1>7 DEF TCInv, FilesInv

LEMMA PeerTogglesKeeps == ASSUME TCInv, PeerToggles PROVE TCInv'
  <1>1. /\ Written(live, [on |-> ~override[live].on, by |-> "peer"])
        /\ UNCHANGED <<live, local, idVars, shared, proving, loaded, mirror, reads, press, landed>>
    BY DEF PeerToggles
  <1>2. settled' = settled /\ live \in Servers
    BY <1>1 DEF idVars, TCInv, EnvInv
  <1>3. (~override[live].on) \in BOOLEAN
    OBVIOUS
  <1>4. [on |-> ~override[live].on, by |-> "peer"] \in OverrideValue
    BY <1>3 DEF OverrideValue
  <1>5. FilesInv' /\ override' \in [Servers -> OverrideValue]
    BY <1>1, <1>2, <1>4, WrittenKeeps
  <1>6. EnvInv'
    BY <1>1, <1>5 DEF TCInv, EnvInv
  <1> QED BY <1>1, <1>5, <1>6, IdStays, PressStays, OwnReadsStay DEF TCInv

LEMMA HintArrivesKeeps == ASSUME TCInv, HintArrives PROVE TCInv'
  <1>1. /\ adoption' = (IF adoption.at = "none" THEN Started ELSE [adoption EXCEPT !.late = TRUE])
        /\ available' = FALSE /\ Invalidated("unknown") /\ press' = Outdated(press)
        /\ UNCHANGED <<live, local, override, owner, settled, landed>>
    BY DEF HintArrives
  <1>2. TRUE \in BOOLEAN /\ FALSE \in BOOLEAN
    OBVIOUS
  <1>3. /\ adoption' \in AdoptionType /\ adoption'.answer <= live
        /\ adoption'.at = "resolving" => adoption.at = "resolving"
    <2>1. CASE adoption.at = "none"
      BY <1>1, <2>1, InstancesAre DEF TCInv, EnvInv
    <2>2. CASE adoption.at # "none"
      BY <1>1, <1>2, <2>2 DEF TCInv, IdInv, AdoptionType
    <2> QED BY <2>1, <2>2
  <1>4. IdInv'
    BY <1>1, <1>2, <1>3 DEF TCInv, IdInv
  <1> QED BY <1>1, <1>4, EnvStays, InvalidatedKeeps, OutdatedIs DEF TCInv

LEMMA AdoptPathsKeeps == ASSUME TCInv, AdoptPaths PROVE TCInv'
  <1>1. /\ adoption' = Started
        /\ UNCHANGED <<envVars, owner, settled, available, filesVars, press, landed>>
    BY DEF AdoptPaths
  <1>2. /\ UNCHANGED <<live, local, override, landed, press, reads>>
        /\ UNCHANGED <<shared, watching, loaded, mirror, reads, settled, proving>>
    BY <1>1 DEF envVars, filesVars
  <1>3. IdInv'
    BY <1>1, <1>2, InstancesAre DEF TCInv, EnvInv, IdInv
  <1>4. proving' \in BOOLEAN
    BY <1>2 DEF TCInv, FilesInv
  <1> QED BY <1>2, <1>3, <1>4, EnvStays, PressStays, OwnReadsStay, FilesStay DEF TCInv

LEMMA RespondsKeeps == ASSUME TCInv, Responds PROVE TCInv'
  <1>1. /\ adoption.at = "probing" /\ adoption' = [adoption EXCEPT !.answer = live]
        /\ UNCHANGED <<envVars, owner, settled, available, filesVars, press, landed>>
    BY DEF Responds
  <1>2. /\ UNCHANGED <<live, local, override, landed, press, reads>>
        /\ UNCHANGED <<shared, watching, loaded, mirror, reads, settled, proving>>
    BY <1>1 DEF envVars, filesVars
  <1>3. live \in Instances /\ live <= live
    BY InstancesAre DEF TCInv, EnvInv
  <1>4. adoption' \in AdoptionType /\ adoption'.answer = live /\ adoption'.at = "probing"
    BY <1>1, <1>3 DEF TCInv, IdInv, AdoptionType
  <1>5. IdInv'
    BY <1>1, <1>2, <1>3, <1>4 DEF TCInv, IdInv
  <1>6. proving' \in BOOLEAN
    BY <1>2 DEF TCInv, FilesInv
  <1> QED BY <1>2, <1>5, <1>6, EnvStays, PressStays, OwnReadsStay, FilesStay DEF TCInv

\* An adoption that ends leaves everything as it is known, but for a proof that
\* may begin.
LEMMA AdoptionOver ==
    ASSUME TCInv, NEW ok \in BOOLEAN, AdoptionEnds(ok), available' \in BOOLEAN, proving' \in BOOLEAN,
           UNCHANGED <<envVars, landed, owner, settled>>,
           UNCHANGED <<shared, watching, loaded, mirror, reads>>
    PROVE  TCInv'
  <1>1. UNCHANGED <<live, local, override, landed>>
    BY DEF envVars
  <1>2. adoption' \in {Started, NoFlight} /\ PressInv' /\ OwnReads'
    BY <1>1, AdoptionEndsIs
  <1>3. IdInv'
    BY <1>1, <1>2, InstancesAre DEF TCInv, EnvInv, IdInv
  <1> QED BY <1>1, <1>2, <1>3, EnvStays, FilesStay DEF TCInv

LEMMA AnswerArrivesKeeps == ASSUME TCInv, AnswerArrives PROVE TCInv'
  <1>1. adoption.at = "probing" /\ UNCHANGED <<envVars, landed>>
    BY DEF AnswerArrives
  <1>2. TRUE \in BOOLEAN /\ FALSE \in BOOLEAN /\ available \in BOOLEAN /\ proving \in BOOLEAN
    BY DEF TCInv, IdInv, FilesInv
  <1>3. (proving \/ shared # "yes") \in BOOLEAN
    OBVIOUS
  <1>4. CASE AdoptionEnds(FALSE) /\ available' \in BOOLEAN /\ UNCHANGED <<owner, settled, filesVars>>
    BY <1>1, <1>2, <1>4, AdoptionOver DEF filesVars
  <1>5. CASE /\ available' = TRUE /\ proving' = (proving \/ shared # "yes") /\ AdoptionEnds(TRUE)
             /\ UNCHANGED <<owner, settled, shared, watching, loaded, mirror, reads>>
    BY <1>1, <1>2, <1>3, <1>5, AdoptionOver
  <1>6. CASE /\ available' = TRUE /\ owner' = adoption.answer /\ settled' = Nobody /\ Invalidated("unknown")
             /\ adoption' = [adoption EXCEPT !.at = "resolving", !.answer = Nobody]
             /\ press' = (IF press.at = "adopting" THEN press ELSE Outdated(press))
    <2>1. UNCHANGED <<live, local, override, landed>>
      BY <1>1 DEF envVars
    <2>2. /\ adoption' \in AdoptionType /\ adoption'.answer = Nobody
          /\ adoption.answer \in Instances /\ adoption.answer <= live
      BY <1>6, InstancesAre DEF TCInv, IdInv, AdoptionType
    <2>3. IdInv'
      BY <1>2, <1>6, <2>1, <2>2, InstancesAre DEF TCInv, EnvInv, IdInv
    <2>4. PressInv'
      BY <1>6, <2>1, PressStays, OutdatedIs
    <2> QED BY <1>6, <2>1, <2>3, <2>4, EnvStays, InvalidatedKeeps DEF TCInv
  <1>7. \/ AdoptionEnds(FALSE) /\ available' \in BOOLEAN /\ UNCHANGED <<owner, settled, filesVars>>
        \/ /\ available' = TRUE /\ proving' = (proving \/ shared # "yes") /\ AdoptionEnds(TRUE)
           /\ UNCHANGED <<owner, settled, shared, watching, loaded, mirror, reads>>
        \/ /\ available' = TRUE /\ owner' = adoption.answer /\ settled' = Nobody /\ Invalidated("unknown")
           /\ adoption' = [adoption EXCEPT !.at = "resolving", !.answer = Nobody]
           /\ press' = (IF press.at = "adopting" THEN press ELSE Outdated(press))
    BY <1>2 DEF AnswerArrives
  <1> QED BY <1>4, <1>5, <1>6, <1>7

LEMMA ResolvedKeeps == ASSUME TCInv, Resolved PROVE TCInv'
  <1>1. /\ adoption.at = "resolving"
        /\ UNCHANGED <<envVars, owner, available, shared, watching, loaded, mirror, reads, landed>>
    BY DEF Resolved
  <1>2. available \in BOOLEAN /\ proving \in BOOLEAN /\ TRUE \in BOOLEAN /\ FALSE \in BOOLEAN
    BY DEF TCInv, IdInv, FilesInv
  <1>3. CASE AdoptionEnds(FALSE) /\ UNCHANGED <<settled, proving>>
    BY <1>1, <1>2, <1>3, AdoptionOver
  <1>4. CASE /\ settled' = owner /\ proving' = TRUE /\ adoption' = [adoption EXCEPT !.at = "proving"]
             /\ UNCHANGED press
    <2>1. UNCHANGED <<live, local, override, landed>>
      BY <1>1 DEF envVars
    <2>2. settled = Nobody /\ settled \notin local
      BY <1>1, InstancesAre DEF TCInv, IdInv, EnvInv
    <2>3. ~(shared = "yes" \/ watching # "no" \/ loaded \/ mirror # Unset \/ reads # <<>>)
      BY <2>2 DEF TCInv, FilesInv, SharedInv
    <2>4. FilesInv'
      BY <1>1, <1>2, <1>4, <2>3 DEF TCInv, FilesInv, SharedInv, ReadsOrdered, MirrorInv
    <2>5. adoption' \in AdoptionType /\ adoption'.at = "proving" /\ adoption'.answer = adoption.answer
      BY <1>4 DEF TCInv, IdInv, AdoptionType
    <2>6. IdInv'
      BY <1>1, <1>4, <2>1, <2>5 DEF TCInv, IdInv
    <2> QED BY <1>1, <1>4, <2>1, <2>4, <2>6, EnvStays, PressStays, OwnReadsStay DEF TCInv
  <1> QED BY <1>3, <1>4 DEF Resolved

LEMMA AdoptionProvedKeeps == ASSUME TCInv, AdoptionProved PROVE TCInv'
  <1>1. /\ AdoptionEnds(TRUE) /\ UNCHANGED <<envVars, owner, settled, available, filesVars, landed>>
    BY DEF AdoptionProved
  <1>2. available' \in BOOLEAN /\ proving' \in BOOLEAN /\ TRUE \in BOOLEAN
    BY <1>1 DEF TCInv, IdInv, FilesInv, filesVars
  <1> QED BY <1>1, <1>2, AdoptionOver DEF filesVars

-----------------------------------------------------------------------------
(* The files.                                                              *)

LEMMA ReadingIs ==
    ASSUME TCInv, NEW who \in {"watch", "press"}, reads' = Reading(who)
    PROVE  /\ reads' \in Seq(ReadType) /\ Len(reads) \in Nat /\ Len(reads') = Len(reads) + 1
           /\ \A k \in 1..Len(reads) : reads'[k] = reads[k]
           /\ reads'[Len(reads')].who = who /\ ~reads'[Len(reads')].read /\ ~reads'[Len(reads')].older
           /\ reads' # <<>>
  <1> DEFINE new == [who |-> who, value |-> Unset, read |-> FALSE, older |-> FALSE]
  <1>1. reads \in Seq(ReadType) /\ Len(reads) \in Nat
    BY DEF TCInv, FilesInv
  <1>2. FALSE \in BOOLEAN
    OBVIOUS
  <1>3. new \in ReadType /\ new.who = who /\ ~new.read /\ ~new.older
    BY <1>2, InstancesAre DEF ReadType
  <1>4. reads' = Append(reads, new)
    BY DEF Reading
  <1> HIDE DEF new
  <1>5. /\ reads' \in Seq(ReadType) /\ Len(reads') = Len(reads) + 1
        /\ \A k \in 1..Len(reads) : reads'[k] = reads[k]
        /\ reads'[Len(reads) + 1] = new
    BY <1>1, <1>3, <1>4, AppendProperties
  <1> QED BY <1>1, <1>3, <1>5, EmptySeq

\* A read begins while the files are known to be shared.
LEMMA ReadBegins ==
    ASSUME TCInv, NEW who \in {"watch", "press"}, reads' = Reading(who), settled \in local,
           shared' \in {shared, "yes"}, watching' \in {watching, "yes"}, proving' \in BOOLEAN,
           UNCHANGED <<loaded, mirror, settled, local, override>>
    PROVE  FilesInv'
  <1>1. /\ reads' \in Seq(ReadType) /\ Len(reads) \in Nat /\ Len(reads') = Len(reads) + 1
        /\ \A k \in 1..Len(reads) : reads'[k] = reads[k]
        /\ ~reads'[Len(reads')].read /\ ~reads'[Len(reads')].older /\ reads' # <<>>
    BY ReadingIs
  <1>2. ReadsOrdered'
    <2> SUFFICES ASSUME NEW j \in 1..Len(reads'), NEW k \in 1..Len(reads'), j < k, reads'[k].older
                 PROVE  reads'[j].older
      BY DEF ReadsOrdered
    <2>1. k # Len(reads')
      BY <1>1
    <2>2. k \in 1..Len(reads) /\ j \in 1..Len(reads)
      BY <1>1, <2>1
    <2>3. ReadsOrdered
      BY DEF TCInv, FilesInv
    <2> QED BY <1>1, <2>2, <2>3 DEF ReadsOrdered
  <1>3. MirrorInv'
    BY <1>1 DEF MirrorInv, LastIsDone
  <1>4. SharedInv'
    BY DEF SharedInv
  <1>5. /\ shared' \in {"unknown", "yes", "no"} /\ watching' \in {"no", "yes", "changed"}
        /\ loaded' \in BOOLEAN /\ mirror' \in OverrideValue
    BY DEF TCInv, FilesInv
  <1> QED BY <1>1, <1>2, <1>3, <1>4, <1>5 DEF FilesInv

\* The toggle's own read, and one for the mirror beside it.
LEMMA OwnReadBegins ==
    ASSUME TCInv, reads' = Reading("press"), press.at \notin {"reading", "confirming"},
           press'.at \in {"reading", "confirming"}, ~press'.late
    PROVE  OwnReads'
  <1>1. /\ Len(reads) \in Nat /\ Len(reads') = Len(reads) + 1
        /\ \A k \in 1..Len(reads) : reads'[k] = reads[k]
    BY ReadingIs
  <1>2. \A k \in 1..Len(reads) : reads[k].who # "press"
    BY DEF TCInv, OwnReads
  <1>3. \A k \in 1..Len(reads') : reads'[k].who = "press" => k = Len(reads')
    BY <1>1, <1>2
  <1> QED BY <1>3 DEF OwnReads

LEMMA WatchReadBegins ==
    ASSUME TCInv, reads' = Reading("watch"), press' = press
    PROVE  OwnReads'
  <1>1. /\ Len(reads) \in Nat /\ Len(reads') = Len(reads) + 1
        /\ \A k \in 1..Len(reads) : reads'[k] = reads[k]
        /\ reads'[Len(reads')].who = "watch"
    BY ReadingIs
  <1>2. \A k \in 1..Len(reads') : reads'[k].who = "press" => k \in 1..Len(reads) /\ reads[k].who = "press"
    BY <1>1
  <1> QED BY <1>2 DEF TCInv, OwnReads

LEMMA ProvedKeeps == ASSUME TCInv, Proved PROVE TCInv'
  <1>1. UNCHANGED <<envVars, idVars, landed>> /\ proving
    BY DEF Proved
  <1>2. UNCHANGED <<live, local, override, landed, settled>> /\ UNCHANGED <<live, idVars>>
    BY <1>1 DEF envVars, idVars
  <1>3. CASE Invalidated("no") /\ press' = Outdated(press)
    BY <1>2, <1>3, EnvStays, IdStays, InvalidatedKeeps, OutdatedIs DEF TCInv
  <1>4. CASE /\ settled \in local /\ shared' = "yes" /\ proving' = FALSE
             /\ watching = "no" /\ watching' = "yes" /\ reads' = Reading("watch")
             /\ UNCHANGED <<loaded, mirror, press>>
    <2>1. proving' \in BOOLEAN
      BY <1>4
    <2>2. FilesInv' /\ OwnReads'
      BY <1>2, <1>4, <2>1, ReadBegins, WatchReadBegins
    <2> QED BY <1>2, <1>4, <2>2, EnvStays, IdStays, PressStays DEF TCInv
  <1>5. CASE /\ settled \in local /\ shared' = "yes" /\ proving' = FALSE
             /\ UNCHANGED <<watching, reads, loaded, mirror, press>>
    <2>1. SharedInv' /\ ReadsOrdered' /\ MirrorInv'
      BY <1>2, <1>5 DEF TCInv, FilesInv, SharedInv, ReadsOrdered, MirrorInv, LastIsDone
    <2>2. FilesInv'
      BY <1>5, <2>1 DEF TCInv, FilesInv
    <2> QED BY <1>2, <1>5, <2>2, EnvStays, IdStays, PressStays, OwnReadsStay DEF TCInv
  <1> QED BY <1>3, <1>4, <1>5 DEF Proved, SameFiles

LEMMA WatchFiresKeeps == ASSUME TCInv, WatchFires PROVE TCInv'
  <1>1. /\ watching = "changed" /\ watching' = "yes" /\ reads' = Reading("watch")
        /\ UNCHANGED <<envVars, idVars, shared, proving, loaded, mirror, press, landed>>
    BY DEF WatchFires
  <1>2. UNCHANGED <<live, local, override, landed, settled>> /\ UNCHANGED <<live, idVars>>
    BY <1>1 DEF envVars, idVars
  <1>3. settled \in local /\ proving' \in BOOLEAN
    BY <1>1 DEF TCInv, FilesInv, SharedInv
  <1> QED BY <1>1, <1>2, <1>3, EnvStays, IdStays, PressStays, ReadBegins, WatchReadBegins DEF TCInv

LEMMA SamplesKeeps == ASSUME TCInv, NEW k \in DOMAIN reads, Samples(k) PROVE TCInv'
  <1>1. /\ reads' = [reads EXCEPT ![k].read = TRUE, ![k].value = override[settled]]
        /\ UNCHANGED <<envVars, idVars, shared, proving, watching, loaded, mirror, press, landed>>
    BY DEF Samples
  <1>2. UNCHANGED <<live, local, override, landed, settled>> /\ UNCHANGED <<live, idVars>>
    BY <1>1 DEF envVars, idVars
  <1>3. reads \in Seq(ReadType) /\ k \in 1..Len(reads) /\ Len(reads) \in Nat
    BY DEF TCInv, FilesInv
  <1>4. settled \in local /\ override[settled] \in OverrideValue /\ TRUE \in BOOLEAN
    BY <1>3, EmptyReads DEF TCInv, FilesInv, SharedInv, EnvInv
  <1> DEFINE r == [reads[k] EXCEPT !.read = TRUE, !.value = override[settled]]
  <1>5. reads[k] \in ReadType
    BY <1>3
  <1>6. r \in ReadType /\ r.who = reads[k].who /\ r.older = reads[k].older /\ r.value = override[settled]
    BY <1>4, <1>5 DEF ReadType
  <1>7. reads' = [reads EXCEPT ![k] = r]
    BY <1>1, <1>3
  <1> HIDE DEF r
  <1>8. /\ reads' \in Seq(ReadType) /\ Len(reads') = Len(reads)
        /\ \A j \in 1..Len(reads) : reads'[j] = IF j = k THEN r ELSE reads[j]
    BY <1>3, <1>6, <1>7, ExceptSeq
  <1>9. \A j \in 1..Len(reads) : reads'[j].who = reads[j].who /\ reads'[j].older = reads[j].older
    BY <1>6, <1>8
  <1>10. OwnReads'
    BY <1>1, <1>8, <1>9 DEF TCInv, OwnReads
  <1>11. ReadsOrdered'
    BY <1>8, <1>9 DEF TCInv, FilesInv, ReadsOrdered
  <1>12. SharedInv'
    BY <1>1, <1>2, <1>4 DEF SharedInv
  <1>13. MirrorInv'
    <2>1. reads # <<>> /\ reads' # <<>> /\ Len(reads) \in 1..Len(reads)
      BY <1>3, <1>8, EmptyReads
    <2>2. LastIsDone' = LastIsDone
      BY <1>8, <1>9, <2>1 DEF LastIsDone
    <2>3. reads'[Len(reads')] = IF Len(reads) = k THEN r ELSE reads[Len(reads)]
      BY <1>8, <2>1
    <2> QED BY <1>1, <1>2, <1>6, <2>2, <2>3 DEF TCInv, FilesInv, MirrorInv
  <1>14. FilesInv'
    BY <1>1, <1>8, <1>11, <1>12, <1>13 DEF TCInv, FilesInv
  <1> QED BY <1>1, <1>2, <1>10, <1>14, EnvStays, IdStays, PressStays DEF TCInv

\* A sequence without its k-th element.
LEMMA RemovedAt ==
    ASSUME NEW S, NEW q \in Seq(S), NEW k \in 1..Len(q)
    PROVE  /\ RemoveAt(q, k) \in Seq(S) /\ Len(RemoveAt(q, k)) = Len(q) - 1
           /\ \A j \in 1..Len(RemoveAt(q, k)) :
                 RemoveAt(q, k)[j] = IF j < k THEN q[j] ELSE q[j + 1]
  <1> DEFINE a == SubSeq(q, 1, k - 1)
             b == SubSeq(q, k + 1, Len(q))
             r == RemoveAt(q, k)
  <1>1. Len(q) \in Nat /\ k \in Nat /\ 1 <= k /\ k <= Len(q) /\ \A m \in 1..Len(q) : q[m] \in S
    OBVIOUS
  <1>2. 1 \in Int /\ k - 1 \in Int /\ k + 1 \in Int /\ Len(q) \in Int
    BY <1>1
  <1>3. (\A m \in 1..(k - 1) : q[m] \in S) /\ (\A m \in (k + 1)..Len(q) : q[m] \in S)
    BY <1>1
  <1>4. /\ a \in Seq(S) /\ Len(a) = IF 1 <= k - 1 THEN (k - 1) - 1 + 1 ELSE 0
        /\ \A m \in 1..((k - 1) - 1 + 1) : a[m] = q[1 + m - 1]
    BY <1>2, <1>3, SubSeqProperties
  <1>5. /\ b \in Seq(S) /\ Len(b) = IF k + 1 <= Len(q) THEN Len(q) - (k + 1) + 1 ELSE 0
        /\ \A m \in 1..(Len(q) - (k + 1) + 1) : b[m] = q[(k + 1) + m - 1]
    BY <1>2, <1>3, SubSeqProperties
  <1>6. r = a \o b
    BY DEF RemoveAt
  <1>7. /\ a \o b \in Seq(S) /\ Len(a \o b) = Len(a) + Len(b)
        /\ \A m \in 1..(Len(a) + Len(b)) : (a \o b)[m] = IF m <= Len(a) THEN a[m] ELSE b[m - Len(a)]
    BY <1>4, <1>5, ConcatProperties
  <1> HIDE DEF a, b, r
  <1>8. Len(a) = k - 1 /\ \A m \in 1..(k - 1) : a[m] = q[m]
    BY <1>1, <1>4
  <1>9. Len(b) = Len(q) - k /\ \A m \in 1..(Len(q) - k) : b[m] = q[k + m]
    BY <1>1, <1>5
  <1>10. r \in Seq(S) /\ Len(r) = Len(q) - 1
    BY <1>1, <1>6, <1>7, <1>8, <1>9
  <1>11. ASSUME NEW j \in 1..Len(r) PROVE r[j] = IF j < k THEN q[j] ELSE q[j + 1]
    <2>1. j \in 1..(Len(a) + Len(b))
      BY <1>1, <1>8, <1>9, <1>10
    <2>2. r[j] = IF j <= Len(a) THEN a[j] ELSE b[j - Len(a)]
      BY <1>6, <1>7, <2>1
    <2>3. CASE j < k
      <3>1. j \in 1..(k - 1) /\ j <= Len(a)
        BY <1>1, <1>8, <2>3
      <3> QED BY <1>8, <2>2, <2>3, <3>1
    <2>4. CASE ~(j < k)
      <3>1. ~(j <= Len(a)) /\ j - Len(a) \in 1..(Len(q) - k) /\ k + (j - Len(a)) = j + 1
        BY <1>1, <1>8, <1>9, <1>10, <2>4
      <3> QED BY <1>9, <2>2, <2>4, <3>1
    <2> QED BY <2>3, <2>4
  <1> QED BY <1>10, <1>11 DEF r

LEMMA SameLength == ASSUME NEW a \in Nat, NEW b \in Nat, 1..a = 1..b PROVE a = b
  <1>1. CASE a < b
    <2>1. b \in 1..b /\ b \notin 1..a
      BY <1>1
    <2> QED BY <2>1
  <1>2. CASE b < a
    <2>1. a \in 1..a /\ a \notin 1..b
      BY <1>2
    <2> QED BY <2>1
  <1> QED BY <1>1, <1>2

\* A read that is done is gone, and those before it count as older if it was not.
LEMMA ReadDoneIs ==
    ASSUME TCInv, NEW k \in 1..Len(reads), ReadDone(k)
    PROVE  /\ reads' \in Seq(ReadType) /\ Len(reads) \in Nat /\ Len(reads') = Len(reads) - 1
           /\ \A j \in 1..Len(reads') :
                 /\ j < k => /\ j \in 1..Len(reads) /\ reads'[j].who = reads[j].who
                             /\ (reads'[j].older <=> reads[j].older \/ ~reads[k].older)
                 /\ j >= k => j + 1 \in 1..Len(reads) /\ reads'[j] = reads[j + 1]
  <1> DEFINE m == [j \in DOMAIN reads |->
                     IF j < k /\ ~Overtaken(reads[k]) THEN [reads[j] EXCEPT !.older = TRUE] ELSE reads[j]]
  <1>1. reads \in Seq(ReadType) /\ Len(reads) \in Nat /\ DOMAIN reads = 1..Len(reads)
    BY DEF TCInv, FilesInv
  <1>2. \A j \in 1..Len(reads) : reads[j] \in ReadType
    BY <1>1
  <1>3. \A j \in 1..Len(reads) :
            /\ m[j] \in ReadType /\ m[j].who = reads[j].who
            /\ j < k => (m[j].older <=> reads[j].older \/ ~reads[k].older)
            /\ j >= k => m[j] = reads[j]
    <2> TAKE j \in 1..Len(reads)
    <2>0. TRUE \in BOOLEAN /\ reads[j] \in ReadType /\ reads[k] \in ReadType
      BY <1>2
    <2>1. CASE j < k /\ ~reads[k].older
      <3>1. m[j] = [reads[j] EXCEPT !.older = TRUE]
        BY <1>1, <2>1 DEF Overtaken
      <3>2. [reads[j] EXCEPT !.older = TRUE] \in ReadType
        BY <2>0 DEF ReadType
      <3>3. m[j].who = reads[j].who /\ m[j].older = TRUE
        BY <2>0, <3>1 DEF ReadType
      <3>4. (m[j].older <=> reads[j].older \/ ~reads[k].older)
        BY <2>1, <3>3
      <3>5. m[j] \in ReadType
        BY <3>1, <3>2
      <3>6. ~(j >= k)
        BY <1>1, <2>1
      <3> QED BY <3>3, <3>4, <3>5, <3>6
    <2>2. CASE ~(j < k /\ ~reads[k].older)
      <3>1. m[j] = reads[j]
        BY <1>1, <2>2 DEF Overtaken
      <3>2. reads[j].older \in BOOLEAN /\ reads[k].older \in BOOLEAN
        BY <2>0 DEF ReadType
      <3>3. j < k => (m[j].older <=> reads[j].older \/ ~reads[k].older)
        BY <2>2, <3>1
      <3> QED BY <2>0, <3>1, <3>3
    <2> QED BY <2>1, <2>2
  <1>4. m \in Seq(ReadType) /\ Len(m) = Len(reads)
    <2>0. m = [j \in 1..Len(reads) |-> m[j]]
      BY <1>1
    <2> HIDE DEF m
    <2>1. m \in [1..Len(reads) -> ReadType]
      BY <1>3, <2>0
    <2>2. m \in Seq(ReadType)
      BY <1>1, <2>1, SeqDef
    <2>3. DOMAIN m = 1..Len(m) /\ Len(m) \in Nat /\ DOMAIN m = 1..Len(reads)
      BY <2>1, <2>2, LenProperties
    <2>4. Len(m) = Len(reads)
      BY <1>1, <2>3, SameLength
    <2> QED BY <2>2, <2>4
  <1>5. reads' = RemoveAt(m, k)
    BY DEF ReadDone
  <1> HIDE DEF m
  <1>6. /\ RemoveAt(m, k) \in Seq(ReadType) /\ Len(RemoveAt(m, k)) = Len(m) - 1
        /\ \A j \in 1..Len(RemoveAt(m, k)) : RemoveAt(m, k)[j] = IF j < k THEN m[j] ELSE m[j + 1]
    BY <1>4, RemovedAt
  <1>7. /\ reads' \in Seq(ReadType) /\ Len(reads') = Len(reads) - 1
        /\ \A j \in 1..Len(reads') : reads'[j] = IF j < k THEN m[j] ELSE m[j + 1]
    BY <1>4, <1>5, <1>6
  <1>8. ASSUME NEW j \in 1..Len(reads')
        PROVE /\ j < k => /\ j \in 1..Len(reads) /\ reads'[j].who = reads[j].who
                          /\ (reads'[j].older <=> reads[j].older \/ ~reads[k].older)
              /\ j >= k => j + 1 \in 1..Len(reads) /\ reads'[j] = reads[j + 1]
    <2>1. /\ j \in 1..Len(reads) /\ j + 1 \in 1..Len(reads)
          /\ j >= k => j + 1 >= k /\ ~(j < k)
          /\ j < k => ~(j >= k)
      BY <1>1, <1>7
    <2>2. reads'[j] = IF j < k THEN m[j] ELSE m[j + 1]
      BY <1>7
    <2>3. CASE j < k
      <3>1. reads'[j] = m[j]
        BY <2>2, <2>3
      <3> QED BY <1>3, <2>1, <2>3, <3>1, Zenon
    <2>4. CASE j >= k
      <3>1. reads'[j] = m[j + 1]
        BY <2>1, <2>2, <2>4
      <3> QED BY <1>3, <2>1, <2>4, <3>1, Zenon
    <2>5. j < k \/ j >= k
      BY <1>1, <1>7
    <2> QED BY <2>3, <2>4, <2>5
  <1> QED BY <1>1, <1>7, <1>8

LEMMA ReadDoneKeeps ==
    ASSUME TCInv, NEW k \in 1..Len(reads), ReadDone(k), reads[k].read,
           UNCHANGED <<settled, local, override, shared, proving, watching>>
    PROVE  FilesInv'
  <1> DEFINE n == Len(reads)
  <1>1. /\ reads' \in Seq(ReadType) /\ n \in Nat /\ Len(reads') = n - 1
        /\ \A j \in 1..Len(reads') :
              /\ j < k => /\ j \in 1..n /\ reads'[j].who = reads[j].who
                          /\ (reads'[j].older <=> reads[j].older \/ ~reads[k].older)
              /\ j >= k => j + 1 \in 1..n /\ reads'[j] = reads[j + 1]
    BY ReadDoneIs
  <1>2. /\ reads \in Seq(ReadType) /\ reads[k] \in ReadType /\ ReadsOrdered /\ MirrorInv /\ SharedInv
        /\ mirror \in OverrideValue /\ loaded \in BOOLEAN
    BY DEF TCInv, FilesInv
  <1>3. reads # <<>> /\ settled \in local
    BY <1>1, <1>2, EmptyReads DEF SharedInv
  <1>4. mirror' = (IF reads[k].older THEN mirror ELSE reads[k].value) /\ loaded' = (loaded \/ reads[k].who = "watch")
    BY DEF ReadDone, Shown, Overtaken
  <1>5. mirror' \in OverrideValue
    BY <1>2, <1>4 DEF ReadType
  <1>6. loaded' \in BOOLEAN
    BY <1>4
  <1>7. ReadsOrdered'
    <2> SUFFICES ASSUME NEW i \in 1..Len(reads'), NEW j \in 1..Len(reads'), i < j, reads'[j].older
                 PROVE  reads'[i].older
      BY DEF ReadsOrdered
    <2>0. i \in Int /\ j \in Int /\ k \in Int
      BY <1>1
    <2>1. CASE j < k
      <3>1. i < k
        BY <2>0, <2>1
      <3> QED BY <1>1, <1>2, <2>1, <3>1 DEF ReadsOrdered
    <2>2. CASE j >= k
      <3>1. reads[j + 1].older /\ j + 1 \in 1..n
        BY <1>1, <2>2
      <3>2. CASE i < k
        <4>1. i \in 1..n /\ i < j + 1
          BY <1>1, <2>0, <3>2
        <4>2. reads[i].older
          BY <1>2, <3>1, <4>1 DEF ReadsOrdered
        <4> QED BY <1>1, <3>2, <4>2
      <3>3. CASE i >= k
        <4>1. i + 1 \in 1..n /\ i + 1 < j + 1 /\ reads'[i] = reads[i + 1]
          BY <1>1, <2>0, <3>3
        <4> QED BY <1>2, <3>1, <4>1 DEF ReadsOrdered
      <3> QED BY <2>0, <3>2, <3>3
    <2> QED BY <2>0, <2>1, <2>2
  <1>8. SharedInv'
    BY <1>3 DEF SharedInv
  <1>9. MirrorInv'
    <2> SUFFICES ASSUME watching = "yes"
                 PROVE  IF LastIsDone' THEN mirror' = override[settled]
                        ELSE reads'[Len(reads')].read => reads'[Len(reads')].value = override[settled]
      BY DEF MirrorInv
    <2>0. n \in 1..n /\ n >= 1 /\ k <= n
      BY <1>1
    <2>1. IF reads[n].older THEN mirror = override[settled]
          ELSE reads[n].read => reads[n].value = override[settled]
      BY <1>2, <1>3 DEF MirrorInv, LastIsDone
    <2>2. CASE k = n
      <3>1. mirror' = override[settled]
        BY <1>4, <2>1, <2>2
      <3>2. LastIsDone'
        <4>1. CASE n = 1
          <5>1. Len(reads') = 0
            BY <1>1, <4>1
          <5> QED BY <1>1, <5>1, EmptySeq DEF LastIsDone
        <4>2. CASE n # 1
          <5>1. n - 1 \in 1..Len(reads') /\ n - 1 < k /\ n - 1 \in 1..n /\ n - 1 < n
            BY <1>1, <2>0, <2>2, <4>2
          <5>2. reads'[n - 1].older <=> reads[n - 1].older \/ ~reads[k].older
            BY <1>1, <5>1
          <5>3. reads[n].older => reads[n - 1].older
            BY <1>2, <2>0, <5>1 DEF ReadsOrdered
          <5> QED BY <1>1, <2>2, <5>2, <5>3 DEF LastIsDone
        <4> QED BY <4>1, <4>2
      <3> QED BY <3>1, <3>2
    <2>3. CASE k # n
      <3>1. n - 1 \in 1..Len(reads') /\ n - 1 >= k /\ (n - 1) + 1 = n /\ k < n
        BY <1>1, <2>0, <2>3
      <3>2. reads'[Len(reads')] = reads[n] /\ reads' # <<>>
        BY <1>1, <3>1, EmptySeq
      <3>3. reads[n].older => reads[k].older
        BY <1>2, <2>0, <3>1 DEF ReadsOrdered
      <3> QED BY <1>4, <2>1, <3>2, <3>3 DEF LastIsDone
    <2> QED BY <2>2, <2>3
  <1>10. shared' \in {"unknown", "yes", "no"} /\ proving' \in BOOLEAN /\ watching' \in {"no", "yes", "changed"}
    BY DEF TCInv, FilesInv
  <1> QED BY <1>1, <1>5, <1>6, <1>7, <1>8, <1>9, <1>10 DEF FilesInv

LEMMA WatchReadKeeps == ASSUME TCInv, NEW k \in DOMAIN reads, WatchRead(k) PROVE TCInv'
  <1>1. /\ reads[k].who = "watch" /\ ReadDone(k) /\ reads[k].read
        /\ UNCHANGED <<envVars, idVars, shared, proving, watching, press, landed>>
    BY DEF WatchRead, ReadDone
  <1>2. UNCHANGED <<live, local, override, landed, settled>> /\ UNCHANGED <<live, idVars>>
    BY <1>1 DEF envVars, idVars
  <1>3. k \in 1..Len(reads) /\ Len(reads) \in Nat
    BY DEF TCInv, FilesInv
  <1>4. FilesInv'
    BY <1>1, <1>2, <1>3, ReadDoneKeeps
  <1>5. /\ Len(reads') = Len(reads) - 1
        /\ \A j \in 1..Len(reads') :
              /\ j < k => /\ j \in 1..Len(reads) /\ reads'[j].who = reads[j].who
                          /\ (reads'[j].older <=> reads[j].older \/ ~reads[k].older)
              /\ j >= k => j + 1 \in 1..Len(reads) /\ reads'[j] = reads[j + 1]
    BY <1>1, <1>3, ReadDoneIs
  <1>6. \A j \in 1..Len(reads') : j \in Int /\ (j < k \/ j >= k)
    BY <1>3
  <1>7. OwnReads
    BY DEF TCInv
  <1>8. \A j \in 1..Len(reads') : reads'[j].who = "press" => press.at \in {"reading", "confirming"} /\ ~press.late
    BY <1>5, <1>6, <1>7 DEF OwnReads
  <1>9. ASSUME NEW i \in 1..Len(reads'), NEW j \in 1..Len(reads'), reads'[i].who = "press", reads'[j].who = "press"
        PROVE  i = j
    <2>1. CASE i < k /\ j < k
      BY <1>5, <1>7, <1>9, <2>1 DEF OwnReads
    <2>2. CASE i >= k /\ j >= k
      <3>1. i + 1 = j + 1
        BY <1>5, <1>7, <1>9, <2>2 DEF OwnReads
      <3> QED BY <1>6, <3>1
    <2>3. CASE i < k /\ j >= k
      <3>1. i = j + 1
        BY <1>5, <1>7, <1>9, <2>3 DEF OwnReads
      <3> QED BY <1>3, <1>6, <2>3, <3>1
    <2>4. CASE i >= k /\ j < k
      <3>1. i + 1 = j
        BY <1>5, <1>7, <1>9, <2>4 DEF OwnReads
      <3> QED BY <1>3, <1>6, <2>4, <3>1
    <2> QED BY <1>6, <2>1, <2>2, <2>3, <2>4
  <1>10. OwnReads'
    BY <1>1, <1>8, <1>9 DEF OwnReads
  <1> QED BY <1>1, <1>2, <1>4, <1>10, EnvStays, IdStays, PressStays DEF TCInv

LEMMA PressReadKeeps == ASSUME TCInv, NEW k \in DOMAIN reads, PressRead(k) PROVE TCInv'
  <1>1. /\ reads[k].who = "press" /\ ReadDone(k) /\ reads[k].read
        /\ UNCHANGED <<envVars, idVars, shared, proving, watching, landed>>
    BY DEF PressRead, ReadDone
  <1>2. UNCHANGED <<live, local, override, landed, settled>> /\ UNCHANGED <<live, idVars>>
    BY <1>1 DEF envVars, idVars
  <1>3. k \in 1..Len(reads) /\ Len(reads) \in Nat
    BY DEF TCInv, FilesInv
  <1>4. FilesInv'
    BY <1>1, <1>2, <1>3, ReadDoneKeeps
  <1>5. /\ Len(reads') = Len(reads) - 1
        /\ \A j \in 1..Len(reads') :
              /\ j < k => /\ j \in 1..Len(reads) /\ reads'[j].who = reads[j].who
                          /\ (reads'[j].older <=> reads[j].older \/ ~reads[k].older)
              /\ j >= k => j + 1 \in 1..Len(reads) /\ reads'[j] = reads[j + 1]
    BY <1>1, <1>3, ReadDoneIs
  <1>6. OwnReads /\ press.at \in {"reading", "confirming"} /\ PressInv
    BY <1>1, <1>3 DEF TCInv, OwnReads
  <1>7. ASSUME NEW j \in 1..Len(reads') PROVE reads'[j].who # "press"
    <2>1. j \in Int /\ (j < k \/ j >= k)
      BY <1>3
    <2>2. CASE j < k
      <3>1. j # k
        BY <1>3, <2>1, <2>2
      <3> QED BY <1>1, <1>3, <1>5, <1>6, <2>2, <3>1 DEF OwnReads
    <2>3. CASE j >= k
      <3>1. j + 1 # k
        BY <1>3, <2>1, <2>3
      <3> QED BY <1>1, <1>3, <1>5, <1>6, <2>3, <3>1 DEF OwnReads
    <2> QED BY <2>1, <2>2, <2>3
  <1>8. OwnReads'
    BY <1>7 DEF OwnReads
  <1>9. CASE press' = NoPress
    BY <1>2, <1>4, <1>8, <1>9, EnvStays, IdStays, NoPressKeeps DEF TCInv
  <1>10. CASE Sound /\ Current /\ press.at = "reading"
              /\ press' = [press EXCEPT !.at = "writing", !.next = ~Shown(k).on]
    <2>1. press.owner \in local
      BY <1>10 DEF Sound, Current, TCInv, FilesInv, SharedInv
    <2>2. (~Shown(k).on) \in BOOLEAN
      OBVIOUS
    <2>3. press' \in PressType /\ press'.at = "writing" /\ press'.owner = press.owner /\ press'.answer = press.answer
      BY <1>6, <1>10, <2>2 DEF PressInv, PressType
    <2>4. PressInv'
      BY <1>2, <1>6, <1>10, <2>1, <2>3 DEF PressInv
    <2> QED BY <1>2, <1>4, <1>8, <2>4, EnvStays, IdStays DEF TCInv
  <1>11. CASE press.at # "reading" /\ press' = [press EXCEPT !.at = "announced"]
    <2>1. press' \in PressType /\ press'.at = "announced" /\ press'.owner = press.owner
      BY <1>6, <1>11 DEF PressInv, PressType
    <2>2. PressInv'
      BY <1>2, <1>6, <1>11, <2>1 DEF PressInv
    <2> QED BY <1>2, <1>4, <1>8, <2>2, EnvStays, IdStays DEF TCInv
  <1> QED BY <1>9, <1>10, <1>11 DEF PressRead

-----------------------------------------------------------------------------
(* The toggle.                                                             *)

\* Steps of the toggle that leave the files alone.
LEMMA ToggleMoves ==
    ASSUME TCInv, UNCHANGED <<live, local, override, landed>>, UNCHANGED <<shared, watching, loaded, mirror, reads, settled>>,
           proving' \in BOOLEAN, IdInv', PressInv',
           press' = press \/ press.at \notin {"reading", "confirming"} \/ press.late
    PROVE  TCInv'
  BY EnvStays, OwnReadsStay, FilesStay DEF TCInv

LEMMA JoinKeeps ==
    ASSUME TCInv, UNCHANGED <<live, owner, settled, available>>, adoption' = JoinsAdoption
    PROVE  IdInv'
  <1>1. CASE adoption.at = "none"
    BY <1>1, InstancesAre DEF TCInv, EnvInv, IdInv, JoinsAdoption
  <1>2. CASE adoption.at # "none"
    BY <1>2 DEF TCInv, IdInv, JoinsAdoption
  <1> QED BY <1>1, <1>2

LEMMA PressKeeps == ASSUME TCInv, Press PROVE TCInv'
  <1>1. /\ press.at = "idle" /\ adoption' = JoinsAdoption /\ press' = [NoPress EXCEPT !.at = "adopting"]
        /\ landed' = Nobody /\ UNCHANGED <<live, local, override, owner, settled, available, filesVars>>
    BY DEF Press
  <1>2. UNCHANGED <<shared, watching, loaded, mirror, reads, settled, proving>> /\ proving' \in BOOLEAN
    BY <1>1 DEF filesVars, TCInv, FilesInv
  <1>3. /\ press' \in PressType /\ press'.at = "adopting" /\ press'.owner = Nobody /\ press'.answer = Nobody
    BY <1>1, InstancesAre DEF PressType
  <1>4. PressInv'
    BY <1>1, <1>3, InstancesAre DEF TCInv, EnvInv, PressInv
  <1>5. EnvInv'
    BY <1>1, InstancesAre DEF TCInv, EnvInv
  <1> QED BY <1>1, <1>2, <1>4, <1>5, JoinKeeps, OwnReadsStay, FilesStay DEF TCInv

LEMMA GateKeeps == ASSUME TCInv, Gate PROVE TCInv'
  <1>1. /\ press.at = "gate" /\ UNCHANGED <<envVars, idVars, shared, watching, loaded, mirror, reads, landed>>
    BY DEF Gate
  <1>2. UNCHANGED <<live, local, override, landed, settled, owner>> /\ UNCHANGED <<live, idVars>>
    BY <1>1 DEF envVars, idVars
  <1>3. CASE press' = NoPress /\ UNCHANGED proving
    <2>1. proving' \in BOOLEAN
      BY <1>3 DEF TCInv, FilesInv
    <2> QED BY <1>1, <1>2, <1>3, <2>1, IdStays, NoPressKeeps, ToggleMoves
  <1>4. CASE owner # Nobody /\ press' = [press EXCEPT !.at = "proving", !.owner = owner] /\ proving' = TRUE
    <2>1. press' \in PressType /\ press'.at = "proving" /\ press'.owner = owner /\ press'.answer = press.answer
      BY <1>4 DEF TCInv, IdInv, PressInv, PressType
    <2>2. PressInv'
      BY <1>1, <1>2, <1>4, <2>1 DEF TCInv, IdInv, PressInv
    <2>3. proving' \in BOOLEAN
      BY <1>4
    <2> QED BY <1>1, <1>2, <2>2, <2>3, IdStays, ToggleMoves
  <1> QED BY <1>3, <1>4 DEF Gate

\* The toggle in another stage.
LEMMA StepsIs ==
    ASSUME TCInv, NEW a \in {"reading", "probing", "confirming", "announced"}, Steps(a)
    PROVE  /\ press' \in PressType /\ press'.at = a /\ press'.owner = press.owner /\ press'.late = press.late
           /\ press'.next = press.next /\ press'.answer = press.answer
  BY DEF Steps, TCInv, PressInv, PressType

LEMMA ReadsFirstKeeps == ASSUME TCInv, ReadsFirst PROVE TCInv'
  <1>1. /\ press.at = "proving"
        /\ UNCHANGED <<envVars, idVars, shared, proving, watching, loaded, mirror, landed>>
    BY DEF ReadsFirst
  <1>2. /\ UNCHANGED <<live, local, override, landed, settled>> /\ UNCHANGED <<live, idVars>>
        /\ proving' \in BOOLEAN
    BY <1>1 DEF envVars, idVars, TCInv, FilesInv
  <1>3. CASE Sound /\ reads' = Reading("press") /\ Steps("reading")
    <2>1. settled \in local /\ ~press.late
      BY <1>3 DEF Sound, TCInv, FilesInv, SharedInv
    <2>2. FilesInv'
      BY <1>1, <1>2, <1>3, <2>1, ReadBegins
    <2>3. press' \in PressType /\ press'.at = "reading" /\ press'.owner = press.owner /\ press'.late = press.late
          /\ press'.answer = press.answer
      BY <1>3, StepsIs
    <2>4. OwnReads'
      BY <1>1, <1>3, <2>1, <2>3, OwnReadBegins
    <2>5. PressInv'
      BY <1>1, <1>2, <2>3 DEF TCInv, PressInv
    <2> QED BY <1>2, <2>2, <2>4, <2>5, EnvStays, IdStays DEF TCInv
  <1>4. CASE press' = NoPress /\ UNCHANGED reads
    BY <1>1, <1>2, <1>4, IdStays, NoPressKeeps, ToggleMoves
  <1> QED BY <1>3, <1>4 DEF ReadsFirst

LEMMA PressLostKeeps == ASSUME TCInv, PressLost PROVE TCInv'
  <1>1. /\ press.late /\ press' = NoPress /\ UNCHANGED <<envVars, idVars, filesVars, landed>>
    BY DEF PressLost
  <1>2. /\ UNCHANGED <<live, local, override, landed>> /\ UNCHANGED <<live, idVars>>
        /\ UNCHANGED <<shared, watching, loaded, mirror, reads, settled>> /\ proving' \in BOOLEAN
    BY <1>1 DEF envVars, idVars, filesVars, TCInv, FilesInv
  <1> QED BY <1>1, <1>2, IdStays, NoPressKeeps, ToggleMoves

LEMMA WritesKeeps == ASSUME TCInv, Writes PROVE TCInv'
  <1>1. /\ press.at = "writing"
        /\ UNCHANGED <<live, local, idVars, shared, proving, loaded, mirror, reads>>
    BY DEF Writes
  <1>2. UNCHANGED settled /\ proving' \in BOOLEAN
    BY <1>1 DEF idVars, TCInv, FilesInv
  <1>3. CASE /\ Written(press.owner, [on |-> press.next, by |-> "me"]) /\ landed' = live /\ Steps("probing")
    <2>1. press.owner \in Servers /\ press.next \in BOOLEAN /\ press \in PressType
      BY <1>1 DEF TCInv, EnvInv, PressInv, PressType
    <2>2. [on |-> press.next, by |-> "me"] \in OverrideValue
      BY <2>1 DEF OverrideValue
    <2>3. FilesInv' /\ override' \in [Servers -> OverrideValue]
      BY <1>1, <1>2, <1>3, <2>1, <2>2, WrittenKeeps
    <2>4. EnvInv'
      BY <1>1, <1>3, <2>3, InstancesAre DEF TCInv, EnvInv
    <2>5. press' \in PressType /\ press'.at = "probing" /\ press'.owner = press.owner /\ press'.answer = press.answer
      BY <1>3, StepsIs
    <2>6. press.owner <= live /\ live <= live /\ press.answer = Nobody /\ press.owner # Nobody
      BY <1>1, InstancesAre DEF TCInv, EnvInv, PressInv
    <2>7. PressInv'
      BY <1>1, <1>3, <2>5, <2>6 DEF PressInv
    <2>8. OwnReads'
      BY <1>1, OwnReadsStay
    <2> QED BY <1>1, <2>3, <2>4, <2>7, <2>8, IdStays DEF TCInv
  <1>4. CASE press' = NoPress /\ UNCHANGED <<override, watching, landed>>
    BY <1>1, <1>2, <1>4, IdStays, NoPressKeeps, ToggleMoves
  <1> QED BY <1>3, <1>4 DEF Writes

LEMMA RespondsAgainKeeps == ASSUME TCInv, RespondsAgain PROVE TCInv'
  <1>1. /\ press.at = "probing" /\ UNCHANGED <<envVars, idVars, filesVars, landed>>
    BY DEF RespondsAgain
  <1>2. /\ UNCHANGED <<live, local, override, landed>> /\ UNCHANGED <<live, idVars>>
        /\ UNCHANGED <<shared, watching, loaded, mirror, reads, settled>> /\ proving' \in BOOLEAN
    BY <1>1 DEF envVars, idVars, filesVars, TCInv, FilesInv
  <1>3. CASE press' = [press EXCEPT !.answer = live]
    <2>1. live \in Instances /\ live <= live
      BY InstancesAre DEF TCInv, EnvInv
    <2>2. press' \in PressType /\ press'.at = "probing" /\ press'.owner = press.owner /\ press'.answer = live
      BY <1>1, <1>3, <2>1 DEF TCInv, PressInv, PressType
    <2>3. PressInv'
      BY <1>1, <1>2, <2>1, <2>2 DEF TCInv, PressInv
    <2> QED BY <1>1, <1>2, <2>3, IdStays, ToggleMoves
  <1>4. CASE press' = NoPress
    BY <1>1, <1>2, <1>4, IdStays, NoPressKeeps, ToggleMoves
  <1> QED BY <1>3, <1>4 DEF RespondsAgain

LEMMA ConfirmsKeeps == ASSUME TCInv, Confirms PROVE TCInv'
  <1>1. /\ press.at = "probing"
        /\ UNCHANGED <<envVars, owner, settled, available, shared, proving, watching, loaded, mirror, landed>>
    BY DEF Confirms
  <1>2. UNCHANGED <<live, local, override, landed>> /\ proving' \in BOOLEAN
    BY <1>1 DEF envVars, TCInv, FilesInv
  <1>3. CASE adoption' = JoinsAdoption /\ press' = NoPress /\ UNCHANGED reads
    BY <1>1, <1>2, <1>3, JoinKeeps, NoPressKeeps, ToggleMoves
  <1>4. CASE UNCHANGED adoption /\ press' = NoPress /\ UNCHANGED reads
    <2>1. IdInv'
      BY <1>1, <1>2, <1>4, IdStays DEF idVars
    <2> QED BY <1>1, <1>2, <1>4, <2>1, NoPressKeeps, ToggleMoves
  <1>5. ASSUME NEW answer \in {Nobody, press.answer}, StillOwner(answer), UNCHANGED adoption, Sound,
               reads' = Reading("press"), Steps("confirming")
        PROVE  TCInv'
    <2>1. settled \in local /\ ~press.late
      BY <1>5 DEF Sound, TCInv, FilesInv, SharedInv
    <2>2. FilesInv'
      BY <1>1, <1>2, <1>5, <2>1, ReadBegins
    <2>3. press' \in PressType /\ press'.at = "confirming" /\ press'.owner = press.owner /\ press'.late = press.late
          /\ press'.answer = press.answer
      BY <1>5, StepsIs
    <2>4. OwnReads'
      BY <1>1, <1>5, <2>1, <2>3, OwnReadBegins
    <2>5. landed = press.owner
      <3>1. answer = press.owner /\ press.owner # Nobody /\ PressInv
        BY <1>1, <1>5 DEF StillOwner, TCInv, PressInv
      <3>2. press.answer = press.owner
        BY <1>5, <3>1
      <3>3. press.owner <= landed /\ landed <= press.owner
        BY <1>1, <3>1, <3>2 DEF PressInv
      <3>4. press.owner \in Int /\ landed \in Int
        BY <3>1, InstancesAre DEF PressInv, PressType, TCInv, EnvInv
      <3> QED BY <3>3, <3>4
    <2>6. PressInv'
      BY <1>1, <1>2, <2>3, <2>5 DEF TCInv, PressInv
    <2>7. IdInv'
      BY <1>1, <1>2, <1>5, IdStays DEF idVars
    <2> QED BY <1>2, <2>2, <2>4, <2>6, <2>7, EnvStays DEF TCInv
  <1> QED BY <1>3, <1>4, <1>5 DEF Confirms

LEMMA AnnouncedKeeps == ASSUME TCInv, Announced PROVE TCInv'
  <1>1. /\ press.at = "announced" /\ press' = NoPress /\ UNCHANGED <<envVars, idVars, filesVars, landed>>
    BY DEF Announced
  <1>2. /\ UNCHANGED <<live, local, override, landed>> /\ UNCHANGED <<live, idVars>>
        /\ UNCHANGED <<shared, watching, loaded, mirror, reads, settled>> /\ proving' \in BOOLEAN
    BY <1>1 DEF envVars, idVars, filesVars, TCInv, FilesInv
  <1> QED BY <1>1, <1>2, IdStays, NoPressKeeps, ToggleMoves

LEMMA TCInductive == ASSUME TCInv, [TCNext]_tcVars PROVE TCInv'
  <1>1. CASE UNCHANGED tcVars
    <2>1. /\ UNCHANGED <<live, local, override, landed, press>> /\ UNCHANGED <<live, idVars>>
          /\ UNCHANGED <<shared, watching, loaded, mirror, reads, settled>> /\ proving' \in BOOLEAN
      BY <1>1 DEF tcVars, envVars, idVars, filesVars, TCInv, FilesInv
    <2> QED BY <2>1, EnvStays, IdStays, PressStays, OwnReadsStay, FilesStay DEF TCInv
  <1>2. CASE \E k \in DOMAIN reads : Samples(k) \/ WatchRead(k) \/ PressRead(k)
    BY <1>2, SamplesKeeps, WatchReadKeeps, PressReadKeeps
  <1> QED BY <1>1, <1>2, RestartKeeps, PeerTogglesKeeps, HintArrivesKeeps, AdoptPathsKeeps, RespondsKeeps,
             AnswerArrivesKeeps, ResolvedKeeps, AdoptionProvedKeeps, ProvedKeeps, WatchFiresKeeps, PressKeeps, GateKeeps,
             ReadsFirstKeeps, PressLostKeeps, WritesKeeps, RespondsAgainKeeps, ConfirmsKeeps, AnnouncedKeeps DEF TCNext

\* A toggle is announced only for the instance that ran when it was written, and
\* the sidebar shows only the adopted instance's file through a filesystem that
\* is shared, as it is once it has been read: for any number of restarts,
\* toggles and reads in flight.
THEOREM ControlsAreTrueHolds == TCSpec => []ControlsAreTrue
  <1>1. TCInit => TCInv
    BY TCInitially
  <1>2. TCInv /\ [TCNext]_tcVars => TCInv'
    BY TCInductive
  <1>3. ASSUME TCInv PROVE ControlsAreTrue
    <2>1. ToggleTakesEffect
      BY <1>3 DEF TCInv, PressInv, ToggleTakesEffect
    <2>2. mirror # Unset \/ loaded => settled # Nobody /\ settled \in local
      BY <1>3, InstancesAre DEF TCInv, EnvInv, FilesInv, SharedInv
    <2>3. loaded /\ watching = "yes" /\ reads = <<>> => mirror = override[settled]
      BY <1>3 DEF TCInv, FilesInv, MirrorInv, LastIsDone
    <2>4. press.at = "writing" => press.owner \in local
      BY <1>3 DEF TCInv, PressInv
    <2> QED BY <2>1, <2>2, <2>3, <2>4 DEF ControlsAreTrue, MirrorIsTrue
  <1> QED BY <1>1, <1>2, <1>3, PTL DEF TCSpec

-----------------------------------------------------------------------------
(* SessionPins: under the lock nobody else changes the record of a session *)
(* that exists.                                                            *)

HoldsPin(c) == chooser[c].at \in {"writing", "comparing", "clearing"}
SweepHolds == sweep.at \in {"comparing", "clearing"}

ChooserInv(c) ==
    /\ chooser[c] = [at |-> chooser[c].at, seen |-> chooser[c].seen, record |-> chooser[c].record]
    /\ HoldsPin(c) => holder = {c}
    /\ chooser[c].at \in {"clear", "comparing", "clearing"} => chooser[c].record = chooser[c].seen
    /\ chooser[c].at = "clearing" /\ exists => pin = chooser[c].record

SPInv ==
    /\ chooser = [c \in Choosers |-> chooser[c]]
    /\ \A c \in Choosers : ChooserInv(c)
    /\ sweep = [at |-> sweep.at, record |-> sweep.record]
    /\ SweepHolds => ~exists /\ holder # {} /\ \A c \in Choosers : ~HoldsPin(c)
    /\ deleting => ~exists

\* A step of one terminal, which becomes r, with the lock of the record in h and
\* the record itself changed by nobody else.
LEMMA ChooserMoves ==
    ASSUME SPInv, NEW c \in Choosers, NEW r, chooser' = [chooser EXCEPT ![c] = r],
           UNCHANGED <<exists, sweep, deleting>>,
           r = [at |-> r.at, seen |-> r.seen, record |-> r.record],
           \/ holder' = holder
           \/ holder = {} /\ holder' = {c}
           \/ holder' = {} /\ HoldsPin(c),
           r.at \in {"writing", "comparing", "clearing"} => holder' = {c} /\ (HoldsPin(c) \/ holder = {}),
           r.at \in {"clear", "comparing", "clearing"} => r.record = r.seen,
           r.at = "clearing" => pin' = r.record,
           pin' = pin \/ HoldsPin(c)
    PROVE  SPInv'
  <1>1. chooser'[c] = r /\ \A d \in Choosers \ {c} : chooser'[d] = chooser[d]
    BY DEF SPInv
  <1>2. chooser' = [d \in Choosers |-> chooser'[d]]
    BY DEF SPInv
  <1>3. ASSUME NEW d \in Choosers PROVE ChooserInv(d)'
    <2>1. CASE d = c
      BY <1>1, <2>1 DEF ChooserInv, HoldsPin
    <2>2. CASE d # c
      <3>1. chooser'[d] = chooser[d] /\ ChooserInv(d) /\ ChooserInv(c)
        BY <1>1, <2>2 DEF SPInv
      <3>2. HoldsPin(d) => ~HoldsPin(c) /\ holder = {d}
        BY <2>2, <3>1 DEF ChooserInv
      <3>3. HoldsPin(d) => holder' = {d}
        BY <3>2
      <3>4. HoldsPin(d) => pin' = pin
        BY <3>2
      <3> QED BY <3>1, <3>3, <3>4 DEF ChooserInv, HoldsPin
    <2> QED BY <2>1, <2>2
  <1>4. SweepHolds => ~exists /\ holder # {} /\ \A d \in Choosers : ~HoldsPin(d)
    BY DEF SPInv
  <1>5. SweepHolds => holder' # {} /\ r.at \notin {"writing", "comparing", "clearing"}
    BY <1>4
  <1>6. SweepHolds => \A d \in Choosers : ~HoldsPin(d)'
    BY <1>1, <1>4, <1>5 DEF HoldsPin
  <1>7. SweepHolds' = SweepHolds
    BY DEF SweepHolds
  <1> QED BY <1>2, <1>3, <1>4, <1>5, <1>6, <1>7 DEF SPInv

LEMMA SPInitially == ASSUME SPInit PROVE SPInv
  <1>1. /\ chooser = [c \in Choosers |-> [at |-> "idle", seen |-> NoRecord, record |-> NoRecord]]
        /\ sweep = [at |-> "idle", record |-> NoRecord] /\ deleting = FALSE
    BY DEF SPInit, Choosing, NoSweep
  <1> QED BY <1>1 DEF SPInv, ChooserInv, HoldsPin, SweepHolds

LEMMA AtRest == Choosing = [at |-> Choosing.at, seen |-> Choosing.seen, record |-> Choosing.record]
                /\ Choosing.at = "idle"
  BY DEF Choosing

LEMMA OpensDialogKeeps == ASSUME SPInv, NEW c \in Choosers, OpensDialog(c) PROVE SPInv'
  <1>1. /\ chooser[c].at = "idle" /\ UNCHANGED <<pin, exists, holder, sweep, deleting>>
    BY DEF OpensDialog
  <1>2. PICK seen \in {pin, Invalid} :
            chooser' = [chooser EXCEPT ![c] = [at |-> "shown", seen |-> seen,
                                               record |-> [NoRecord EXCEPT !.rev = picks + 1]]]
    BY DEF OpensDialog, ChooserBecomes
  <1> DEFINE r == [at |-> "shown", seen |-> seen, record |-> [NoRecord EXCEPT !.rev = picks + 1]]
  <1>3. r = [at |-> r.at, seen |-> r.seen, record |-> r.record] /\ r.at = "shown"
    OBVIOUS
  <1>4. chooser' = [chooser EXCEPT ![c] = r]
    BY <1>2
  <1> HIDE DEF r
  <1> QED BY <1>1, <1>3, <1>4, ChooserMoves

LEMMA PicksKeeps == ASSUME SPInv, NEW c \in Choosers, Picks(c) PROVE SPInv'
  <1>1. UNCHANGED <<pin, holder, exists, sweep, deleting>>
    BY DEF Picks, ChooserStays
  <1>2. \/ chooser' = [chooser EXCEPT ![c] = Choosing]
        \/ \E choice : chooser' = [chooser EXCEPT ![c] =
                 [at |-> "write", seen |-> chooser[c].seen, record |-> [chooser[c].record EXCEPT !.model = choice]]]
        \/ chooser' = [chooser EXCEPT ![c] = [at |-> "clear", seen |-> chooser[c].seen, record |-> chooser[c].seen]]
    BY DEF Picks, ChooserBecomes
  <1>3. CASE chooser' = [chooser EXCEPT ![c] = Choosing]
    BY <1>1, <1>3, AtRest, ChooserMoves
  <1>4. ASSUME NEW choice,
               chooser' = [chooser EXCEPT ![c] = [at |-> "write", seen |-> chooser[c].seen,
                                                  record |-> [chooser[c].record EXCEPT !.model = choice]]]
        PROVE  SPInv'
    <2> DEFINE r == [at |-> "write", seen |-> chooser[c].seen, record |-> [chooser[c].record EXCEPT !.model = choice]]
    <2>1. r = [at |-> r.at, seen |-> r.seen, record |-> r.record] /\ r.at = "write"
      OBVIOUS
    <2>2. chooser' = [chooser EXCEPT ![c] = r]
      BY <1>4
    <2> HIDE DEF r
    <2> QED BY <1>1, <2>1, <2>2, ChooserMoves
  <1>5. CASE chooser' = [chooser EXCEPT ![c] = [at |-> "clear", seen |-> chooser[c].seen, record |-> chooser[c].seen]]
    <2> DEFINE r == [at |-> "clear", seen |-> chooser[c].seen, record |-> chooser[c].seen]
    <2>1. r = [at |-> r.at, seen |-> r.seen, record |-> r.record] /\ r.at = "clear" /\ r.record = r.seen
      OBVIOUS
    <2>2. chooser' = [chooser EXCEPT ![c] = r]
      BY <1>5
    <2> HIDE DEF r
    <2> QED BY <1>1, <2>1, <2>2, ChooserMoves
  <1> QED BY <1>2, <1>3, <1>4, <1>5

\* A terminal in another stage of its dialog.
LEMMA StageIs ==
    ASSUME SPInv, NEW c \in Choosers, NEW a
    PROVE  [chooser[c] EXCEPT !.at = a] = [at |-> a, seen |-> chooser[c].seen, record |-> chooser[c].record]
  <1>1. chooser[c] = [at |-> chooser[c].at, seen |-> chooser[c].seen, record |-> chooser[c].record]
    BY DEF SPInv, ChooserInv
  <1> QED BY <1>1

LEMMA TakesPinLockKeeps == ASSUME SPInv, NEW c \in Choosers, TakesPinLock(c) PROVE SPInv'
  <1> DEFINE a == IF chooser[c].at = "write" THEN "writing" ELSE "comparing"
             r == [at |-> a, seen |-> chooser[c].seen, record |-> chooser[c].record]
  <1>1. /\ chooser[c].at \in {"write", "clear"} /\ holder = {} /\ holder' = {c}
        /\ UNCHANGED <<pin, exists, sweep, deleting>>
    BY DEF TakesPinLock, LocksRecord, ChooserStays
  <1>2. chooser' = [chooser EXCEPT ![c] = [chooser[c] EXCEPT !.at = a]]
    BY DEF TakesPinLock, ChooserBecomes
  <1>3. chooser' = [chooser EXCEPT ![c] = r]
    BY <1>2, StageIs
  <1>4. r = [at |-> r.at, seen |-> r.seen, record |-> r.record]
    OBVIOUS
  <1>5. r.at \in {"writing", "comparing"} /\ (r.at = "comparing" => r.record = r.seen)
    BY <1>1 DEF SPInv, ChooserInv
  <1> HIDE DEF r
  <1> QED BY <1>1, <1>3, <1>4, <1>5, ChooserMoves

LEMMA WritesPinKeeps == ASSUME SPInv, NEW c \in Choosers, WritesPin(c) PROVE SPInv'
  <1>1. /\ HoldsPin(c) /\ holder' = {} /\ chooser' = [chooser EXCEPT ![c] = Choosing]
        /\ UNCHANGED <<exists, sweep, deleting>>
    BY DEF WritesPin, ChooserBecomes, ChooserStays, HoldsPin
  <1> QED BY <1>1, AtRest, ChooserMoves

LEMMA ComparesPinKeeps == ASSUME SPInv, NEW c \in Choosers, ComparesPin(c) PROVE SPInv'
  <1> DEFINE r == [at |-> "clearing", seen |-> chooser[c].seen, record |-> chooser[c].record]
  <1>1. /\ chooser[c].at = "comparing" /\ HoldsPin(c) /\ UNCHANGED <<pin, exists, sweep, deleting>>
    BY DEF ComparesPin, ChooserStays, HoldsPin
  <1>2. CASE chooser' = [chooser EXCEPT ![c] = Choosing] /\ holder' = {}
    BY <1>1, <1>2, AtRest, ChooserMoves
  <1>3. CASE /\ pin = chooser[c].record /\ holder' = holder
             /\ chooser' = [chooser EXCEPT ![c] = [chooser[c] EXCEPT !.at = "clearing"]]
    <2>1. chooser' = [chooser EXCEPT ![c] = r]
      BY <1>3, StageIs
    <2>2. r = [at |-> r.at, seen |-> r.seen, record |-> r.record] /\ r.at = "clearing"
      OBVIOUS
    <2>3. r.record = r.seen /\ pin' = r.record /\ holder' = {c}
      BY <1>1, <1>3 DEF SPInv, ChooserInv
    <2> HIDE DEF r
    <2> QED BY <1>1, <1>3, <2>1, <2>2, <2>3, ChooserMoves
  <1> QED BY <1>2, <1>3 DEF ComparesPin, SameRecord, ChooserBecomes

LEMMA ClearsPinKeeps == ASSUME SPInv, NEW c \in Choosers, ClearsPin(c) PROVE SPInv'
  <1>1. /\ HoldsPin(c) /\ holder' = {} /\ chooser' = [chooser EXCEPT ![c] = Choosing]
        /\ UNCHANGED <<exists, sweep, deleting>>
    BY DEF ClearsPin, ChooserBecomes, ChooserStays, HoldsPin
  <1> QED BY <1>1, AtRest, ChooserMoves

\* Steps of the server: the terminals stay as they are.
LEMMA ServerMoves ==
    ASSUME SPInv, UNCHANGED chooser, sweep' = [at |-> sweep'.at, record |-> sweep'.record],
           exists' => exists, deleting' => ~exists',
           holder' = holder \/ holder = {} \/ SweepHolds,
           pin' = pin \/ ~exists',
           SweepHolds' => ~exists' /\ holder' # {} /\ (SweepHolds \/ holder = {})
    PROVE  SPInv'
  <1>1. \A c \in Choosers : ChooserInv(c)
    BY DEF SPInv
  <1>2. SweepHolds \/ holder = {} => \A c \in Choosers : ~HoldsPin(c)
    BY <1>1 DEF SPInv, ChooserInv
  <1>3. \A c \in Choosers : ChooserInv(c)'
    BY <1>1, <1>2 DEF ChooserInv, HoldsPin
  <1>4. SweepHolds' => \A c \in Choosers : ~HoldsPin(c)'
    BY <1>2 DEF HoldsPin
  <1>5. chooser' = [c \in Choosers |-> chooser'[c]]
    BY DEF SPInv
  <1> QED BY <1>3, <1>4, <1>5 DEF SPInv

LEMMA SweepStage ==
    ASSUME SPInv, NEW a
    PROVE  LET t == [sweep EXCEPT !.at = a] IN t = [at |-> t.at, record |-> t.record] /\ t.at = a
  <1>1. sweep = [at |-> sweep.at, record |-> sweep.record]
    BY DEF SPInv
  <1>2. [sweep EXCEPT !.at = a] = [at |-> a, record |-> sweep.record]
    BY <1>1
  <1> QED BY <1>2

LEMMA ListsPinsKeeps == ASSUME SPInv, ListsPins PROVE SPInv'
  <1>1. /\ sweep' = [at |-> "lookup", record |-> pin] /\ UNCHANGED <<pin, holder, exists, chooser, deleting>>
    BY DEF ListsPins, SweepStays
  <1>2. deleting => ~exists
    BY DEF SPInv
  <1>3. sweep' = [at |-> sweep'.at, record |-> sweep'.record] /\ sweep'.at = "lookup"
    BY <1>1
  <1> QED BY <1>1, <1>2, <1>3, ServerMoves DEF SweepHolds

LEMMA LooksUpKeeps == ASSUME SPInv, LooksUp PROVE SPInv'
  <1>1. UNCHANGED <<pin, exists, chooser, deleting>> /\ (deleting => ~exists)
    BY DEF LooksUp, SweepStays, SPInv
  <1>2. CASE ~exists /\ holder = {} /\ holder' = {"server"} /\ sweep' = [sweep EXCEPT !.at = "comparing"]
    <2>1. sweep' = [at |-> sweep'.at, record |-> sweep'.record]
      BY <1>2, SweepStage
    <2>2. holder' # {}
      BY <1>2
    <2> QED BY <1>1, <1>2, <2>1, <2>2, ServerMoves
  <1>3. CASE sweep' = NoSweep /\ holder' = holder
    <2>1. sweep' = [at |-> sweep'.at, record |-> sweep'.record] /\ sweep'.at = "idle"
      BY <1>3 DEF NoSweep
    <2> QED BY <1>1, <1>3, <2>1, ServerMoves DEF SweepHolds
  <1> QED BY <1>2, <1>3 DEF LooksUp, NotFound, LocksRecord

LEMMA SweepComparesKeeps == ASSUME SPInv, SweepCompares PROVE SPInv'
  <1>1. SweepHolds /\ UNCHANGED <<pin, exists, chooser, deleting>> /\ ~exists /\ holder # {}
    BY DEF SweepCompares, SweepStays, SPInv, SweepHolds
  <1>2. CASE sweep' = [sweep EXCEPT !.at = "clearing"] /\ holder' = holder
    <2>1. sweep' = [at |-> sweep'.at, record |-> sweep'.record]
      BY <1>2, SweepStage
    <2> QED BY <1>1, <1>2, <2>1, ServerMoves
  <1>3. CASE sweep' = NoSweep
    <2>1. sweep' = [at |-> sweep'.at, record |-> sweep'.record] /\ sweep'.at = "idle"
      BY <1>3 DEF NoSweep
    <2> QED BY <1>1, <1>3, <2>1, ServerMoves DEF SweepHolds
  <1> QED BY <1>2, <1>3 DEF SweepCompares

LEMMA SweepClearsKeeps == ASSUME SPInv, SweepClears PROVE SPInv'
  <1>1. SweepHolds /\ UNCHANGED <<exists, chooser, deleting>> /\ ~exists /\ sweep' = NoSweep
    BY DEF SweepClears, SweepStays, SPInv, SweepHolds
  <1>2. sweep' = [at |-> sweep'.at, record |-> sweep'.record] /\ sweep'.at = "idle"
    BY <1>1 DEF NoSweep
  <1> QED BY <1>1, <1>2, ServerMoves DEF SweepHolds

LEMMA DeletionKeeps == ASSUME SPInv, SessionGone \/ ClearTrustedSessionModel PROVE SPInv'
  <1>1. UNCHANGED <<chooser, sweep, holder>> /\ ~exists' /\ (pin' = pin \/ ~exists')
    BY DEF SessionGone, ClearTrustedSessionModel, SPInv
  <1>2. sweep = [at |-> sweep.at, record |-> sweep.record] /\ (SweepHolds => ~exists /\ holder # {})
    BY DEF SPInv
  <1>3. exists' => exists
    BY DEF SessionGone, ClearTrustedSessionModel
  <1> QED BY <1>1, <1>2, <1>3, ServerMoves DEF SweepHolds

LEMMA SPInductive == ASSUME SPInv, [SPNext]_spVars PROVE SPInv'
  <1>1. CASE UNCHANGED spVars
    BY <1>1 DEF spVars, SPInv, ChooserInv, HoldsPin, SweepHolds
  <1> QED BY <1>1, OpensDialogKeeps, PicksKeeps, TakesPinLockKeeps, WritesPinKeeps, ComparesPinKeeps, ClearsPinKeeps,
             ListsPinsKeeps, LooksUpKeeps, SweepComparesKeeps, SweepClearsKeeps, DeletionKeeps DEF SPNext

\* The pin of a session that the host knows goes only to a terminal that clears
\* the very record its user saw or writes its user's choice: for any number of
\* terminals.
THEOREM PinsAreKeptHolds == SPSpec => PinsAreKept
  <1>1. SPInit => SPInv
    BY SPInitially
  <1>2. SPInv /\ [SPNext]_spVars => SPInv'
    BY SPInductive
  <1>3. ASSUME SPInv, SPNext, exists, pin' # pin
        PROVE  \E c \in Choosers :
                 \/ pin' = NoRecord /\ chooser[c].at = "clearing" /\ chooser[c].seen = pin
                 \/ pin' = chooser[c].record /\ chooser[c].at = "writing"
    <2>1. ~deleting /\ ~SweepHolds /\ \A c \in Choosers : ChooserInv(c)
      BY <1>3 DEF SPInv
    <2>2. PICK c \in Choosers : WritesPin(c) \/ ClearsPin(c)
      BY <1>3, <2>1 DEF SPNext, OpensDialog, Picks, TakesPinLock, ComparesPin, ListsPins, LooksUp, SweepCompares,
            SweepClears, SessionGone, ClearTrustedSessionModel, SweepHolds
    <2>3. CASE WritesPin(c)
      BY <1>3, <2>3 DEF WritesPin
    <2>4. CASE ClearsPin(c)
      BY <1>3, <2>1, <2>4 DEF ClearsPin, RecordGone, ChooserInv
    <2> QED BY <2>2, <2>3, <2>4
  <1>4. SPInv /\ [SPNext]_spVars =>
          [exists /\ pin # NoRecord /\ pin' # pin =>
             \E c \in Choosers :
                \/ pin' = NoRecord /\ chooser[c].at = "clearing" /\ chooser[c].seen = pin
                \/ pin' = chooser[c].record /\ chooser[c].at = "writing"]_spVars
    BY <1>3
  <1> QED BY <1>1, <1>2, <1>4, PTL DEF SPSpec, PinsAreKept

-----------------------------------------------------------------------------
(* SideMarks: a cached mark is one the host gave at or after the last event, *)
(* and a session that is used is past the versions without a marker.         *)

\* The host said it at or after the last event that was heard, of a session that
\* was past the point where a fork has no marker yet.
SaidSince(said) ==
    \E v \in heard..LastVersion : v > 0 /\ version[v] = said /\ (isFork => v > 1)

VersionsInv ==
    /\ isFork \in BOOLEAN
    /\ version \in Seq({"bare", "marked", "gone"}) /\ LastVersion > 0
    /\ heard \in 0..LastVersion

KnownInv == /\ knownMark \in {"unknown", "marked", "normal"}
            /\ knownMark = "marked" => SaidSince("marked")
            /\ knownMark = "normal" => SaidSince("bare")

\* An answer that nothing was heard since is of the last version heard or later.
UseInv(u) ==
    /\ use[u].pc \in {"asked", "read"} /\ isFork => LastVersion > 1
    /\ use[u].pc = "read" => /\ use[u].seen \in 1..LastVersion
                             /\ isFork => use[u].seen > 1
                             /\ ~use[u].stale => use[u].seen >= heard

UseRecords == [kind : UseKinds \cup {"none"}, pc : {"none", "asked", "read", "done"},
               stale : BOOLEAN, seen : Nat, marker : {"unknown", "marked", "normal"}]

MKInv == /\ VersionsInv /\ KnownInv
         /\ use \in [Uses -> UseRecords]
         /\ \A u \in Uses : UseInv(u)

\* What was said stays said, as long as no event is heard.
LEMMA SaidStays ==
    ASSUME VersionsInv, VersionsInv', heard' = heard, isFork' = isFork,
           LastVersion' >= LastVersion, \A v \in 1..LastVersion : version'[v] = version[v],
           NEW said, SaidSince(said)
    PROVE  SaidSince(said)'
  <1>1. PICK v \in heard..LastVersion : v > 0 /\ version[v] = said /\ (isFork => v > 1)
    BY DEF SaidSince
  <1>2. LastVersion \in Nat /\ LastVersion' \in Nat /\ heard \in Nat
    BY DEF VersionsInv, LastVersion
  <1>3. v \in 1..LastVersion /\ v \in heard'..LastVersion'
    BY <1>1, <1>2
  <1> QED BY <1>1, <1>3 DEF SaidSince

\* A new version keeps everything.
LEMMA AppendKeeps ==
    ASSUME MKInv, NEW v \in {"bare", "marked", "gone"}, version' = Append(version, v),
           UNCHANGED <<isFork, heard, knownMark, use>>
    PROVE  MKInv'
  <1>1. /\ version' \in Seq({"bare", "marked", "gone"}) /\ LastVersion' = LastVersion + 1
        /\ \A w \in 1..LastVersion : version'[w] = version[w]
        /\ LastVersion \in Nat
    BY DEF MKInv, VersionsInv, LastVersion
  <1>2. VersionsInv /\ VersionsInv' /\ LastVersion' >= LastVersion /\ heard' = heard /\ isFork' = isFork
    BY <1>1 DEF MKInv, VersionsInv
  <1>3. KnownInv'
    <2>1. ASSUME SaidSince("marked") PROVE SaidSince("marked")'
      BY <1>1, <1>2, <2>1, SaidStays
    <2>2. ASSUME SaidSince("bare") PROVE SaidSince("bare")'
      BY <1>1, <1>2, <2>2, SaidStays
    <2> QED BY <2>1, <2>2 DEF MKInv, KnownInv
  <1>4. \A u \in Uses : UseInv(u)'
    BY <1>1 DEF MKInv, UseInv, VersionsInv
  <1> QED BY <1>2, <1>3, <1>4 DEF MKInv

\* Steps of one use, that leave the versions alone.
LEMMA UseMoves ==
    ASSUME MKInv, NEW u \in Uses, NEW r \in UseRecords, use' = [use EXCEPT ![u] = r],
           UNCHANGED <<isFork, version, heard>>, KnownInv', UseInv(u)'
    PROVE  MKInv'
  <1>1. VersionsInv'
    BY DEF MKInv, VersionsInv, LastVersion
  <1>2. use' \in [Uses -> UseRecords]
    BY DEF MKInv
  <1>3. ASSUME NEW w \in Uses, w # u PROVE UseInv(w)'
    <2>1. use'[w] = use[w]
      BY <1>3 DEF MKInv
    <2> QED BY <2>1, <1>3 DEF MKInv, UseInv, LastVersion
  <1> QED BY <1>1, <1>2, <1>3 DEF MKInv

LEMMA KnownStays == ASSUME KnownInv, UNCHANGED <<isFork, version, heard, knownMark>> PROVE KnownInv'
  BY DEF KnownInv, SaidSince, LastVersion

LEMMA EventKeeps == ASSUME MKInv, NEW v \in 1..LastVersion, EventHeard(v) PROVE MKInv'
  <1>1. LastVersion \in Nat /\ version[v] \in {"bare", "marked", "gone"}
    BY DEF MKInv, VersionsInv, LastVersion
  <1>2. VersionsInv'
    BY <1>1 DEF EventHeard, MKInv, VersionsInv, LastVersion
  <1>3. KnownInv'
    <2>1. CASE v = 1
      BY <2>1 DEF EventHeard, KnownInv
    <2>2. CASE v # 1
      <3>1. v > 1 /\ v \in heard'..LastVersion' /\ knownMark' = MarkOf(v)
        BY <1>1, <2>2 DEF EventHeard, LastVersion
      <3>2. version' = version /\ isFork' = isFork
        BY DEF EventHeard
      <3>3. ASSUME NEW said, version[v] = said PROVE SaidSince(said)'
        BY <3>1, <3>2, <3>3 DEF SaidSince
      <3>4. \/ version[v] = "gone" /\ MarkOf(v) = "unknown"
            \/ version[v] = "marked" /\ MarkOf(v) = "marked"
            \/ version[v] = "bare" /\ MarkOf(v) = "normal"
        BY <1>1 DEF MarkOf
      <3>5. "gone" # "marked" /\ "gone" # "bare"
        OBVIOUS
      <3>6. CASE version[v] = "gone"
        BY <3>1, <3>4, <3>6 DEF KnownInv
      <3>7. CASE version[v] = "marked"
        <4>1. SaidSince("marked")'
          BY <3>3, <3>7
        <4> QED BY <3>1, <3>4, <3>7, <4>1 DEF KnownInv
      <3>8. CASE version[v] = "bare"
        <4>1. SaidSince("bare")'
          BY <3>3, <3>8
        <4> QED BY <3>1, <3>4, <3>8, <4>1 DEF KnownInv
      <3> QED BY <3>4, <3>6, <3>7, <3>8
    <2> QED BY <2>1, <2>2
  <1>4. use' = [u \in Uses |-> [use[u] EXCEPT !.stale = use[u].pc \in {"asked", "read"}]]
    BY DEF EventHeard, AnswersOutdated
  <1>5. use' \in [Uses -> UseRecords]
    <2>1. ASSUME NEW u \in Uses
          PROVE  [use[u] EXCEPT !.stale = use[u].pc \in {"asked", "read"}] \in UseRecords
      <3>1. use[u] \in UseRecords /\ (use[u].pc \in {"asked", "read"}) \in BOOLEAN
        BY DEF MKInv
      <3> QED BY <3>1 DEF UseRecords
    <2> QED BY <1>4, <2>1
  <1>6. ASSUME NEW u \in Uses PROVE UseInv(u)'
    <2>1. use'[u] = [use[u] EXCEPT !.stale = use[u].pc \in {"asked", "read"}] /\ use[u] \in UseRecords
      BY <1>4 DEF MKInv
    <2>2. /\ use'[u].pc = use[u].pc /\ use'[u].seen = use[u].seen
          /\ use'[u].stale = (use[u].pc \in {"asked", "read"})
      BY <2>1 DEF UseRecords
    <2>3. UNCHANGED <<isFork, version>>
      BY DEF EventHeard
    <2> QED BY <2>2, <2>3 DEF MKInv, UseInv, LastVersion
  <1> QED BY <1>2, <1>3, <1>5, <1>6 DEF MKInv

LEMMA TrimKeeps == ASSUME MKInv, CacheTrimmed PROVE MKInv'
  <1>1. UNCHANGED <<isFork, version, heard, use>> /\ knownMark' = "unknown"
    BY DEF CacheTrimmed
  <1> QED BY <1>1 DEF MKInv, VersionsInv, KnownInv, UseInv, LastVersion

\* Decisions and ends.
LEMMA AfterUse ==
    ASSUME MKInv, NEW u \in Uses, NEW marker \in {"unknown", "marked", "normal"},
           use' = DecidedOn(u, marker)
    PROVE  /\ \E r \in UseRecords : use' = [use EXCEPT ![u] = r]
           /\ use'[u].pc = "done" /\ use'[u].kind = use[u].kind /\ use'[u].marker = marker
  <1>1. use[u] \in UseRecords /\ use \in [Uses -> UseRecords]
    BY DEF MKInv
  <1> DEFINE r == [kind |-> use[u].kind, pc |-> "done", stale |-> FALSE, seen |-> 0, marker |-> marker]
  <1>2. use' = [use EXCEPT ![u] = r]
    BY DEF DecidedOn, Using
  <1>3. r \in UseRecords /\ r.pc = "done" /\ r.kind = use[u].kind /\ r.marker = marker
    BY <1>1 DEF UseRecords
  <1> HIDE DEF r
  <1>4. use'[u] = r
    BY <1>1, <1>2
  <1> QED BY <1>2, <1>3, <1>4

LEMMA BeginKeeps == ASSUME MKInv, NEW u \in Uses, NEW kind \in UseKinds, UseBegins(u, kind) PROVE MKInv'
  <1> DEFINE r1 == [kind |-> kind, pc |-> "asked", stale |-> FALSE, seen |-> 0, marker |-> "unknown"]
             r2 == [kind |-> kind, pc |-> "done", stale |-> FALSE, seen |-> 0, marker |-> knownMark]
  <1>1. UNCHANGED <<isFork, version, heard, knownMark>> /\ (isFork => LastVersion > 1)
    BY DEF UseBegins
  <1>2. use' = [use EXCEPT ![u] = r1] \/ use' = [use EXCEPT ![u] = r2]
    BY DEF UseBegins, Using
  <1>3. r1 \in UseRecords /\ r2 \in UseRecords
    BY DEF UseRecords, MKInv, KnownInv
  <1>4. KnownInv'
    BY <1>1, KnownStays DEF MKInv
  <1>5. use'[u] = r1 \/ use'[u] = r2
    BY <1>2 DEF MKInv
  <1>6. UseInv(u)'
    BY <1>1, <1>5 DEF UseInv, LastVersion
  <1> HIDE DEF r1, r2
  <1> QED BY <1>1, <1>2, <1>3, <1>4, <1>6, UseMoves

LEMMA ReadKeeps == ASSUME MKInv, NEW u \in Uses, HostReads(u) PROVE MKInv'
  <1> DEFINE r == [use[u] EXCEPT !.pc = "read", !.seen = LastVersion]
  <1>1. UNCHANGED <<isFork, version, heard, knownMark>> /\ use[u].pc = "asked"
        /\ use' = [use EXCEPT ![u] = r]
    BY DEF HostReads
  <1>2. LastVersion \in Nat /\ LastVersion > 0 /\ heard \in 0..LastVersion /\ use[u] \in UseRecords
    BY DEF MKInv, VersionsInv, LastVersion
  <1>3. r \in UseRecords /\ r.pc = "read" /\ r.seen = LastVersion
    BY <1>2 DEF UseRecords
  <1>4. KnownInv'
    BY <1>1, KnownStays DEF MKInv
  <1>5. use'[u] = r
    BY <1>1 DEF MKInv
  <1>6. UseInv(u)'
    BY <1>1, <1>2, <1>3, <1>5 DEF UseInv, LastVersion, MKInv
  <1> HIDE DEF r
  <1> QED BY <1>1, <1>3, <1>4, <1>6, UseMoves

LEMMA FailKeeps == ASSUME MKInv, NEW u \in Uses, LookupFails(u) PROVE MKInv'
  <1>1. UNCHANGED <<isFork, version, heard, knownMark>> /\ use' = DecidedOn(u, "unknown")
    BY DEF LookupFails
  <1>2. /\ \E r \in UseRecords : use' = [use EXCEPT ![u] = r]
        /\ use'[u].pc = "done"
    BY <1>1, AfterUse
  <1>3. KnownInv'
    BY <1>1, KnownStays DEF MKInv
  <1>4. UseInv(u)'
    BY <1>2 DEF UseInv
  <1> QED BY <1>1, <1>2, <1>3, <1>4, UseMoves

\* What an answer says was so since the last event that was heard.
LEMMA AnswerIsCurrent ==
    ASSUME MKInv, NEW u \in Uses, use[u].pc = "read",
           NEW marker, marker = IF use[u].stale THEN knownMark ELSE MarkOf(use[u].seen)
    PROVE  /\ marker \in {"unknown", "marked", "normal"}
           /\ marker = "marked" => SaidSince("marked")
           /\ marker = "normal" => SaidSince("bare")
  <1>1. CASE use[u].stale
    BY <1>1 DEF MKInv, KnownInv
  <1>2. CASE ~use[u].stale
    <2>1. /\ use[u].seen \in 1..LastVersion /\ use[u].seen >= heard /\ (isFork => use[u].seen > 1)
          /\ marker = MarkOf(use[u].seen) /\ LastVersion \in Nat /\ heard \in Nat
      BY <1>2 DEF MKInv, UseInv, VersionsInv, LastVersion
    <2>2. version[use[u].seen] \in {"bare", "marked", "gone"}
      BY <2>1 DEF MKInv, VersionsInv, LastVersion
    <2>3. use[u].seen \in heard..LastVersion /\ use[u].seen > 0
      BY <2>1
    <2>4. SaidSince(version[use[u].seen])
      BY <2>1, <2>3 DEF SaidSince
    <2> QED BY <2>1, <2>2, <2>4 DEF MarkOf
  <1>3. use[u].stale \in BOOLEAN
    BY DEF MKInv, UseRecords
  <1> QED BY <1>1, <1>2, <1>3

LEMMA AnswerKeeps == ASSUME MKInv, NEW u \in Uses, LookupAnswers(u) PROVE MKInv'
  <1> DEFINE marker == IF use[u].stale THEN knownMark ELSE MarkOf(use[u].seen)
  <1>1. UNCHANGED <<isFork, version, heard>> /\ use[u].pc = "read" /\ use' = DecidedOn(u, marker)
        /\ knownMark' = IF marker = "unknown" THEN knownMark ELSE marker
    BY DEF LookupAnswers
  <1>2. /\ marker \in {"unknown", "marked", "normal"}
        /\ marker = "marked" => SaidSince("marked")
        /\ marker = "normal" => SaidSince("bare")
    BY <1>1, AnswerIsCurrent
  <1> HIDE DEF marker
  <1>3. /\ \E r \in UseRecords : use' = [use EXCEPT ![u] = r]
        /\ use'[u].pc = "done"
    BY <1>1, <1>2, AfterUse
  <1>4. (SaidSince("marked") <=> SaidSince("marked")') /\ (SaidSince("bare") <=> SaidSince("bare")')
    BY <1>1 DEF SaidSince, LastVersion
  <1>5. KnownInv'
    BY <1>1, <1>2, <1>4 DEF MKInv, KnownInv
  <1>6. UseInv(u)'
    BY <1>3 DEF UseInv
  <1> QED BY <1>1, <1>3, <1>5, <1>6, UseMoves

LEMMA EndKeeps == ASSUME MKInv, NEW u \in Uses, UseEnds(u) PROVE MKInv'
  <1>1. UNCHANGED <<isFork, version, heard, knownMark>> /\ use' = [use EXCEPT ![u] = NoUse]
    BY DEF UseEnds
  <1>2. NoUse \in UseRecords /\ NoUse.pc = "none"
    BY DEF NoUse, Using, UseRecords
  <1>3. KnownInv'
    BY <1>1, KnownStays DEF MKInv
  <1>4. UseInv(u)'
    BY <1>1, <1>2 DEF UseInv, MKInv
  <1> QED BY <1>1, <1>2, <1>3, <1>4, UseMoves

LEMMA MKInitially == ASSUME MKInit PROVE MKInv
  <1>1. version \in Seq({"bare", "marked", "gone"}) /\ LastVersion = 1
    BY DEF MKInit, LastVersion
  <1>2. NoUse \in UseRecords /\ NoUse.pc = "none"
    BY DEF NoUse, Using, UseRecords
  <1> QED BY <1>1, <1>2 DEF MKInit, MKInv, VersionsInv, KnownInv, UseInv

LEMMA MKInductive == ASSUME MKInv, [MKNext]_mkVars PROVE MKInv'
  <1>1. CASE UNCHANGED mkVars
    BY <1>1 DEF mkVars, MKInv, VersionsInv, KnownInv, UseInv, SaidSince, LastVersion
  <1>2. CASE VersionAdded
    BY <1>2, AppendKeeps DEF VersionAdded
  <1>3. CASE VersionGone
    BY <1>3, AppendKeeps DEF VersionGone
  <1> QED BY <1>1, <1>2, <1>3, EventKeeps, TrimKeeps, BeginKeeps, ReadKeeps, FailKeeps, AnswerKeeps,
             EndKeeps DEF MKNext

\* What a step decides by.
LEMMA DecidesByMarks ==
    ASSUME MKInv, MKNext, NEW u \in Uses, use[u].pc # "done", use'[u].pc = "done"
    PROVE  /\ Runs(u)' => SaidSince("bare")
           /\ AsAFork(u)' => SaidSince("marked")
  <1> DEFINE Step(w) == \/ \E kind \in UseKinds : UseBegins(w, kind)
                        \/ HostReads(w) \/ LookupFails(w) \/ LookupAnswers(w) \/ UseEnds(w)
  <1>1. PICK w \in Uses : Step(w)
    <2>1. ASSUME NEW v \in 1..LastVersion, EventHeard(v) PROVE FALSE
      <3>1. use' = [x \in Uses |-> [use[x] EXCEPT !.stale = use[x].pc \in {"asked", "read"}]]
        BY <2>1 DEF EventHeard, AnswersOutdated
      <3>2. use'[u].pc = use[u].pc
        BY <3>1 DEF MKInv, UseRecords
      <3> QED BY <3>2
    <2>2. ASSUME VersionAdded \/ VersionGone \/ CacheTrimmed PROVE FALSE
      BY <2>2 DEF VersionAdded, VersionGone, CacheTrimmed
    <2>3. \E w \in Uses : Step(w)
      BY <2>1, <2>2 DEF MKNext
    <2> QED BY <2>3
  <1>2. use \in [Uses -> UseRecords]
    BY DEF MKInv
  <1>3. w = u
    BY <1>1, <1>2 DEF UseBegins, HostReads, LookupFails, LookupAnswers, UseEnds, DecidedOn
  <1>4. CASE \E kind \in UseKinds : UseBegins(u, kind)
    <2>1. PICK kind \in UseKinds : UseBegins(u, kind)
      BY <1>4
    <2>2. use'[u] = IF knownMark = "unknown" THEN Using(kind, "asked", "unknown")
                    ELSE Using(kind, "done", knownMark)
      BY <1>2, <2>1 DEF UseBegins
    <2>5. use'[u].marker = knownMark
      BY <2>2 DEF Using
    <2> QED BY <2>5 DEF Runs, AsAFork, MKInv, KnownInv
  <1>5. CASE HostReads(u) \/ UseEnds(u)
    <2>1. use'[u].pc # "done"
      BY <1>2, <1>5 DEF HostReads, UseEnds, NoUse, Using, UseRecords
    <2> QED BY <2>1
  <1>6. CASE LookupFails(u)
    <2>1. use'[u].marker = "unknown"
      BY <1>6, AfterUse DEF LookupFails
    <2> QED BY <2>1 DEF Runs, AsAFork
  <1>7. CASE LookupAnswers(u)
    <2> DEFINE marker == IF use[u].stale THEN knownMark ELSE MarkOf(use[u].seen)
    <2>1. use[u].pc = "read" /\ use' = DecidedOn(u, marker)
      BY <1>7 DEF LookupAnswers
    <2>2. /\ marker \in {"unknown", "marked", "normal"}
          /\ marker = "marked" => SaidSince("marked")
          /\ marker = "normal" => SaidSince("bare")
      BY <2>1, AnswerIsCurrent
    <2> HIDE DEF marker
    <2>3. use'[u].marker = marker
      BY <2>1, <2>2, AfterUse
    <2> QED BY <2>2, <2>3 DEF Runs, AsAFork
  <1> QED BY <1>1, <1>3, <1>4, <1>5, <1>6, <1>7

\* A side question runs what could change something only in a session that the
\* host called normal since the last event heard, and is treated as a fork only
\* where it said so: for any number of tool calls, prompts and answers in flight.
THEOREM MarksAreCurrentHolds == MKSpec => DecidedOnCurrentMarks
  <1>1. MKInit => MKInv
    BY MKInitially
  <1>2. MKInv /\ [MKNext]_mkVars => MKInv'
    BY MKInductive
  <1>3. ASSUME MKInv, MKNext
        PROVE  \A u \in Uses : use[u].pc # "done" /\ use'[u].pc = "done" =>
                  LET Since(said) == \E v \in heard..LastVersion :
                                        v > 0 /\ version[v] = said /\ (isFork => v > 1)
                  IN  /\ Runs(u)' => Since("bare")
                      /\ AsAFork(u)' => Since("marked")
    BY <1>3, DecidesByMarks DEF SaidSince
  <1>4. MKInv /\ [MKNext]_mkVars =>
           [\A u \in Uses : use[u].pc # "done" /\ use'[u].pc = "done" =>
               LET Since(said) == \E v \in heard..LastVersion :
                                     v > 0 /\ version[v] = said /\ (isFork => v > 1)
               IN  /\ Runs(u)' => Since("bare")
                   /\ AsAFork(u)' => Since("marked")]_mkVars
    BY <1>3
  <1> QED BY <1>1, <1>2, <1>4, PTL DEF MKSpec, DecidedOnCurrentMarks

-----------------------------------------------------------------------------
(* SideForks: who owns a fork, and which of them is the active question's.    *)

Freed(q) == \E p \in Questions : start[p].frees = q

Early == {"none", "release", "fork"}
Late == {"prompt", "undo", "failed", "end"}

FKTypeOK ==
    /\ startGen \in Nat /\ startPending \in BOOLEAN
    /\ active \in Questions \cup {0} /\ sweeping \in Questions \cup {0}
    /\ start \in [Questions -> [pc : Early \cup Late \cup {"mark", "prepared", "empty"}, gen : Nat,
                                frees : Questions \cup {0}, lost : BOOLEAN]]
    /\ fork \in [Questions -> {"none", "live", "deleted"}]
    /\ lease \in [Questions -> {"none", "fresh", "stale"}]
    /\ terminal \in {"up", "asleep", "disposing", "down"}
    /\ losses \in Nat

\* Of the questions asked the latest is told by its number; the active one is it.
GenInv ==
    /\ \A q \in Questions : start[q].gen <= startGen
    /\ terminal # "down" =>
          \A p, q \in Questions : start[p].pc # "none" /\ start[q].pc # "none" /\ p # q =>
             start[p].gen # start[q].gen
    /\ terminal = "disposing" =>
          \A q \in Questions : start[q].pc # "none" => start[q].gen < startGen
    /\ terminal \in {"up", "asleep"} /\ active # 0 => start[active].gen = startGen

\* What each stage of a start has made.
StageInv(q) ==
    /\ start[q].pc \in Early => fork[q] = "none"
    /\ start[q].pc \in Early \cup {"mark"} => lease[q] = "none"
    /\ start[q].pc = "mark" => fork[q] = "live"
    /\ start[q].pc \in {"prepared", "empty", "prompt"} => lease[q] # "none"
    /\ active = q => start[q].pc \in Late
    /\ Freed(q) => active # q /\ start[q].pc \in Late
    /\ start[q].pc # "release" => start[q].frees = 0
    /\ sweeping = q => lease[q] # "none"

\* A fork that is over has an owner, or a deletion failed.
LeftInv(q) ==
    /\ fork[q] = "live" /\ start[q].pc \in {"prompt", "failed", "end"} /\ active # q /\ ~Freed(q) =>
          losses > 0 \/ terminal = "down"
    /\ fork[q] = "live" /\ start[q].pc = "failed" => losses > 0
    /\ fork[q] = "live" /\ start[q].pc \in {"failed", "end"} =>
          lease[q] # "none" \/ start[q].lost \/ q \in failedBoth
    /\ start[q].lost => terminal = "down"

\* Nobody sweeps the fork of a terminal that did not sleep.
OwnedInv(q) ==
    terminal # "down" /\ (active = q \/ start[q].pc = "prepared") /\ q \notin slept =>
       /\ lease[q] = "fresh" /\ sweeping # q
       /\ fork[q] = "live" \/ start[q].pc = "failed" \/ terminal = "disposing"

FKInv == /\ FKTypeOK /\ GenInv
         /\ \A q \in Questions : StageInv(q) /\ LeftInv(q) /\ OwnedInv(q)

ForkInv(q) == StageInv(q) /\ LeftInv(q) /\ OwnedInv(q)

\* What a step does to a question it is not about.
Untouched(w) ==
    /\ start'[w] = start[w] /\ fork'[w] = fork[w] /\ lease'[w] = lease[w]
    /\ active' = w <=> active = w
    /\ Freed(w)' <=> Freed(w)
    /\ losses' \in Nat /\ losses' >= losses /\ terminal' = terminal
    /\ failedBoth \subseteq failedBoth' /\ slept \subseteq slept'
    /\ sweeping' = sweeping \/ sweeping' # w

LEMMA StaysUntouched == ASSUME FKTypeOK, NEW w \in Questions, ForkInv(w), Untouched(w) PROVE ForkInv(w)'
  <1>1. losses \in Nat
    BY DEF FKTypeOK
  <1>2. StageInv(w)'
    BY DEF ForkInv, StageInv, Untouched
  <1>3. LeftInv(w)'
    BY <1>1 DEF ForkInv, LeftInv, Untouched, FKTypeOK
  <1>4. OwnedInv(w)'
    BY DEF ForkInv, OwnedInv, Untouched
  <1> QED BY <1>2, <1>3, <1>4 DEF ForkInv

\* Who frees what, after a step of one start.
LEMMA FreesStay ==
    ASSUME FKTypeOK, NEW q \in Questions, NEW w \in Questions,
           \A p \in Questions : p # q => start'[p] = start[p],
           start'[q].frees = w <=> start[q].frees = w
    PROVE  Freed(w)' <=> Freed(w)
  <1>1. \A p \in Questions : start'[p].frees = w <=> start[p].frees = w
    OBVIOUS
  <1> QED BY <1>1 DEF Freed

\* A step of one start, as StartGoes makes it.
LEMMA StageGoes ==
    ASSUME FKTypeOK, NEW q \in Questions,
           NEW stage \in Early \cup Late \cup {"mark", "prepared", "empty"}, StartGoes(q, stage)
    PROVE  /\ start' \in [Questions -> [pc : Early \cup Late \cup {"mark", "prepared", "empty"},
                                        gen : Nat, frees : Questions \cup {0}, lost : BOOLEAN]]
           /\ start'[q].pc = stage /\ start'[q].gen = start[q].gen
           /\ start'[q].frees = start[q].frees /\ start'[q].lost = start[q].lost
           /\ \A p \in Questions : p # q => start'[p] = start[p]
           /\ \A w \in Questions : Freed(w)' <=> Freed(w)
  <1>1. /\ start' \in [Questions -> [pc : Early \cup Late \cup {"mark", "prepared", "empty"},
                                     gen : Nat, frees : Questions \cup {0}, lost : BOOLEAN]]
        /\ start'[q].pc = stage /\ start'[q].gen = start[q].gen
        /\ start'[q].frees = start[q].frees /\ start'[q].lost = start[q].lost
        /\ \A p \in Questions : p # q => start'[p] = start[p]
    BY DEF StartGoes, FKTypeOK
  <1>2. ASSUME NEW w \in Questions PROVE Freed(w)' <=> Freed(w)
    BY <1>1, FreesStay
  <1> QED BY <1>1, <1>2

\* The numbers of the questions survive a step of one that was asked.
LEMMA GensStay ==
    ASSUME FKTypeOK, GenInv, NEW q \in Questions, start[q].pc # "none",
           NEW stage \in Early \cup Late \cup {"mark", "prepared", "empty"}, StartGoes(q, stage),
           startGen' = startGen, terminal' = terminal, active' \in {active, 0}
    PROVE  GenInv'
  <1>1. /\ \A p \in Questions : start'[p].gen = start[p].gen
        /\ \A p \in Questions : p # q => start'[p] = start[p]
    BY StageGoes
  <1>2. \A p \in Questions : start'[p].pc # "none" => start[p].pc # "none"
    BY <1>1
  <1>3. active \in Questions \cup {0}
    BY DEF FKTypeOK
  <1> QED BY <1>1, <1>2, <1>3 DEF GenInv

FKRest == GenInv /\ \A q \in Questions : ForkInv(q)

LEMMA InvParts == FKInv <=> FKTypeOK /\ FKRest
  BY DEF FKInv, FKRest, ForkInv

\* A deletion, as the invariant sees it.
LEMMA DeletesOrNot ==
    ASSUME FKTypeOK, NEW q \in Questions, DeleteOrNot(q)
    PROVE  /\ fork' \in [Questions -> {"none", "live", "deleted"}]
           /\ losses' \in Nat /\ losses' >= losses
           /\ \A w \in Questions : w # q => fork'[w] = fork[w]
           /\ fork'[q] = "deleted" \/ (fork'[q] = fork[q] /\ losses' > 0)
  BY DEF DeleteOrNot, RequestLost, FKTypeOK

LEMMA MakeForkKeeps == ASSUME FKInv, NEW q \in Questions, MakeFork(q) PROVE FKInv'
  <1>1. /\ FKTypeOK /\ GenInv /\ \A w \in Questions : ForkInv(w)
        /\ UNCHANGED <<startGen, startPending, active, lease, terminal, sweeping, slept, failedBoth>>
        /\ start[q].pc = "fork"
    BY InvParts DEF MakeFork, FKRest
  <1>2. PICK stage \in {"mark", "failed"} : StartGoes(q, stage) /\ (stage = "mark" => fork' = [fork EXCEPT ![q] = "live"])
                     /\ (stage = "failed" => fork' = fork) /\ losses' \in Nat /\ losses' >= losses
    BY <1>1 DEF MakeFork, RequestLost, FKTypeOK
  <1>3. FKTypeOK'
    BY <1>1, <1>2, StageGoes DEF FKTypeOK, Early, Late
  <1>4. GenInv'
    BY <1>1, <1>2, GensStay DEF Early, Late
  <1>5. ASSUME NEW w \in Questions, w # q PROVE ForkInv(w)'
    <2>1. Untouched(w)
      BY <1>1, <1>2, <1>5, StageGoes DEF Untouched, FKTypeOK, Early, Late
    <2> QED BY <1>1, <2>1, StaysUntouched
  <1>6. ForkInv(q)'
    <2>1. start'[q].pc \in {"mark", "failed"} /\ start'[q].lost = start[q].lost /\ start'[q].frees = start[q].frees
          /\ (start'[q].pc = "mark" => fork'[q] = "live") /\ (start'[q].pc = "failed" => fork'[q] = fork[q])
          /\ (Freed(q)' <=> Freed(q))
      BY <1>1, <1>2, StageGoes DEF FKTypeOK, Early, Late
    <2> QED BY <1>1, <2>1 DEF ForkInv, StageInv, LeftInv, OwnedInv, Early, Late
  <1> QED BY <1>3, <1>4, <1>5, <1>6 DEF FKInv, ForkInv


LEMMA MarkForkKeeps == ASSUME FKInv, NEW q \in Questions, MarkFork(q) PROVE FKInv'
  <1>1. /\ FKTypeOK /\ GenInv /\ \A w \in Questions : ForkInv(w)
        /\ UNCHANGED <<startGen, startPending, active, fork, terminal, sweeping, slept, failedBoth>>
        /\ start[q].pc = "mark"
    BY InvParts DEF MarkFork, FKRest
  <1>2. PICK stage \in {"prepared", "empty", "undo"} :
           /\ StartGoes(q, stage)
           /\ stage \in {"prepared", "empty"} => lease' = [lease EXCEPT ![q] = "fresh"]
           /\ stage = "undo" => lease' = lease
           /\ losses' \in Nat /\ losses' >= losses
    BY <1>1 DEF MarkFork, RequestLost, FKTypeOK
  <1>3. FKTypeOK'
    BY <1>1, <1>2, StageGoes DEF FKTypeOK, Early, Late
  <1>4. GenInv'
    BY <1>1, <1>2, GensStay DEF Early, Late
  <1>5. ASSUME NEW w \in Questions, w # q PROVE ForkInv(w)'
    <2>1. Untouched(w)
      BY <1>1, <1>2, <1>5, StageGoes DEF Untouched, FKTypeOK, Early, Late
    <2> QED BY <1>1, <2>1, StaysUntouched
  <1>6. ForkInv(q)'
    <2>1. /\ start'[q].pc = stage /\ start'[q].lost = start[q].lost /\ start'[q].frees = start[q].frees
          /\ stage \in {"prepared", "empty"} => lease'[q] = "fresh"
          /\ stage = "undo" => lease'[q] = lease[q]
          /\ (Freed(q)' <=> Freed(q))
      BY <1>1, <1>2, StageGoes DEF FKTypeOK, Early, Late
    <2>2. StageInv(q)' /\ LeftInv(q)'
      BY <1>1, <1>2, <2>1 DEF ForkInv, StageInv, LeftInv, Early, Late
    <2>3. OwnedInv(q)'
      BY <1>1, <1>2, <2>1 DEF ForkInv, StageInv, OwnedInv, Early, Late
    <2> QED BY <2>2, <2>3 DEF ForkInv
  <1> QED BY <1>3, <1>4, <1>5, <1>6 DEF FKInv, ForkInv

\* Only the latest question becomes active, and nothing was before.
LEMMA InstallKeeps == ASSUME FKInv, NEW q \in Questions, Install(q) PROVE FKInv'
  <1>1. /\ FKTypeOK /\ GenInv /\ \A w \in Questions : ForkInv(w)
        /\ UNCHANGED <<startGen, fork, lease, terminal, sweeping, slept, failedBoth>>
        /\ start[q].pc = "prepared" /\ terminal \in {"up", "disposing"}
    BY InvParts DEF Install, FKRest, Awake
  <1>2. CASE ~Superseded(q) /\ startPending' = FALSE /\ active' = q /\ StartGoes(q, "prompt") /\ UNCHANGED losses
    <2>1. start[q].gen = startGen
      BY <1>2 DEF Superseded, IsLatest
    <2>2. terminal = "up"
      <3>1. startGen \in Nat /\ start[q].gen \in Nat
        BY <1>1 DEF FKTypeOK
      <3> QED BY <1>1, <2>1, <3>1 DEF GenInv
    <2>3. active = 0
      <3>1. SUFFICES ASSUME active # 0 PROVE FALSE
        OBVIOUS
      <3>2. active \in Questions /\ start[active].gen = startGen /\ start[active].pc \in Late
        BY <1>1, <2>2, <3>1 DEF FKTypeOK, GenInv, ForkInv, StageInv
      <3>3. start[q].pc # "none" /\ start[active].pc # "none" /\ active # q
        BY <1>1, <3>2 DEF Late
      <3> QED BY <1>1, <2>1, <2>2, <3>2, <3>3 DEF GenInv
    <2>4. /\ start'[q].pc = "prompt" /\ start'[q].lost = start[q].lost /\ start'[q].frees = start[q].frees
          /\ start'[q].gen = start[q].gen
          /\ \A p \in Questions : p # q => start'[p] = start[p]
          /\ \A w \in Questions : Freed(w)' <=> Freed(w)
      BY <1>1, <1>2, StageGoes DEF Late
    <2>5. FKTypeOK'
      BY <1>1, <1>2, StageGoes DEF FKTypeOK, Late
    <2>6. GenInv'
      <3>1. \A p \in Questions : start'[p].gen = start[p].gen /\ (start'[p].pc # "none" => start[p].pc # "none")
        BY <1>1, <2>4
      <3> QED BY <1>1, <1>2, <2>1, <2>2, <3>1 DEF GenInv
    <2>7. ASSUME NEW w \in Questions, w # q PROVE ForkInv(w)'
      <3>1. w # 0 /\ losses \in Nat
        BY <1>1 DEF FKTypeOK, Questions
      <3>2. Untouched(w)
        BY <1>1, <1>2, <2>3, <2>4, <2>7, <3>1 DEF Untouched
      <3> QED BY <1>1, <3>2, StaysUntouched
    <2>8. ForkInv(q)'
      <3>1. StageInv(q)' /\ LeftInv(q)'
        BY <1>1, <1>2, <2>4 DEF ForkInv, StageInv, LeftInv, Early, Late
      <3>2. OwnedInv(q)'
        BY <1>1, <1>2, <2>4 DEF ForkInv, OwnedInv
      <3> QED BY <3>1, <3>2 DEF ForkInv
    <2> QED BY <2>5, <2>6, <2>7, <2>8 DEF FKInv, ForkInv
  <1>3. CASE StartGoes(q, "undo") /\ UNCHANGED <<startPending, active>> /\ losses' \in {losses, losses + 1}
    <2>1. FKTypeOK'
      BY <1>1, <1>3, StageGoes DEF FKTypeOK, Late
    <2>2. GenInv'
      BY <1>1, <1>3, GensStay DEF Late
    <2>3. ASSUME NEW w \in Questions, w # q PROVE ForkInv(w)'
      <3>1. Untouched(w)
        BY <1>1, <1>3, <2>3, StageGoes DEF Untouched, FKTypeOK, Late
      <3> QED BY <1>1, <3>1, StaysUntouched
    <2>4. ForkInv(q)'
      <3>1. /\ start'[q].pc = "undo" /\ start'[q].lost = start[q].lost /\ start'[q].frees = start[q].frees
            /\ (Freed(q)' <=> Freed(q))
        BY <1>1, <1>3, StageGoes DEF Late
      <3> QED BY <1>1, <1>3, <3>1 DEF ForkInv, StageInv, LeftInv, OwnedInv, Early, Late
    <2> QED BY <2>1, <2>2, <2>3, <2>4 DEF FKInv, ForkInv
  <1> QED BY <1>2, <1>3 DEF Install

\* Stages that change nothing but where a start stands.
LEMMA PromptedKeeps == ASSUME FKInv, NEW q \in Questions, Prompted(q) PROVE FKInv'
  <1>1. /\ FKTypeOK /\ GenInv /\ \A w \in Questions : ForkInv(w)
        /\ UNCHANGED <<startGen, startPending, active, fork, lease, terminal, sweeping, slept, failedBoth>>
        /\ start[q].pc = "prompt"
    BY InvParts DEF Prompted, FKRest
  <1>2. PICK stage \in {"end", "undo"} : StartGoes(q, stage) /\ losses' \in Nat /\ losses' >= losses
    BY <1>1 DEF Prompted, RequestLost, FKTypeOK
  <1>3. FKTypeOK'
    BY <1>1, <1>2, StageGoes DEF FKTypeOK, Late
  <1>4. GenInv'
    BY <1>1, <1>2, GensStay DEF Late
  <1>5. ASSUME NEW w \in Questions, w # q PROVE ForkInv(w)'
    <2>1. Untouched(w)
      BY <1>1, <1>2, <1>5, StageGoes DEF Untouched, FKTypeOK, Late
    <2> QED BY <1>1, <2>1, StaysUntouched
  <1>6. ForkInv(q)'
    <2>1. /\ start'[q].pc \in {"end", "undo"} /\ start'[q].lost = start[q].lost
          /\ start'[q].frees = start[q].frees /\ (Freed(q)' <=> Freed(q)) /\ losses \in Nat
      BY <1>1, <1>2, StageGoes DEF FKTypeOK, Late
    <2>2. StageInv(q)' /\ OwnedInv(q)'
      BY <1>1, <1>2, <2>1 DEF ForkInv, StageInv, OwnedInv, Early, Late
    <2>3. LeftInv(q)'
      BY <1>1, <1>2, <2>1 DEF ForkInv, StageInv, LeftInv
    <2> QED BY <2>2, <2>3 DEF ForkInv
  <1> QED BY <1>3, <1>4, <1>5, <1>6 DEF FKInv, ForkInv

\* A deletion that fails is the reason why a fork is left.
LEMMA UndoKeeps == ASSUME FKInv, NEW q \in Questions, Undo(q) PROVE FKInv'
  <1>1. /\ FKTypeOK /\ GenInv /\ \A w \in Questions : ForkInv(w)
        /\ UNCHANGED <<startGen, startPending, active, lease, terminal, sweeping, slept>>
        /\ start[q].pc = "undo" /\ StartGoes(q, "failed") /\ DeleteOrNot(q)
        /\ failedBoth \subseteq failedBoth'
        /\ fork'[q] = "live" /\ lease[q] = "none" => q \in failedBoth'
    BY InvParts DEF Undo, FKRest
  <1>2. /\ fork' \in [Questions -> {"none", "live", "deleted"}] /\ losses' \in Nat /\ losses' >= losses
        /\ \A w \in Questions : w # q => fork'[w] = fork[w]
        /\ fork'[q] = "deleted" \/ (fork'[q] = fork[q] /\ losses' > 0)
    BY <1>1, DeletesOrNot
  <1>3. FKTypeOK'
    BY <1>1, <1>2, StageGoes DEF FKTypeOK, Late
  <1>4. GenInv'
    BY <1>1, <1>2, GensStay DEF Late
  <1>5. ASSUME NEW w \in Questions, w # q PROVE ForkInv(w)'
    <2>1. Untouched(w)
      BY <1>1, <1>2, <1>5, StageGoes DEF Untouched, Late
    <2> QED BY <1>1, <2>1, StaysUntouched
  <1>6. ForkInv(q)'
    <2>1. /\ start'[q].pc = "failed" /\ start'[q].lost = start[q].lost
          /\ start'[q].frees = start[q].frees /\ (Freed(q)' <=> Freed(q))
      BY <1>1, StageGoes DEF Late
    <2>2. StageInv(q)' /\ OwnedInv(q)'
      BY <1>1, <1>2, <2>1 DEF ForkInv, StageInv, OwnedInv, Early, Late
    <2>3. LeftInv(q)'
      BY <1>1, <1>2, <2>1 DEF ForkInv, LeftInv
    <2> QED BY <2>2, <2>3 DEF ForkInv
  <1> QED BY <1>3, <1>4, <1>5, <1>6 DEF FKInv, ForkInv

LEMMA DiscardKeeps == ASSUME FKInv, NEW q \in Questions, Discard(q) PROVE FKInv'
  <1>1. /\ FKTypeOK /\ GenInv /\ \A w \in Questions : ForkInv(w)
        /\ UNCHANGED <<startGen, active, lease, terminal, sweeping, slept, failedBoth>>
        /\ start[q].pc = "empty" /\ StartGoes(q, "end") /\ DeleteOrNot(q)
        /\ startPending' \in BOOLEAN
    BY InvParts DEF Discard, FKRest
  <1>2. /\ fork' \in [Questions -> {"none", "live", "deleted"}] /\ losses' \in Nat /\ losses' >= losses
        /\ \A w \in Questions : w # q => fork'[w] = fork[w]
        /\ fork'[q] = "deleted" \/ (fork'[q] = fork[q] /\ losses' > 0)
    BY <1>1, DeletesOrNot
  <1>3. FKTypeOK'
    BY <1>1, <1>2, StageGoes DEF FKTypeOK, Late
  <1>4. GenInv'
    BY <1>1, <1>2, GensStay DEF Late
  <1>5. ASSUME NEW w \in Questions, w # q PROVE ForkInv(w)'
    <2>1. Untouched(w)
      BY <1>1, <1>2, <1>5, StageGoes DEF Untouched, Late
    <2> QED BY <1>1, <2>1, StaysUntouched
  <1>6. ForkInv(q)'
    <2>1. /\ start'[q].pc = "end" /\ start'[q].lost = start[q].lost
          /\ start'[q].frees = start[q].frees /\ (Freed(q)' <=> Freed(q))
      BY <1>1, StageGoes DEF Late
    <2>2. StageInv(q)' /\ OwnedInv(q)'
      BY <1>1, <1>2, <2>1 DEF ForkInv, StageInv, OwnedInv, Early, Late
    <2>3. LeftInv(q)'
      BY <1>1, <1>2, <2>1 DEF ForkInv, StageInv, LeftInv
    <2> QED BY <2>2, <2>3 DEF ForkInv
  <1> QED BY <1>3, <1>4, <1>5, <1>6 DEF FKInv, ForkInv

\* The error of a start that failed takes its own fork from the controller, and
\* no other: the active one is the latest.
LEMMA FailedKeeps == ASSUME FKInv, NEW q \in Questions, StartFailed(q) PROVE FKInv'
  <1>1. /\ FKTypeOK /\ GenInv /\ \A w \in Questions : ForkInv(w)
        /\ UNCHANGED <<startGen, fork, lease, terminal, sweeping, slept, failedBoth, losses>>
        /\ start[q].pc = "failed" /\ StartGoes(q, "end") /\ terminal \in {"up", "disposing"}
        /\ startPending' \in BOOLEAN
        /\ IF IsLatest(q) THEN active' = 0 ELSE active' = active
    BY InvParts DEF StartFailed, FKRest, Awake, fkBounds, FKTypeOK
  <1>2. /\ start'[q].pc = "end" /\ start'[q].lost = start[q].lost /\ start'[q].frees = start[q].frees
        /\ \A p \in Questions : p # q => start'[p] = start[p]
        /\ \A w \in Questions : Freed(w)' <=> Freed(w)
    BY <1>1, StageGoes DEF Late
  <1>3. active' \in {active, 0}
    BY <1>1
  <1>4. ASSUME NEW w \in Questions, w # q PROVE active' = w <=> active = w
    <2>1. CASE IsLatest(q)
      <3>1. startGen \in Nat /\ start[q].gen \in Nat /\ w # 0
        BY <1>1 DEF FKTypeOK, Questions
      <3>2. terminal = "up"
        BY <1>1, <2>1, <3>1 DEF GenInv, IsLatest
      <3>3. ASSUME active = w PROVE FALSE
        <4>1. start[w].gen = startGen /\ start[w].pc \in Late
          BY <1>1, <3>1, <3>2, <3>3 DEF GenInv, ForkInv, StageInv
        <4>2. start[w].pc # "none" /\ start[q].pc # "none"
          BY <1>1, <4>1 DEF Late
        <4> QED BY <1>1, <1>4, <2>1, <3>2, <4>1, <4>2 DEF GenInv, IsLatest
      <3> QED BY <1>1, <2>1, <3>1, <3>3
    <2>2. CASE ~IsLatest(q)
      BY <1>1, <2>2
    <2> QED BY <2>1, <2>2
  <1>5. active' = q => terminal = "disposing"
    <2>1. ASSUME active' = q PROVE terminal = "disposing"
      <3>1. q # 0
        BY DEF Questions
      <3>2. active = q /\ ~IsLatest(q)
        BY <1>1, <2>1, <3>1
      <3> QED BY <1>1, <3>1, <3>2 DEF GenInv, IsLatest
    <2> QED BY <2>1
  <1>6. FKTypeOK'
    BY <1>1, <1>3, StageGoes DEF FKTypeOK, Late
  <1>7. GenInv'
    BY <1>1, <1>3, GensStay DEF Late
  <1>8. ASSUME NEW w \in Questions, w # q PROVE ForkInv(w)'
    <2>1. Untouched(w)
      BY <1>1, <1>2, <1>4, <1>8 DEF Untouched, FKTypeOK
    <2> QED BY <1>1, <2>1, StaysUntouched
  <1>9. ForkInv(q)'
    <2>1. StageInv(q)' /\ OwnedInv(q)'
      BY <1>1, <1>2, <1>3, <1>5 DEF ForkInv, StageInv, OwnedInv, Early, Late, Questions
    <2>2. LeftInv(q)'
      BY <1>1, <1>2, <1>3 DEF ForkInv, LeftInv
    <2> QED BY <2>1, <2>2 DEF ForkInv
  <1> QED BY <1>6, <1>7, <1>8, <1>9 DEF FKInv, ForkInv


\* The next question takes the active fork to free it.
LEMMA BeginQuestionKeeps == ASSUME FKInv, NEW q \in Questions, BeginQuestion(q) PROVE FKInv'
  <1> DEFINE r == [pc |-> "release", gen |-> startGen + 1, frees |-> active, lost |-> FALSE]
  <1>1. /\ FKTypeOK /\ GenInv /\ \A w \in Questions : ForkInv(w)
        /\ UNCHANGED <<fork, lease, terminal, sweeping, slept, failedBoth, losses>>
        /\ start[q].pc = "none" /\ terminal = "up" /\ active' = 0
        /\ startGen' = startGen + 1 /\ startPending' = TRUE /\ start' = [start EXCEPT ![q] = r]
    BY InvParts DEF BeginQuestion, FKRest, fkBounds
  <1>2. r \in [pc : Early \cup Late \cup {"mark", "prepared", "empty"}, gen : Nat,
               frees : Questions \cup {0}, lost : BOOLEAN]
    BY <1>1 DEF FKTypeOK, Early
  <1>3. /\ start'[q].pc = "release" /\ start'[q].gen = startGen + 1 /\ start'[q].frees = active
        /\ start'[q].lost = FALSE /\ \A p \in Questions : p # q => start'[p] = start[p]
    BY <1>1 DEF FKTypeOK
  <1>4. FKTypeOK'
    BY <1>1, <1>2 DEF FKTypeOK
  <1> HIDE DEF r
  <1>5. GenInv'
    <2>1. startGen \in Nat /\ \A p \in Questions : start[p].gen \in Nat /\ start[p].gen <= startGen
      BY <1>1 DEF FKTypeOK, GenInv
    <2>2. \A p \in Questions : start'[p].gen <= startGen'
      BY <1>1, <1>3, <2>1
    <2>3. ASSUME NEW p1 \in Questions, NEW p2 \in Questions, start'[p1].pc # "none",
                 start'[p2].pc # "none", p1 # p2
          PROVE  start'[p1].gen # start'[p2].gen
      BY <1>1, <1>3, <2>1, <2>3 DEF GenInv
    <2> QED BY <1>1, <2>2, <2>3 DEF GenInv
  <1>6. active # q
    BY <1>1 DEF ForkInv, StageInv, Late
  <1>7. start[q].frees = 0
    BY <1>1 DEF ForkInv, StageInv
  <1>8. ASSUME NEW w \in Questions PROVE Freed(w)' <=> Freed(w) \/ active = w
    <2>1. w # 0
      BY DEF Questions
    <2>2. \A p \in Questions : start'[p].frees = w <=> start[p].frees = w \/ (p = q /\ active = w)
      BY <1>3, <1>7, <2>1
    <2> QED BY <2>2 DEF Freed
  <1>9. ASSUME NEW w \in Questions, w # q PROVE ForkInv(w)'
    <2>1. start'[w] = start[w] /\ active' # w /\ losses' = losses
      BY <1>1, <1>3, <1>9 DEF Questions
    <2>2. Freed(w)' <=> Freed(w) \/ active = w
      BY <1>8
    <2>3. StageInv(w)'
      BY <1>1, <2>1, <2>2 DEF ForkInv, StageInv
    <2>4. LeftInv(w)'
      BY <1>1, <2>1, <2>2 DEF ForkInv, LeftInv
    <2>5. OwnedInv(w)'
      BY <1>1, <2>1 DEF ForkInv, OwnedInv
    <2> QED BY <2>3, <2>4, <2>5 DEF ForkInv
  <1>10. ForkInv(q)'
    <2>1. active' # q /\ ~Freed(q) /\ (Freed(q)' <=> Freed(q) \/ active = q)
      BY <1>1, <1>8 DEF ForkInv, StageInv, Late, Questions
    <2> QED BY <1>1, <1>3, <1>6, <2>1 DEF ForkInv, StageInv, LeftInv, OwnedInv, Early, Late
  <1> QED BY <1>4, <1>5, <1>9, <1>10 DEF FKInv, ForkInv

\* A fork is deleted, of a question whose start is over or about to be undone.
LEMMA DeletedKeeps ==
    ASSUME FKTypeOK, NEW d \in Questions, ForkInv(d), start[d].pc \in Late, d \notin slept => OwnedInv(d)',
           fork'[d] = "deleted" \/ (fork'[d] = fork[d] /\ losses' > 0),
           start'[d].pc = start[d].pc, start'[d].frees = start[d].frees, start'[d].lost = start[d].lost,
           lease'[d] = lease[d], Freed(d)' => Freed(d), active' = d => active = d,
           failedBoth \subseteq failedBoth', slept \subseteq slept', terminal' = terminal,
           sweeping' \in {sweeping, 0}
    PROVE  ForkInv(d)'
  <1>1. d # 0
    BY DEF Questions
  <1>2. StageInv(d)'
    BY <1>1 DEF ForkInv, StageInv, Late, Early
  <1>3. LeftInv(d)'
    BY DEF ForkInv, LeftInv
  <1>4. OwnedInv(d)'
    BY DEF OwnedInv
  <1> QED BY <1>2, <1>3, <1>4 DEF ForkInv

LEMMA ReleasedKeeps == ASSUME FKInv, NEW q \in Questions, Released(q) PROVE FKInv'
  <1>1. /\ FKTypeOK /\ GenInv /\ \A w \in Questions : ForkInv(w)
        /\ UNCHANGED <<startGen, startPending, active, lease, terminal, sweeping, slept, failedBoth>>
        /\ start[q].pc = "release" /\ start' = [start EXCEPT ![q].pc = "fork", ![q].frees = 0]
        /\ IF start[q].frees = 0 THEN UNCHANGED <<fork, losses>> ELSE DeleteOrNot(start[q].frees)
    BY InvParts DEF Released, FKRest
  <1>0. PICK d \in Questions \cup {0} : d = start[q].frees
    BY <1>1 DEF FKTypeOK
  <1>2. /\ start'[q].pc = "fork" /\ start'[q].gen = start[q].gen /\ start'[q].frees = 0
        /\ start'[q].lost = start[q].lost /\ \A p \in Questions : p # q => start'[p] = start[p]
        /\ start' \in [Questions -> [pc : Early \cup Late \cup {"mark", "prepared", "empty"}, gen : Nat,
                                     frees : Questions \cup {0}, lost : BOOLEAN]]
    BY <1>1 DEF FKTypeOK, Early
  <1>3. /\ fork' \in [Questions -> {"none", "live", "deleted"}] /\ losses' \in Nat /\ losses' >= losses
        /\ \A w \in Questions : w # d => fork'[w] = fork[w]
        /\ d # 0 => fork'[d] = "deleted" \/ (fork'[d] = fork[d] /\ losses' > 0)
    <2>1. CASE d = 0
      BY <1>0, <1>1, <2>1 DEF FKTypeOK
    <2>2. CASE d # 0
      <3>1. d \in Questions /\ DeleteOrNot(d)
        BY <1>0, <1>1, <2>2 DEF FKTypeOK
      <3> QED BY <1>1, <3>1, DeletesOrNot
    <2> QED BY <2>1, <2>2
  <1>4. FKTypeOK'
    BY <1>1, <1>2, <1>3 DEF FKTypeOK
  <1>5. GenInv'
    <2>1. \A p \in Questions : start'[p].gen = start[p].gen /\ (start'[p].pc # "none" => start[p].pc # "none")
      BY <1>1, <1>2
    <2>2. active \in Questions \cup {0}
      BY <1>1 DEF FKTypeOK
    <2> QED BY <1>1, <2>1, <2>2 DEF GenInv
  <1>6. ASSUME NEW w \in Questions
        PROVE  /\ Freed(w)' => Freed(w)
               /\ w # d => (Freed(w)' <=> Freed(w))
    <2>1. w # 0
      BY DEF Questions
    <2>2. \A p \in Questions : start'[p].frees = w => start[p].frees = w
      BY <1>2, <2>1
    <2>3. w # d => \A p \in Questions : start[p].frees = w => start'[p].frees = w
      BY <1>0, <1>2, <2>1
    <2> QED BY <2>2, <2>3 DEF Freed
  <1>7. d # 0 => d \in Questions /\ Freed(d) /\ start[d].pc \in Late /\ active # d /\ d # q
    <2>1. ASSUME d # 0 PROVE d \in Questions /\ Freed(d)
      BY <1>0, <1>1, <2>1 DEF FKTypeOK, Freed
    <2>2. ASSUME d # 0 PROVE start[d].pc \in Late /\ active # d
      BY <1>1, <2>1, <2>2 DEF ForkInv, StageInv
    <2>3. "release" \notin Late
      BY DEF Late
    <2> QED BY <1>1, <2>1, <2>2, <2>3
  <1>8. ASSUME NEW w \in Questions, w # q, w # d PROVE ForkInv(w)'
    <2>1. Untouched(w)
      BY <1>1, <1>2, <1>3, <1>6, <1>8 DEF Untouched
    <2> QED BY <1>1, <2>1, StaysUntouched
  <1>9. ASSUME d # 0 PROVE ForkInv(d)'
    <2>1. d \in Questions /\ start[d].pc \in Late /\ active # d /\ start'[d] = start[d] /\ ForkInv(d)
      BY <1>1, <1>2, <1>7, <1>9
    <2>2. OwnedInv(d)'
      BY <1>1, <2>1 DEF OwnedInv, Late
    <2> QED BY <1>1, <1>3, <1>6, <1>9, <2>1, <2>2, DeletedKeeps
  <1>10. ForkInv(q)'
    <2>1. fork'[q] = fork[q] /\ fork[q] = "none" /\ active # q /\ ~Freed(q) /\ lease[q] = "none"
          /\ ~Freed(q)'
      BY <1>1, <1>3, <1>6, <1>7 DEF ForkInv, StageInv, Early, Late, Questions
    <2> QED BY <1>1, <1>2, <2>1 DEF ForkInv, StageInv, LeftInv, OwnedInv, Early, Late
  <1>11. ASSUME NEW w \in Questions PROVE ForkInv(w)'
    <2>1. w # 0
      BY DEF Questions
    <2>2. CASE w = q
      BY <1>10, <2>2
    <2>3. CASE w = d
      BY <1>9, <2>1, <2>3
    <2> QED BY <1>8, <2>2, <2>3
  <1> QED BY <1>4, <1>5, <1>11 DEF FKInv, ForkInv

\* Steps of the terminal and of leases, that leave every start alone.
LEMMA StartsStay ==
    ASSUME start' = start
    PROVE  \A w \in Questions : Freed(w)' <=> Freed(w)
  BY DEF Freed

LEMMA DismissKeeps == ASSUME FKInv, Dismiss PROVE FKInv'
  <1>1. /\ FKTypeOK /\ GenInv /\ \A w \in Questions : ForkInv(w)
        /\ UNCHANGED <<active, start, fork, lease, terminal, sweeping, slept, failedBoth, losses>>
        /\ active = 0 /\ terminal = "up" /\ startGen' = startGen + 1 /\ startPending' = FALSE
    BY InvParts DEF Dismiss, FKRest
  <1>2. FKTypeOK' /\ startGen \in Nat /\ \A p \in Questions : start[p].gen \in Nat
    <2>1. startGen \in Nat /\ \A p \in Questions : start[p].gen \in Nat
      BY <1>1 DEF FKTypeOK
    <2>2. startGen' \in Nat
      BY <1>1, <2>1
    <2>3. startPending' \in BOOLEAN
      BY <1>1
    <2>4. FKTypeOK'
      BY <1>1, <2>2, <2>3 DEF FKTypeOK
    <2> QED BY <2>1, <2>4
  <1>3. GenInv'
    BY <1>1, <1>2 DEF GenInv
  <1>4. ASSUME NEW w \in Questions PROVE ForkInv(w)'
    <2>1. Untouched(w)
      BY <1>1, StartsStay DEF Untouched, FKTypeOK
    <2> QED BY <1>1, <2>1, StaysUntouched
  <1> QED BY <1>2, <1>3, <1>4 DEF FKInv, ForkInv

LEMMA RenewKeeps == ASSUME FKInv, LeaseRenewed PROVE FKInv'
  <1>1. /\ FKTypeOK /\ GenInv /\ \A w \in Questions : ForkInv(w)
        /\ UNCHANGED <<startGen, startPending, active, start, fork, terminal, sweeping, slept, failedBoth, losses>>
        /\ active # 0 /\ lease' = [lease EXCEPT ![active] = "fresh"] /\ lease[active] = "stale"
    BY InvParts DEF LeaseRenewed, FKRest, fkBounds
  <1>2. active \in Questions /\ FKTypeOK'
    BY <1>1 DEF FKTypeOK
  <1>3. GenInv'
    BY <1>1 DEF GenInv
  <1>4. ASSUME NEW w \in Questions, w # active PROVE ForkInv(w)'
    <2>1. Untouched(w)
      BY <1>1, <1>4, StartsStay DEF Untouched, FKTypeOK
    <2> QED BY <1>1, <2>1, StaysUntouched
  <1>5. ForkInv(active)'
    <2>1. (Freed(active)' <=> Freed(active)) /\ lease'[active] = "fresh"
      BY <1>1, <1>2, StartsStay DEF FKTypeOK
    <2>2. active' = active /\ start'[active] = start[active] /\ fork'[active] = fork[active]
      BY <1>1
    <2>3. ForkInv(active) /\ start[active].pc \in Late
      BY <1>1, <1>2 DEF ForkInv, StageInv
    <2>4. StageInv(active)'
      BY <1>1, <2>1, <2>2, <2>3 DEF ForkInv, StageInv, Early, Late
    <2>5. LeftInv(active)'
      BY <1>1, <2>1, <2>2, <2>3 DEF ForkInv, LeftInv
    <2>6. OwnedInv(active)'
      BY <1>1, <2>1, <2>2, <2>3 DEF ForkInv, OwnedInv
    <2> QED BY <2>4, <2>5, <2>6 DEF ForkInv
  <1> QED BY <1>1, <1>2, <1>3, <1>4, <1>5 DEF FKInv, ForkInv

LEMMA AgesKeeps == ASSUME FKInv, NEW q \in Questions, LeaseAges(q) PROVE FKInv'
  <1>1. /\ FKTypeOK /\ GenInv /\ \A w \in Questions : ForkInv(w)
        /\ UNCHANGED <<startGen, startPending, active, start, fork, terminal, sweeping, failedBoth, losses>>
        /\ lease' = [lease EXCEPT ![q] = "stale"] /\ lease[q] = "fresh"
        /\ terminal \in {"asleep", "down"} \/ (active # q /\ start[q].pc = "end")
        /\ slept' = IF terminal = "asleep" THEN slept \cup {q} ELSE slept
    BY InvParts DEF LeaseAges, FKRest, fkBounds
  <1>2. FKTypeOK'
    BY <1>1 DEF FKTypeOK
  <1>3. GenInv'
    BY <1>1 DEF GenInv
  <1>4. ASSUME NEW w \in Questions, w # q PROVE ForkInv(w)'
    <2>1. Untouched(w)
      BY <1>1, <1>4, StartsStay DEF Untouched, FKTypeOK
    <2> QED BY <1>1, <2>1, StaysUntouched
  <1>5. ForkInv(q)'
    <2>1. (Freed(q)' <=> Freed(q)) /\ lease'[q] = "stale"
      BY <1>1, StartsStay DEF FKTypeOK
    <2>2. StageInv(q)'
      BY <1>1, <2>1 DEF ForkInv, StageInv
    <2>3. LeftInv(q)'
      BY <1>1, <2>1 DEF ForkInv, LeftInv
    <2>4. OwnedInv(q)'
      BY <1>1, <2>1 DEF ForkInv, OwnedInv
    <2> QED BY <2>2, <2>3, <2>4 DEF ForkInv
  <1> QED BY <1>2, <1>3, <1>4, <1>5 DEF FKInv, ForkInv

LEMMA NapKeeps == ASSUME FKInv, FallAsleep \/ WakeUp PROVE FKInv'
  <1>1. /\ FKTypeOK /\ GenInv /\ \A w \in Questions : ForkInv(w)
        /\ UNCHANGED <<startGen, startPending, active, start, fork, lease, sweeping, slept, failedBoth, losses>>
        /\ terminal \in {"up", "asleep"} /\ terminal' \in {"up", "asleep"}
    BY InvParts DEF FallAsleep, WakeUp, FKRest, fkBounds
  <1>2. FKTypeOK'
    BY <1>1 DEF FKTypeOK
  <1>3. GenInv'
    BY <1>1 DEF GenInv
  <1>4. ASSUME NEW w \in Questions PROVE ForkInv(w)'
    <2>1. Freed(w)' <=> Freed(w)
      BY <1>1, StartsStay
    <2>2. StageInv(w)'
      BY <1>1, <2>1 DEF ForkInv, StageInv
    <2>3. LeftInv(w)'
      BY <1>1, <2>1 DEF ForkInv, LeftInv
    <2>4. OwnedInv(w)'
      BY <1>1 DEF ForkInv, OwnedInv
    <2> QED BY <2>2, <2>3, <2>4 DEF ForkInv
  <1> QED BY <1>2, <1>3, <1>4 DEF FKInv, ForkInv

LEMMA DisposeKeeps == ASSUME FKInv, TerminalDisposes PROVE FKInv'
  <1>1. /\ FKTypeOK /\ GenInv /\ \A w \in Questions : ForkInv(w)
        /\ UNCHANGED <<active, start, fork, lease, sweeping, slept, failedBoth, losses>>
        /\ terminal = "up" /\ terminal' = "disposing" /\ startGen' = startGen + 1 /\ startPending' = FALSE
    BY InvParts DEF TerminalDisposes, FKRest
  <1>2. FKTypeOK' /\ startGen \in Nat /\ \A p \in Questions : start[p].gen \in Nat
    <2>1. startGen \in Nat /\ \A p \in Questions : start[p].gen \in Nat
      BY <1>1 DEF FKTypeOK
    <2>2. startGen' \in Nat
      BY <1>1, <2>1
    <2>3. startPending' \in BOOLEAN
      BY <1>1
    <2>4. FKTypeOK'
      BY <1>1, <2>2, <2>3 DEF FKTypeOK
    <2> QED BY <2>1, <2>4
  <1>3. GenInv'
    BY <1>1, <1>2 DEF GenInv
  <1>4. ASSUME NEW w \in Questions PROVE ForkInv(w)'
    <2>1. Freed(w)' <=> Freed(w)
      BY <1>1, StartsStay
    <2>2. StageInv(w)'
      BY <1>1, <2>1 DEF ForkInv, StageInv
    <2>3. LeftInv(w)'
      BY <1>1, <2>1 DEF ForkInv, LeftInv
    <2>4. OwnedInv(w)'
      BY <1>1 DEF ForkInv, OwnedInv
    <2> QED BY <2>2, <2>3, <2>4 DEF ForkInv
  <1> QED BY <1>2, <1>3, <1>4 DEF FKInv, ForkInv

LEMMA DisposedKeeps == ASSUME FKInv, TerminalDisposed PROVE FKInv'
  <1>1. /\ FKTypeOK /\ GenInv /\ \A w \in Questions : ForkInv(w)
        /\ UNCHANGED <<startGen, startPending, start, lease, terminal, sweeping, slept, failedBoth>>
        /\ terminal = "disposing" /\ active # 0 /\ DeleteOrNot(active) /\ active' = 0
    BY InvParts DEF TerminalDisposed, FKRest
  <1>2. PICK d \in Questions : d = active
    BY <1>1 DEF FKTypeOK
  <1>3. /\ fork' \in [Questions -> {"none", "live", "deleted"}] /\ losses' \in Nat /\ losses' >= losses
        /\ \A w \in Questions : w # d => fork'[w] = fork[w]
        /\ fork'[d] = "deleted" \/ (fork'[d] = fork[d] /\ losses' > 0)
    <2>1. DeleteOrNot(d)
      BY <1>1, <1>2
    <2> QED BY <1>1, <2>1, DeletesOrNot
  <1>4. FKTypeOK'
    BY <1>1, <1>3 DEF FKTypeOK
  <1>5. GenInv'
    BY <1>1 DEF GenInv
  <1>6. ASSUME NEW w \in Questions PROVE Freed(w)' <=> Freed(w)
    BY <1>1, StartsStay
  <1>7. ASSUME NEW w \in Questions, w # d PROVE ForkInv(w)'
    <2>1. Untouched(w)
      BY <1>1, <1>2, <1>3, <1>6, <1>7 DEF Untouched, Questions
    <2> QED BY <1>1, <2>1, StaysUntouched
  <1>8. ForkInv(d)'
    <2>1. ForkInv(d) /\ start[d].pc \in Late
      BY <1>1, <1>2 DEF ForkInv, StageInv
    <2>2. OwnedInv(d)'
      BY <1>1, <1>2, <2>1 DEF OwnedInv, Late
    <2> QED BY <1>1, <1>2, <1>3, <1>6, <2>1, <2>2, DeletedKeeps
  <1> QED BY <1>4, <1>5, <1>7, <1>8 DEF FKInv, ForkInv

\* The sweep of another terminal finds forks whose owner is gone or slept.
LEMMA FindKeeps == ASSUME FKInv, NEW q \in Questions, FindOrphan(q) PROVE FKInv'
  <1>1. /\ FKTypeOK /\ GenInv /\ \A w \in Questions : ForkInv(w)
        /\ UNCHANGED <<startGen, startPending, active, start, fork, lease, terminal, slept, failedBoth, losses>>
        /\ sweeping = 0 /\ lease[q] = "stale" /\ sweeping' = q
    BY InvParts DEF FindOrphan, FKRest, fkBounds
  <1>2. FKTypeOK'
    BY <1>1 DEF FKTypeOK
  <1>3. GenInv'
    BY <1>1 DEF GenInv
  <1>4. ASSUME NEW w \in Questions, w # q PROVE ForkInv(w)'
    <2>1. Untouched(w)
      BY <1>1, <1>4, StartsStay DEF Untouched, FKTypeOK
    <2> QED BY <1>1, <2>1, StaysUntouched
  <1>5. ForkInv(q)'
    <2>1. Freed(q)' <=> Freed(q)
      BY <1>1, StartsStay
    <2>2. StageInv(q)'
      BY <1>1, <2>1 DEF ForkInv, StageInv
    <2>3. LeftInv(q)'
      BY <1>1, <2>1 DEF ForkInv, LeftInv
    <2>4. OwnedInv(q)'
      BY <1>1 DEF ForkInv, OwnedInv
    <2> QED BY <2>2, <2>3, <2>4 DEF ForkInv
  <1> QED BY <1>2, <1>3, <1>4, <1>5 DEF FKInv, ForkInv

LEMMA SweepKeeps == ASSUME FKInv, SweepOrphan PROVE FKInv'
  <1>1. /\ FKTypeOK /\ GenInv /\ \A w \in Questions : ForkInv(w)
        /\ UNCHANGED <<startGen, startPending, active, start, lease, terminal, slept, failedBoth>>
        /\ sweeping # 0 /\ sweeping' = 0
        /\ IF fork[sweeping] = "live" THEN DeleteOrNot(sweeping) ELSE UNCHANGED <<fork, losses>>
    BY InvParts DEF SweepOrphan, FKRest
  <1>2. PICK d \in Questions : d = sweeping
    BY <1>1 DEF FKTypeOK
  <1>3. /\ fork' \in [Questions -> {"none", "live", "deleted"}] /\ losses' \in Nat /\ losses' >= losses
        /\ \A w \in Questions : w # d => fork'[w] = fork[w]
        /\ fork'[d] # "live" \/ (fork'[d] = fork[d] /\ losses' > 0)
        /\ fork[d] = "none" => fork'[d] = "none"
    <2>1. CASE fork[d] = "live"
      <3>1. DeleteOrNot(d)
        BY <1>1, <1>2, <2>1
      <3>2. /\ fork' \in [Questions -> {"none", "live", "deleted"}] /\ losses' \in Nat /\ losses' >= losses
            /\ \A w \in Questions : w # d => fork'[w] = fork[w]
            /\ fork'[d] = "deleted" \/ (fork'[d] = fork[d] /\ losses' > 0)
        BY <1>1, <3>1, DeletesOrNot
      <3> QED BY <2>1, <3>2
    <2>2. CASE fork[d] # "live"
      BY <1>1, <1>2, <2>2 DEF FKTypeOK
    <2> QED BY <2>1, <2>2
  <1>4. FKTypeOK'
    BY <1>1, <1>3 DEF FKTypeOK
  <1>5. GenInv'
    BY <1>1 DEF GenInv
  <1>6. ASSUME NEW w \in Questions PROVE Freed(w)' <=> Freed(w)
    BY <1>1, StartsStay
  <1>7. ASSUME NEW w \in Questions, w # d PROVE ForkInv(w)'
    <2>1. Untouched(w)
      BY <1>1, <1>2, <1>3, <1>6, <1>7 DEF Untouched, Questions
    <2> QED BY <1>1, <2>1, StaysUntouched
  <1>8. ForkInv(d)'
    <2>1. ForkInv(d) /\ lease[d] # "none" /\ d # 0 /\ start[d].pc # "mark" /\ start[d].pc \notin Early
      BY <1>1, <1>2 DEF ForkInv, StageInv
    <2>2. StageInv(d)'
      BY <1>1, <1>6, <2>1 DEF ForkInv, StageInv
    <2>3. LeftInv(d)'
      BY <1>1, <1>3, <1>6, <2>1 DEF ForkInv, LeftInv
    <2>4. OwnedInv(d)'
      BY <1>1, <1>2, <2>1 DEF ForkInv, OwnedInv
    <2> QED BY <2>2, <2>3, <2>4 DEF ForkInv
  <1> QED BY <1>4, <1>5, <1>7, <1>8 DEF FKInv, ForkInv

\* What a terminal that dies leaves behind is marked, unless it was just made.
LEMMA DiesKeeps == ASSUME FKInv, TerminalDies PROVE FKInv'
  <1>1. /\ FKTypeOK /\ GenInv /\ \A w \in Questions : ForkInv(w)
        /\ UNCHANGED <<fork, lease, sweeping, slept, failedBoth, losses>>
        /\ terminal # "down" /\ terminal' = "down" /\ active' = 0
        /\ startGen' = startGen + 1 /\ startPending' = FALSE
    BY InvParts DEF TerminalDies, FKRest
  <1>2. ASSUME NEW w \in Questions
        PROVE  /\ start'[w].pc = IF start[w].pc = "none" THEN "none" ELSE "end"
               /\ start'[w].gen = 0 /\ start'[w].frees = 0
               /\ start'[w].lost = (start[w].pc \in {"mark", "undo"})
               /\ start'[w] \in [pc : Early \cup Late \cup {"mark", "prepared", "empty"}, gen : Nat,
                                 frees : Questions \cup {0}, lost : BOOLEAN]
    <2> DEFINE r == [NotAsked EXCEPT !.pc = "end", !.lost = start[w].pc \in {"mark", "undo"}]
    <2>1. start'[w] = IF start[w].pc = "none" THEN NotAsked ELSE r
      BY DEF TerminalDies
    <2>2. (start[w].pc \in {"mark", "undo"}) \in BOOLEAN
      OBVIOUS
    <2>3. /\ r.pc = "end" /\ r.gen = 0 /\ r.frees = 0 /\ r.lost = (start[w].pc \in {"mark", "undo"})
          /\ r \in [pc : Early \cup Late \cup {"mark", "prepared", "empty"}, gen : Nat,
                    frees : Questions \cup {0}, lost : BOOLEAN]
      BY <2>2 DEF NotAsked, Late
    <2>4. /\ NotAsked.pc = "none" /\ NotAsked.gen = 0 /\ NotAsked.frees = 0 /\ NotAsked.lost = FALSE
          /\ NotAsked \in [pc : Early \cup Late \cup {"mark", "prepared", "empty"}, gen : Nat,
                           frees : Questions \cup {0}, lost : BOOLEAN]
      BY DEF NotAsked, Early
    <2> HIDE DEF r
    <2> QED BY <2>1, <2>3, <2>4
  <1>3. FKTypeOK'
    <2>1. DOMAIN start' = Questions /\ start' = [w \in Questions |-> start'[w]]
      BY DEF TerminalDies
    <2>2. start' \in [Questions -> [pc : Early \cup Late \cup {"mark", "prepared", "empty"}, gen : Nat,
                                    frees : Questions \cup {0}, lost : BOOLEAN]]
      BY <1>2, <2>1
    <2>3. startGen' \in Nat
      BY <1>1 DEF FKTypeOK
    <2>4. startPending' \in BOOLEAN
      BY <1>1
    <2> QED BY <1>1, <2>2, <2>3, <2>4 DEF FKTypeOK
  <1>4. GenInv'
    <2>1. startGen \in Nat
      BY <1>1 DEF FKTypeOK
    <2> QED BY <1>1, <1>2, <2>1 DEF GenInv
  <1>5. ASSUME NEW w \in Questions PROVE ForkInv(w)'
    <2>1. w # 0
      BY DEF Questions
    <2>2. ~Freed(w)'
      BY <1>2, <2>1 DEF Freed
    <2>3. ForkInv(w)
      BY <1>1
    <2>4. StageInv(w)'
      BY <1>1, <1>2, <2>1, <2>2, <2>3 DEF ForkInv, StageInv, Early, Late
    <2>5. LeftInv(w)'
      BY <1>1, <1>2, <2>3 DEF ForkInv, StageInv, LeftInv, FKTypeOK, Early, Late
    <2>6. OwnedInv(w)'
      BY <1>1 DEF OwnedInv
    <2> QED BY <2>4, <2>5, <2>6 DEF ForkInv
  <1> QED BY <1>3, <1>4, <1>5 DEF FKInv, ForkInv

LEMMA FKInitially == ASSUME FKInit PROVE FKInv
  <1>1. /\ NotAsked.pc = "none" /\ NotAsked.gen = 0 /\ NotAsked.frees = 0 /\ NotAsked.lost = FALSE
        /\ NotAsked \in [pc : Early \cup Late \cup {"mark", "prepared", "empty"}, gen : Nat,
                         frees : Questions \cup {0}, lost : BOOLEAN]
    BY DEF NotAsked, Early
  <1>2. \A w \in Questions : start[w] = NotAsked /\ fork[w] = "none" /\ lease[w] = "none" /\ w # 0
    BY DEF FKInit, Questions
  <1>3. FKTypeOK
    BY <1>1 DEF FKInit, FKTypeOK
  <1>4. GenInv
    BY <1>1, <1>2 DEF FKInit, GenInv
  <1>5. ASSUME NEW w \in Questions PROVE StageInv(w) /\ LeftInv(w) /\ OwnedInv(w)
    <2>1. ~Freed(w)
      BY <1>1, <1>2 DEF Freed
    <2> QED BY <1>1, <1>2, <2>1 DEF FKInit, StageInv, LeftInv, OwnedInv, Late
  <1> QED BY <1>3, <1>4, <1>5 DEF FKInv

LEMMA FKStutters == ASSUME FKInv, UNCHANGED fkVars PROVE FKInv'
  <1>1. /\ FKTypeOK /\ GenInv /\ \A w \in Questions : ForkInv(w)
        /\ UNCHANGED <<startGen, startPending, active, start, fork, lease, terminal, sweeping, slept,
                       failedBoth, losses>>
    BY InvParts DEF FKRest, fkVars, fkBounds
  <1>2. FKTypeOK'
    BY <1>1 DEF FKTypeOK
  <1>3. GenInv'
    BY <1>1 DEF GenInv
  <1>4. ASSUME NEW w \in Questions PROVE ForkInv(w)'
    <2>1. Untouched(w)
      BY <1>1, StartsStay DEF Untouched, FKTypeOK
    <2> QED BY <1>1, <2>1, StaysUntouched
  <1> QED BY <1>2, <1>3, <1>4 DEF FKInv, ForkInv

LEMMA FKAccounts == ASSUME FKInv PROVE ForksAreAccounted
  <1>1. NothingLeaks
    <2>1. SUFFICES ASSUME NEW q \in Questions, fork[q] = "live", ~LookedAfter(q)
                   PROVE  /\ losses > 0 \/ terminal = "down"
                          /\ lease[q] # "none" \/ start[q].lost \/ q \in failedBoth
      BY DEF NothingLeaks
    <2>2. active # q /\ ~Freed(q) /\ start[q].pc \notin {"mark", "prepared", "empty", "prompt", "undo"}
      BY <2>1 DEF LookedAfter, Freed
    <2>3. start[q].pc \in {"failed", "end"}
      BY <2>1, <2>2 DEF FKInv, FKTypeOK, StageInv, Early, Late
    <2> QED BY <2>1, <2>2, <2>3 DEF FKInv, LeftInv
  <1>2. ActiveForkExists
    <2>1. SUFFICES ASSUME terminal = "up", active # 0
                   PROVE  fork[active] = "live" \/ start[active].pc = "failed" \/ active \in slept
      BY DEF ActiveForkExists
    <2>2. active \in Questions
      BY <2>1 DEF FKInv, FKTypeOK
    <2> QED BY <2>1, <2>2 DEF FKInv, OwnedInv
  <1> QED BY <1>1, <1>2 DEF ForksAreAccounted

\* No fork of a side question is left over while its terminal runs and deletions
\* succeed, what is left otherwise can be swept, and nobody sweeps a fork that is
\* looked after: for any number of questions, dismissals, naps and failed requests.
THEOREM ForksAreAccountedHolds == FKSpec => []ForksAreAccounted
  <1>1. FKInit => FKInv
    BY FKInitially
  <1>2. FKInv /\ [FKNext]_fkVars => FKInv'
    BY BeginQuestionKeeps, ReleasedKeeps, MakeForkKeeps, MarkForkKeeps, InstallKeeps, PromptedKeeps,
       UndoKeeps, FailedKeeps, DiscardKeeps, AgesKeeps, FindKeeps, DismissKeeps, RenewKeeps, NapKeeps,
       DisposeKeeps, DisposedKeeps, DiesKeeps, SweepKeeps, FKStutters DEF FKNext
  <1>3. FKInv => ForksAreAccounted
    BY FKAccounts
  <1> QED BY <1>1, <1>2, <1>3, PTL DEF FKSpec

-----------------------------------------------------------------------------
(* UsageLimits: a reading of the current epoch asks the server of the scope    *)
(* that is selected, and no reading is newer than the last one counted.        *)

ULReading == [pc : {"off", "store", "probe", "told"}, sequence : Nat, epoch : Nat,
              scope : Scopes \cup {NoScope}, found : Records \cup {NoOauth},
              held : SUBSET (Records \cup {NoOauth})]
ULAuth == [oauth : Records \cup {NoOauth},
           limits : [of : Records \cup {NoOauth}, at : Scopes \cup {NoScope}],
           sequence : Nat, generation : Nat, failures : Nat, backoff : BOOLEAN, fresh : BOOLEAN,
           rejected : Records \cup {NoOauth}]
ULFlight == [pc : {"off", "before", "fetching", "after"}, force : BOOLEAN, generation : Nat,
             by : Records \cup {NoOauth}, result : {"none", "success", "unauthorized", "failed"}]
ULSync == [pc : {"off", "asked"}, generation : Nat, root : Scopes \cup {NoScope}]

ULTypeOK ==
    /\ viewed \in Scopes /\ selected \in Scopes \cup {NoScope} /\ authEpoch \in Nat
    /\ serverHas \in [Scopes -> Records \cup {NoOauth}] /\ storeHas \in Records \cup {NoOauth}
    /\ auth \in ULAuth /\ flight \in ULFlight
    /\ reading \in [Readers -> ULReading]
    /\ tick \in [Ticks -> [pc : {"off", "auth", "sync", "done"}, force : BOOLEAN]]
    /\ sync \in [Readers -> ULSync] /\ syncGeneration \in Nat

\* The numbers are of what is known.
OwnNumbers(i, s) ==
    i.limits # NoNumbers => /\ i.limits.at = s
                            /\ i.limits.of = i.oauth \/ SameAccount(i.limits.of, i.oauth)

\* A reading that is under way was begun when the sequence stood where it stands,
\* and has seen every record of its server since.
ReadingInv(d, n, e, s, servers) ==
    /\ d.sequence <= n /\ d.epoch <= e
    /\ d.pc # "off" /\ d.epoch = e => d.scope = s
    /\ d.pc # "off" /\ d.scope \in Scopes => servers[d.scope] \in d.held
    /\ d.pc = "told" /\ d.found # NoOauth => d.found \in d.held

ULReadings == \A r \in Readers : ReadingInv(reading[r], auth.sequence, authEpoch, selected, serverHas)

ULFlightInv == flight.pc \in {"fetching", "after"} => flight.by # NoOauth

\* The newest look-up is that of the session on screen.
ULSyncs ==
    /\ classifierRoot = viewed
    /\ classifier \in {viewed, NoScope}
    /\ \A r \in Readers : /\ sync[r].generation <= syncGeneration
                          /\ sync[r].generation = syncGeneration => sync[r].root \in {viewed, NoScope}

ULInv == ULTypeOK /\ OwnNumbers(auth, selected) /\ ULReadings /\ ULFlightInv /\ ULSyncs

-----------------------------------------------------------------------------

LEMMA ForgottenOwn ==
    ASSUME NEW i \in ULAuth, NEW s
    PROVE  /\ Forgotten(i) \in ULAuth /\ OwnNumbers(Forgotten(i), s)
           /\ Forgotten(i).oauth = NoOauth /\ Forgotten(i).limits = NoNumbers
           /\ Forgotten(i).sequence = i.sequence + 1
    BY DEF ULAuth, Forgotten, OwnNumbers, NoNumbers

LEMMA FailedOwn ==
    ASSUME NEW i \in ULAuth, NEW s, OwnNumbers(i, s), NEW u \in BOOLEAN
    PROVE  /\ Failed(i, u) \in ULAuth /\ OwnNumbers(Failed(i, u), s)
           /\ Failed(i, u).oauth = i.oauth /\ Failed(i, u).limits \in {i.limits, NoNumbers}
           /\ Failed(i, u).sequence = i.sequence
    <1>1. /\ Failed(i, u).oauth = i.oauth /\ Failed(i, u).limits \in {i.limits, NoNumbers}
          /\ Failed(i, u).sequence = i.sequence
        BY DEF ULAuth, Failed
    <1>2. NoNumbers \in [of : Records \cup {NoOauth}, at : Scopes \cup {NoScope}]
        BY DEF NoNumbers
    <1>3. (IF i.failures < HideAfter THEN i.failures + 1 ELSE i.failures) \in Nat
        BY DEF ULAuth
    <1>4. Failed(i, u) = [i EXCEPT !.failures = IF i.failures < HideAfter THEN i.failures + 1 ELSE i.failures,
                                   !.backoff = TRUE, !.limits = Failed(i, u).limits]
        BY DEF Failed, ULAuth
    <1>5. Failed(i, u) \in ULAuth
        <2> DEFINE n == IF i.failures < HideAfter THEN i.failures + 1 ELSE i.failures
                   l == Failed(i, u).limits
        <2>1. n \in Nat /\ l \in [of : Records \cup {NoOauth}, at : Scopes \cup {NoScope}]
            BY <1>1, <1>2, <1>3 DEF ULAuth
        <2>2. Failed(i, u) = [i EXCEPT !.failures = n, !.backoff = TRUE, !.limits = l]
            BY <1>4
        <2> HIDE DEF n, l
        <2> QED BY <2>1, <2>2 DEF ULAuth
    <1> QED BY <1>1, <1>5 DEF OwnNumbers

\* Numbers that are kept when a record is adopted are of the account it shows.
LEMMA AdoptedOwn ==
    ASSUME ULInv, NEW r \in Readers
    PROVE  /\ Adopted(auth, r) \in ULAuth /\ OwnNumbers(Adopted(auth, r), selected)
           /\ Adopted(auth, r).limits \in {auth.limits, NoNumbers}
           /\ Adopted(auth, r).sequence = auth.sequence
           /\ NotNewest(auth, r) => Adopted(auth, r) = auth
           /\ ~NotNewest(auth, r) => Adopted(auth, r).oauth = Answer(r)
    <1> DEFINE a == Adopted(auth, r)
    <1>1. auth \in ULAuth /\ OwnNumbers(auth, selected) /\ Answer(r) \in Records \cup {NoOauth}
        BY DEF ULInv, ULTypeOK, ULReading, Answer
    <1>2. CASE NotNewest(auth, r) \/ Answer(r) = auth.oauth
        BY <1>1, <1>2 DEF Adopted, ULAuth
    <1>3. CASE ~NotNewest(auth, r) /\ Answer(r) # auth.oauth
        <2>1. /\ a.oauth = Answer(r) /\ a.sequence = auth.sequence
              /\ a.limits = IF SameAccount(auth.oauth, Answer(r)) THEN auth.limits ELSE NoNumbers
            BY <1>1, <1>3 DEF Adopted, ULAuth
        <2>2. SameAccount(auth.oauth, Answer(r)) \in BOOLEAN
            BY DEF SameAccount
        <2>3. a \in ULAuth
            <3> DEFINE g == auth.generation + 1  k == SameAccount(auth.oauth, Answer(r))
                       l == IF k THEN auth.limits ELSE NoNumbers  f == auth.fresh /\ k
            <3>1. g \in Nat /\ l \in [of : Records \cup {NoOauth}, at : Scopes \cup {NoScope}]
                BY <1>1, <2>2 DEF ULAuth, NoNumbers
            <3>2. f = TRUE \/ f = FALSE
                OBVIOUS
            <3>3. a = [auth EXCEPT !.oauth = Answer(r), !.generation = g, !.failures = 0, !.backoff = FALSE,
                                   !.rejected = NoOauth, !.limits = l, !.fresh = f]
                BY <1>3 DEF Adopted
            <3> HIDE DEF g, k, l, f
            <3>4. a = [oauth |-> Answer(r), limits |-> l, sequence |-> auth.sequence, generation |-> g,
                       failures |-> 0, backoff |-> FALSE, fresh |-> f, rejected |-> NoOauth]
                BY <1>1, <3>3 DEF ULAuth
            <3>5. auth.sequence \in Nat
                BY <1>1 DEF ULAuth
            <3> HIDE DEF a
            <3>6. f \in BOOLEAN
                BY <3>2
            <3> QED BY <1>1, <3>1, <3>4, <3>5, <3>6 DEF ULAuth
        <2>4. OwnNumbers(a, selected)
            BY <1>1, <2>1 DEF OwnNumbers, SameAccount
        <2> QED BY <1>3, <2>1, <2>3, <2>4
    <1> QED BY <1>2, <1>3

\* What the newest reading brings was proved since it began.
LEMMA NewestIsProved ==
    ASSUME ULInv, NEW r \in Readers, reading[r].pc = "told", ~NotNewest(auth, r), Answer(r) # NoOauth
    PROVE  ProvedSince(Answer(r)) /\ Answer(r) \in reading[r].held
    <1>1. /\ reading[r].found = Answer(r) /\ reading[r].epoch = authEpoch /\ selected = viewed
        BY DEF Answer
    <1>2. reading[r].scope = viewed /\ Answer(r) \in reading[r].held
        BY <1>1 DEF ULInv, ULReadings, ReadingInv
    <1>3. \A q \in Readers : reading[q].sequence <= reading[r].sequence
        BY DEF NotNewest, ULInv, ULReadings, ReadingInv
    <1> QED BY <1>2, <1>3 DEF ProvedSince

\* What is known stands still, or is less.
Quiet == auth'.oauth \in {auth.oauth, NoOauth} /\ auth'.limits \in {auth.limits, NoNumbers}
LimitsStep ==
    /\ auth.oauth' \notin {auth.oauth, NoOauth} => ProvedSince(auth.oauth')
    /\ auth.limits' \notin {auth.limits, NoNumbers} =>
           flight.pc = "after" /\ auth.limits'.of \in reading[0].held

LEMMA QuietStep == ASSUME Quiet PROVE LimitsStep
    BY DEF Quiet, LimitsStep

\* A reading that begins under the scope and epoch that are in force now.
LEMMA ReadingBegins ==
    ASSUME ULInv, NEW r \in Readers, NEW i \in ULAuth, i.sequence >= auth.sequence,
           selected' \in Scopes \cup {NoScope}, authEpoch' \in Nat, UNCHANGED serverHas,
           UNCHANGED <<selected, authEpoch>> \/ authEpoch' = authEpoch + 1,
           BeginReading(r, i, selected', authEpoch')
    PROVE  /\ reading' \in [Readers -> ULReading] /\ ULReadings'
           /\ auth' \in ULAuth /\ auth'.oauth = i.oauth /\ auth'.limits = i.limits
    <1> DEFINE d == [NoReading EXCEPT !.pc = "store", !.sequence = i.sequence + 1, !.epoch = authEpoch',
                                      !.scope = selected', !.held = {serverHas[p] : p \in {selected'} \cap Scopes}]
    <1>1. reading' = [reading EXCEPT ![r] = d] /\ auth' = [i EXCEPT !.sequence = @ + 1]
        BY DEF BeginReading
    <1>2. /\ auth' \in ULAuth /\ auth'.oauth = i.oauth /\ auth'.limits = i.limits
          /\ auth'.sequence = i.sequence + 1
        BY <1>1 DEF ULAuth
    <1>3. /\ d.pc = "store" /\ d.sequence = i.sequence + 1 /\ d.epoch = authEpoch' /\ d.scope = selected'
          /\ d.found = NoOauth /\ d.held = {serverHas[p] : p \in {selected'} \cap Scopes}
        BY DEF NoReading
    <1>4. d.held \in SUBSET (Records \cup {NoOauth})
        BY <1>3 DEF ULInv, ULTypeOK
    <1>5. i.sequence + 1 \in Nat
        BY DEF ULAuth
    <1>6. d \in ULReading
        BY <1>4, <1>5 DEF ULReading, NoReading
    <1>7. reading' \in [Readers -> ULReading]
        BY <1>1, <1>6 DEF ULInv, ULTypeOK
    <1>8. ASSUME NEW q \in Readers
          PROVE  ReadingInv(reading'[q], auth'.sequence, authEpoch', selected', serverHas')
        <2>1. CASE q = r
            <3>1. reading'[q] = d
                BY <1>1, <2>1 DEF ULInv, ULTypeOK
            <3> HIDE DEF d
            <3> QED BY <3>1, <1>2, <1>3, <1>5 DEF ReadingInv
        <2>2. CASE q # r
            <3>1. reading'[q] = reading[q]
                BY <1>1, <2>2 DEF ULInv, ULTypeOK
            <3>2. /\ ReadingInv(reading[q], auth.sequence, authEpoch, selected, serverHas)
                  /\ reading[q] \in ULReading /\ auth.sequence \in Nat /\ authEpoch \in Nat
                BY DEF ULInv, ULReadings, ULTypeOK, ULAuth
            <3>3. reading[q].sequence <= auth'.sequence /\ reading[q].epoch <= authEpoch'
                BY <3>2, <1>2, <1>5 DEF ReadingInv, ULReading, ULAuth
            <3>4. reading[q].epoch = authEpoch' => UNCHANGED <<selected, authEpoch>>
                BY <3>2 DEF ReadingInv, ULReading
            <3> QED BY <3>1, <3>2, <3>3, <3>4 DEF ReadingInv
        <2> QED BY <2>1, <2>2
    <1> QED BY <1>2, <1>7, <1>8 DEF ULReadings

\* The same for the readings that are under way when the scope changes.
LEMMA ReadingsStay ==
    ASSUME ULInv, NEW i \in ULAuth, i.sequence >= auth.sequence, auth' = i, UNCHANGED <<serverHas, reading>>,
           selected' \in Scopes \cup {NoScope}, authEpoch' \in Nat,
           UNCHANGED <<selected, authEpoch>> \/ authEpoch' = authEpoch + 1
    PROVE  ULReadings'
    <1>1. ASSUME NEW q \in Readers
          PROVE  ReadingInv(reading'[q], auth'.sequence, authEpoch', selected', serverHas')
        <2>1. /\ ReadingInv(reading[q], auth.sequence, authEpoch, selected, serverHas)
              /\ reading[q] \in ULReading /\ auth.sequence \in Nat /\ authEpoch \in Nat
            BY DEF ULInv, ULReadings, ULTypeOK, ULAuth
        <2>2. reading[q].sequence <= auth'.sequence /\ reading[q].epoch <= authEpoch'
            BY <2>1 DEF ReadingInv, ULReading, ULAuth
        <2>3. reading[q].epoch = authEpoch' => UNCHANGED <<selected, authEpoch>>
            BY <2>1 DEF ReadingInv, ULReading
        <2> QED BY <2>1, <2>2, <2>3 DEF ReadingInv
    <1> QED BY <1>1 DEF ULReadings

LEMMA CallsRefresh ==
    ASSUME ULInv, NEW force \in BOOLEAN, NEW i \in ULAuth, i.sequence >= auth.sequence,
           selected' \in Scopes \cup {NoScope}, authEpoch' \in Nat, UNCHANGED serverHas,
           UNCHANGED <<selected, authEpoch>> \/ authEpoch' = authEpoch + 1,
           RefreshCalled(force, i)
    PROVE  /\ reading' \in [Readers -> ULReading] /\ ULReadings'
           /\ auth' \in ULAuth /\ auth'.oauth = i.oauth /\ auth'.limits = i.limits
           /\ flight' \in ULFlight /\ ULFlightInv'
    <1>1. CASE flight.pc = "off"
        <2>1. flight' = [NoFetch EXCEPT !.pc = "before", !.force = force]
              /\ BeginReading(0, i, selected', authEpoch')
            BY <1>1 DEF RefreshCalled
        <2>2. 0 \in Readers
            BY DEF Readers
        <2>3. flight' \in ULFlight /\ ULFlightInv'
            BY <2>1 DEF ULFlight, ULFlightInv, NoFetch
        <2> QED BY <2>1, <2>2, <2>3, ReadingBegins
    <1>2. CASE flight.pc # "off"
        <2>1. auth' = i /\ UNCHANGED <<flight, reading>>
            BY <1>2 DEF RefreshCalled
        <2>2. ULReadings'
            BY <2>1, ReadingsStay
        <2> QED BY <2>1, <2>2 DEF ULInv, ULTypeOK, ULFlightInv
    <1> QED BY <1>1, <1>2

LEMMA SelectsScope ==
    ASSUME ULInv, SelectScope
    PROVE  /\ selected' \in Scopes \cup {NoScope} /\ authEpoch' \in Nat /\ selected' = viewed
           /\ UNCHANGED <<selected, authEpoch>> \/ authEpoch' = authEpoch + 1
           /\ Selecting \in ULAuth /\ Selecting.sequence >= auth.sequence
           /\ OwnNumbers(Selecting, selected')
           /\ Selecting.oauth \in {auth.oauth, NoOauth} /\ Selecting.limits \in {auth.limits, NoNumbers}
    <1>1. /\ auth \in ULAuth /\ OwnNumbers(auth, selected) /\ auth.sequence \in Nat
          /\ authEpoch \in Nat /\ viewed \in Scopes
        BY DEF ULInv, ULTypeOK, ULAuth
    <1>2. CASE selected = viewed
        BY <1>1, <1>2 DEF SelectScope, Selecting
    <1>3. CASE selected # viewed
        <2>1. Selecting = Forgotten(auth)
            BY <1>3 DEF Selecting
        <2> QED BY <1>1, <1>3, <2>1, ForgottenOwn DEF SelectScope
    <1> QED BY <1>2, <1>3

\* Numbers that stay, or go, stay those of what is known; a record that goes takes
\* them along.
LEMMA OwnNumbersStay ==
    ASSUME NEW i, NEW j, NEW s, OwnNumbers(i, s), j.oauth = i.oauth, j.limits = i.limits
    PROVE  OwnNumbers(j, s)
    BY DEF OwnNumbers

\* What BeginSync and SyncAnswers leave of the look-ups.
LEMMA SyncBegins ==
    ASSUME ULInv, NEW r \in Readers, viewed' \in Scopes, BeginSync(r, viewed')
    PROVE  ULSyncs' /\ sync' \in [Readers -> ULSync] /\ syncGeneration' \in Nat
    <1> DEFINE d == [pc |-> "asked", generation |-> syncGeneration + 1, root |-> viewed']
    <1>1. /\ syncGeneration' = syncGeneration + 1 /\ classifierRoot' = viewed' /\ syncGeneration \in Nat
          /\ classifier' \in {viewed', NoScope} /\ sync' = [sync EXCEPT ![r] = d]
        BY DEF BeginSync, ULInv, ULSyncs, ULTypeOK
    <1>2. d \in ULSync /\ sync \in [Readers -> ULSync]
        BY <1>1 DEF ULSync, ULInv, ULTypeOK
    <1>3. /\ d.generation = syncGeneration + 1 /\ d.root = viewed'
        OBVIOUS
    <1> HIDE DEF d
    <1>4. sync' \in [Readers -> ULSync]
        BY <1>1, <1>2
    <1>5. ASSUME NEW q \in Readers
          PROVE  /\ sync'[q].generation <= syncGeneration'
                 /\ sync'[q].generation = syncGeneration' => sync'[q].root \in {viewed', NoScope}
        <2>1. CASE q = r
            BY <1>1, <1>2, <1>3, <2>1
        <2>2. CASE q # r
            <3>1. sync'[q] = sync[q] /\ sync[q] \in ULSync /\ sync[q].generation <= syncGeneration
                BY <1>1, <1>2, <2>2 DEF ULInv, ULSyncs
            <3> QED BY <1>1, <3>1 DEF ULSync
        <2> QED BY <2>1, <2>2
    <1> QED BY <1>1, <1>4, <1>5 DEF ULSyncs

LEMMA SyncEnds ==
    ASSUME ULInv, NEW r \in Readers, SyncAnswers(r), UNCHANGED viewed
    PROVE  ULSyncs' /\ sync' \in [Readers -> ULSync] /\ syncGeneration' \in Nat
    <1>1. /\ sync' = [sync EXCEPT ![r] = NoSync] /\ UNCHANGED <<classifierRoot, syncGeneration, viewed>>
          /\ classifier' \in {viewed, NoScope}
        BY DEF SyncAnswers, ULInv, ULSyncs
    <1>2. NoSync \in ULSync /\ NoSync.generation = 0 /\ NoSync.root = NoScope
          /\ sync \in [Readers -> ULSync] /\ syncGeneration \in Nat
        BY DEF NoSync, ULSync, ULInv, ULTypeOK
    <1>3. sync' \in [Readers -> ULSync]
        BY <1>1, <1>2
    <1>4. ASSUME NEW q \in Readers
          PROVE  /\ sync'[q].generation <= syncGeneration'
                 /\ sync'[q].generation = syncGeneration' => sync'[q].root \in {viewed', NoScope}
        <2>1. CASE q = r
            BY <1>1, <1>2, <2>1
        <2>2. CASE q # r
            BY <1>1, <1>2, <2>2 DEF ULInv, ULSyncs
        <2> QED BY <2>1, <2>2
    <1> QED BY <1>1, <1>2, <1>3, <1>4 DEF ULSyncs, ULInv

-----------------------------------------------------------------------------
(* The steps.                                                                *)

LEMMA ULStarts == ULInit => ULInv
    <1> SUFFICES ASSUME ULInit PROVE ULInv
        OBVIOUS
    <1>1. /\ auth \in ULAuth /\ NoReading \in ULReading /\ NoFetch \in ULFlight /\ NoSync \in ULSync
          /\ OwnNumbers(auth, selected)
        BY DEF ULInit, ULAuth, ULReading, ULFlight, ULSync, NoReading, NoFetch, NoSync, NoNumbers, OwnNumbers
    <1>2. ULTypeOK
        BY <1>1 DEF ULInit, ULTypeOK
    <1>3. ULReadings
        BY DEF ULInit, ULReadings, ReadingInv, NoReading
    <1> QED BY <1>1, <1>2, <1>3 DEF ULInit, ULInv, ULFlightInv, NoFetch, ULSyncs, NoSync

\* What a reading finds in the store and hears from the server.
LEMMA ReadingMoves ==
    ASSUME ULInv, NEW r \in Readers, StoreIsRead(r) \/ ServerAnswers(r) \/ ReadingFails(r)
    PROVE  ULInv' /\ LimitsStep
    <1>1. UNCHANGED <<viewed, serverHas, storeHas, turns, selected, authEpoch, auth, flight, flightGeneration,
                      queued, followUp, tick, classifierRoot, syncGeneration, classifier, sync>>
        BY DEF StoreIsRead, ServerAnswers, ReadingFails
    <1>2. PICK pc \in {"probe", "told"}, f \in Records \cup {NoOauth} :
              /\ reading' = [reading EXCEPT ![r].pc = pc, ![r].found = f]
              /\ reading[r].pc # "off"
              /\ pc = "told" /\ f # NoOauth => reading[r].scope \in Scopes /\ f = serverHas[reading[r].scope]
        <2>1. /\ reading[r] \in ULReading /\ storeHas \in Records \cup {NoOauth}
              /\ reading[r].found \in Records \cup {NoOauth}
            BY DEF ULInv, ULTypeOK, ULReading
        <2>2. CASE StoreIsRead(r)
            BY <2>1, <2>2 DEF StoreIsRead
        <2>3. CASE ServerAnswers(r)
            <3> DEFINE f == IF Proves(reading[r].scope, reading[r].found) THEN reading[r].found ELSE NoOauth
            <3>1. /\ reading' = [reading EXCEPT ![r].pc = "told", ![r].found = f]
                  /\ reading[r].pc = "probe" /\ reading[r].scope \in Scopes /\ reading \in [Readers -> ULReading]
                BY <2>3 DEF ServerAnswers, ULInv, ULTypeOK
            <3>2. f \in Records \cup {NoOauth} /\ (f # NoOauth => f = serverHas[reading[r].scope])
                BY <2>1 DEF Proves
            <3> HIDE DEF f
            <3> QED BY <3>1, <3>2
        <2>4. CASE ReadingFails(r)
            BY <2>1, <2>4 DEF ReadingFails
        <2> QED BY <2>2, <2>3, <2>4
    <1>3. reading' \in [Readers -> ULReading]
        <2> DEFINE d == [reading[r] EXCEPT !.pc = pc, !.found = f]
        <2>1. reading \in [Readers -> ULReading] /\ reading[r] \in ULReading
            BY DEF ULInv, ULTypeOK
        <2>2. d \in ULReading
            BY <2>1 DEF ULReading
        <2>3. reading' = [reading EXCEPT ![r] = d]
            BY <1>2, <2>1
        <2> HIDE DEF d
        <2> QED BY <2>1, <2>2, <2>3
    <1>4. ULReadings'
        <2>1. ASSUME NEW q \in Readers
              PROVE  ReadingInv(reading'[q], auth.sequence, authEpoch, selected, serverHas)
            <3>1. ReadingInv(reading[q], auth.sequence, authEpoch, selected, serverHas)
                BY DEF ULInv, ULReadings
            <3>2. CASE q = r
                <4>1. /\ reading'[q].pc = pc /\ reading'[q].found = f /\ reading'[q].sequence = reading[q].sequence
                      /\ reading'[q].epoch = reading[q].epoch /\ reading'[q].scope = reading[q].scope
                      /\ reading'[q].held = reading[q].held
                    BY <1>2, <3>2 DEF ULInv, ULTypeOK, ULReading
                <4> QED BY <1>2, <3>1, <3>2, <4>1 DEF ReadingInv
            <3>3. CASE q # r
                BY <1>2, <3>1, <3>3 DEF ULInv, ULTypeOK
            <3> QED BY <3>2, <3>3
        <2> QED BY <1>1, <2>1 DEF ULReadings
    <1>5. LimitsStep
        BY <1>1 DEF LimitsStep
    <1> QED BY <1>1, <1>3, <1>4, <1>5 DEF ULInv, ULTypeOK, OwnNumbers, SameAccount, ULFlightInv, ULSyncs

\* A reading that is over leaves the others as they are.
LEMMA ReadingOver ==
    ASSUME ULInv, NEW r \in Readers, reading' = [reading EXCEPT ![r] = NoReading],
           auth'.sequence = auth.sequence, UNCHANGED <<serverHas, selected, authEpoch>>
    PROVE  reading' \in [Readers -> ULReading] /\ ULReadings'
    <1>1. NoReading \in ULReading /\ NoReading.sequence = 0 /\ NoReading.epoch = 0 /\ NoReading.pc = "off"
        BY DEF NoReading, ULReading
    <1>2. auth.sequence \in Nat /\ authEpoch \in Nat /\ reading \in [Readers -> ULReading]
        BY DEF ULInv, ULTypeOK, ULAuth
    <1>3. ASSUME NEW q \in Readers
          PROVE  ReadingInv(reading'[q], auth.sequence, authEpoch, selected, serverHas)
        <2>1. CASE q = r
            BY <1>1, <1>2, <2>1 DEF ReadingInv
        <2>2. CASE q # r
            BY <1>2, <2>2 DEF ULInv, ULReadings
        <2> QED BY <2>1, <2>2
    <1> QED BY <1>1, <1>2, <1>3 DEF ULReadings

LEMMA TickReadKeeps ==
    ASSUME ULInv, NEW t \in Ticks, TickRead(t)
    PROVE  ULInv' /\ LimitsStep
    <1>1. /\ reading[t].pc = "told" /\ auth' = Adopted(auth, t) /\ t \in Readers
          /\ reading' = [reading EXCEPT ![t] = NoReading] /\ tick' = [tick EXCEPT ![t].pc = "sync"]
          /\ BeginSync(t, viewed') /\ viewed' \in Scopes
          /\ UNCHANGED <<viewed, serverHas, storeHas, selected, authEpoch, flight>>
        BY DEF TickRead, Readers, ULInv, ULTypeOK
    <1>2. auth' \in ULAuth /\ OwnNumbers(auth', selected) /\ auth'.sequence = auth.sequence
        BY <1>1, AdoptedOwn
    <1>3. reading' \in [Readers -> ULReading] /\ ULReadings'
        BY <1>1, <1>2, ReadingOver
    <1>4. ULSyncs' /\ sync' \in [Readers -> ULSync] /\ syncGeneration' \in Nat
        BY <1>1, SyncBegins
    <1>5. ULTypeOK'
        BY <1>1, <1>2, <1>3, <1>4 DEF ULInv, ULTypeOK
    <1>6. LimitsStep
        <2>1. /\ auth'.limits \in {auth.limits, NoNumbers}
              /\ NotNewest(auth, t) => auth' = auth
              /\ ~NotNewest(auth, t) => auth'.oauth = Answer(t)
            BY <1>1, AdoptedOwn
        <2>2. ~NotNewest(auth, t) /\ Answer(t) # NoOauth => ProvedSince(Answer(t))
            BY <1>1, NewestIsProved
        <2> QED BY <2>1, <2>2 DEF LimitsStep
    <1> QED BY <1>1, <1>2, <1>3, <1>4, <1>5, <1>6 DEF ULInv, ULFlightInv, OwnNumbers, SameAccount

\* The end of a flight.
LEMMA FlightEndsWith ==
    ASSUME ULInv, NEW i \in ULAuth, i.sequence = auth.sequence, OwnNumbers(i, selected), FlightOver(i),
           UNCHANGED <<viewed, serverHas, storeHas, selected, authEpoch, tick, classifierRoot,
                       syncGeneration, classifier, sync>>
    PROVE  ULInv'
    <1>1. /\ auth' = i /\ flight' = NoFetch /\ reading' = [reading EXCEPT ![0] = NoReading] /\ 0 \in Readers
        BY DEF FlightOver, Readers
    <1>2. reading' \in [Readers -> ULReading] /\ ULReadings'
        BY <1>1, ReadingOver
    <1>3. NoFetch \in ULFlight /\ NoFetch.pc = "off"
        BY DEF NoFetch, ULFlight
    <1> QED BY <1>1, <1>2, <1>3 DEF ULInv, ULTypeOK, ULFlightInv, ULSyncs, OwnNumbers, SameAccount

LEMMA FlightReadKeeps ==
    ASSUME ULInv, FlightRead
    PROVE  ULInv' /\ LimitsStep
    <1> DEFINE i == Adopted(auth, 0)
    <1>1. /\ reading[0].pc = "told" /\ 0 \in Readers
          /\ UNCHANGED <<viewed, serverHas, storeHas, selected, authEpoch, tick, classifierRoot,
                         syncGeneration, classifier, sync>>
        BY DEF FlightRead, Readers
    <1>2. /\ i \in ULAuth /\ OwnNumbers(i, selected) /\ i.sequence = auth.sequence
          /\ i.limits \in {auth.limits, NoNumbers}
          /\ i.oauth # auth.oauth => ~NotNewest(auth, 0) /\ i.oauth = Answer(0)
        BY <1>1, AdoptedOwn
    <1>3. i.oauth \notin {auth.oauth, NoOauth} => ProvedSince(i.oauth)
        BY <1>1, <1>2, NewestIsProved
    <1> HIDE DEF i
    <1>4. \/ FlightOver(i)
          \/ FlightOver(Failed(i, FALSE))
          \/ /\ flight' = [flight EXCEPT !.pc = "fetching", !.generation = i.generation, !.by = i.oauth]
             /\ reading' = [reading EXCEPT ![0] = NoReading] /\ auth' = i /\ i.oauth # NoOauth
        BY DEF FlightRead, i
    <1>5. CASE FlightOver(i)
        <2>1. ULInv'
            BY <1>1, <1>2, <1>5, FlightEndsWith
        <2>2. auth' = i
            BY <1>5 DEF FlightOver
        <2> QED BY <1>2, <1>3, <2>1, <2>2 DEF LimitsStep
    <1>6. CASE FlightOver(Failed(i, FALSE))
        <2>1. /\ Failed(i, FALSE) \in ULAuth /\ OwnNumbers(Failed(i, FALSE), selected)
              /\ Failed(i, FALSE).oauth = i.oauth /\ Failed(i, FALSE).limits \in {i.limits, NoNumbers}
              /\ Failed(i, FALSE).sequence = auth.sequence
            BY <1>2, FailedOwn
        <2>2. ULInv'
            BY <1>1, <1>6, <2>1, FlightEndsWith
        <2>3. auth' = Failed(i, FALSE)
            BY <1>6 DEF FlightOver
        <2> QED BY <1>2, <1>3, <2>1, <2>2, <2>3 DEF LimitsStep
    <1>7. CASE /\ flight' = [flight EXCEPT !.pc = "fetching", !.generation = i.generation, !.by = i.oauth]
               /\ reading' = [reading EXCEPT ![0] = NoReading] /\ auth' = i /\ i.oauth # NoOauth
        <2>1. reading' \in [Readers -> ULReading] /\ ULReadings'
            BY <1>1, <1>2, <1>7, ReadingOver
        <2>2. flight' \in ULFlight /\ ULFlightInv'
            BY <1>2, <1>7 DEF ULInv, ULTypeOK, ULFlight, ULAuth, ULFlightInv
        <2>3. ULTypeOK'
            BY <1>1, <1>2, <1>7, <2>1, <2>2 DEF ULInv, ULTypeOK
        <2>4. ULInv'
            BY <1>1, <1>2, <1>7, <2>1, <2>2, <2>3 DEF ULInv, ULFlightInv, ULSyncs, OwnNumbers, SameAccount
        <2> QED BY <1>2, <1>3, <1>7, <2>4 DEF LimitsStep
    <1> QED BY <1>4, <1>5, <1>6, <1>7

LEMMA UsageAnswersKeeps ==
    ASSUME ULInv, UsageAnswers
    PROVE  ULInv' /\ LimitsStep
    <1>1. /\ BeginReading(0, auth, selected', authEpoch') /\ 0 \in Readers /\ flight.pc = "fetching"
          /\ UNCHANGED <<viewed, serverHas, storeHas, selected, authEpoch, tick, classifierRoot,
                         syncGeneration, classifier, sync>>
        BY DEF UsageAnswers, Readers
    <1>2. /\ auth \in ULAuth /\ auth.sequence >= auth.sequence /\ selected' \in Scopes \cup {NoScope}
          /\ authEpoch' \in Nat
        BY <1>1 DEF ULInv, ULTypeOK, ULAuth
    <1>3. /\ reading' \in [Readers -> ULReading] /\ ULReadings'
          /\ auth' \in ULAuth /\ auth'.oauth = auth.oauth /\ auth'.limits = auth.limits
        BY <1>1, <1>2, ReadingBegins
    <1>4. flight' \in ULFlight /\ ULFlightInv'
        <2>1. PICK result \in {"success", "unauthorized", "failed"} :
                  flight' = [flight EXCEPT !.pc = "after", !.result = result]
            BY DEF UsageAnswers
        <2> QED BY <1>1, <2>1 DEF ULInv, ULTypeOK, ULFlight, ULFlightInv
    <1>5. ULTypeOK'
        BY <1>1, <1>3, <1>4 DEF ULInv, ULTypeOK
    <1>6. OwnNumbers(auth', selected')
        BY <1>1, <1>3 DEF ULInv, OwnNumbers
    <1> QED BY <1>1, <1>3, <1>4, <1>5, <1>6 DEF ULInv, ULSyncs, LimitsStep, OwnNumbers, SameAccount

LEMMA FlightEndsKeeps ==
    ASSUME ULInv, FlightEnds
    PROVE  ULInv' /\ LimitsStep
    <1> DEFINE i == Adopted(auth, 0)  e == Settled(Adopted(auth, 0))
    <1>1. /\ reading[0].pc = "told" /\ 0 \in Readers /\ flight.pc = "after" /\ flight.by # NoOauth
          /\ FlightOver(e) /\ flight.by \in Records \cup {NoOauth}
          /\ UNCHANGED <<viewed, serverHas, storeHas, selected, authEpoch, tick, classifierRoot,
                         syncGeneration, classifier, sync>>
        BY DEF FlightEnds, Readers, ULInv, ULFlightInv, ULTypeOK, ULFlight
    <1>2. /\ i \in ULAuth /\ OwnNumbers(i, selected) /\ i.sequence = auth.sequence
          /\ i.limits \in {auth.limits, NoNumbers}
          /\ i.oauth # auth.oauth => ~NotNewest(auth, 0) /\ i.oauth = Answer(0)
          /\ ~NotNewest(auth, 0) => i.oauth = Answer(0)
        BY <1>1, AdoptedOwn
    <1>3. i.oauth \notin {auth.oauth, NoOauth} => ProvedSince(i.oauth)
        BY <1>1, <1>2, NewestIsProved
    <1>4. StillMeant(i) => flight.by = i.oauth /\ flight.by \in reading[0].held
        BY <1>1, <1>2, NewestIsProved DEF StillMeant
    <1>5. /\ e \in ULAuth /\ OwnNumbers(e, selected) /\ e.sequence = auth.sequence /\ e.oauth = i.oauth
          /\ e.limits \in {i.limits, NoNumbers} \/ (StillMeant(i) /\ e.limits.of = flight.by)
        <2> HIDE DEF i
        <2>0. e = Settled(i)
            BY DEF i
        <2> HIDE DEF e
        <2>1. CASE ~StillMeant(i)
            <3>1. e = i
                BY <2>0, <2>1 DEF Settled
            <3> QED BY <1>2, <3>1
        <2>2. CASE StillMeant(i) /\ flight.result = "success"
            <3> DEFINE l == [of |-> flight.by, at |-> selected]
            <3>1. e = [i EXCEPT !.limits = l, !.fresh = TRUE, !.failures = 0, !.backoff = FALSE,
                                !.rejected = NoOauth]
                BY <2>0, <2>2 DEF Settled
            <3>2. l \in [of : Records \cup {NoOauth}, at : Scopes \cup {NoScope}]
                BY <1>1 DEF ULInv, ULTypeOK
            <3>3. l.of = flight.by /\ l.at = selected
                OBVIOUS
            <3> HIDE DEF l
            <3>4. e.limits = l /\ e.oauth = i.oauth /\ e.sequence = i.sequence
                BY <1>2, <3>1 DEF ULAuth
            <3>5. e \in ULAuth
                BY <1>2, <3>1, <3>2 DEF ULAuth
            <3>6. OwnNumbers(e, selected)
                BY <1>4, <2>2, <3>3, <3>4 DEF OwnNumbers
            <3> QED BY <1>2, <2>2, <3>3, <3>4, <3>5, <3>6
        <2>3. CASE StillMeant(i) /\ flight.result = "unauthorized"
            <3> DEFINE j == [i EXCEPT !.rejected = flight.by]
            <3>1. e = Failed(j, TRUE)
                BY <2>0, <2>3 DEF Settled
            <3>2. j \in ULAuth /\ j.limits = i.limits /\ j.oauth = i.oauth /\ j.sequence = i.sequence
                BY <1>1, <1>2 DEF ULAuth
            <3> HIDE DEF j
            <3>3. OwnNumbers(j, selected)
                BY <1>2, <3>2, OwnNumbersStay
            <3> QED BY <1>2, <3>1, <3>2, <3>3, FailedOwn
        <2>4. CASE StillMeant(i) /\ flight.result \notin {"success", "unauthorized"}
            <3>1. e = Failed(i, FALSE)
                BY <2>0, <2>4 DEF Settled
            <3> QED BY <1>2, <3>1, FailedOwn
        <2> QED BY <2>1, <2>2, <2>3, <2>4
    <1> HIDE DEF i, e
    <1>6. ULInv'
        BY <1>1, <1>5, FlightEndsWith
    <1>7. auth' = e
        BY <1>1 DEF FlightOver
    <1> QED BY <1>1, <1>2, <1>3, <1>4, <1>5, <1>6, <1>7 DEF LimitsStep

\* What follows once the instance is called in a step of its own.
LEMMA CallKeeps ==
    ASSUME ULInv, reading' \in [Readers -> ULReading], ULReadings', auth' \in ULAuth,
           OwnNumbers(auth', selected'), selected' \in Scopes \cup {NoScope}, authEpoch' \in Nat, Quiet,
           flight' \in ULFlight, ULFlightInv', UNCHANGED <<viewed, serverHas, storeHas>>,
           tick' \in [Ticks -> [pc : {"off", "auth", "sync", "done"}, force : BOOLEAN]],
           ULSyncs', sync' \in [Readers -> ULSync], syncGeneration' \in Nat
    PROVE  ULInv' /\ LimitsStep
    <1>1. ULTypeOK'
        BY DEF ULInv, ULTypeOK
    <1>2. OwnNumbers(auth, selected)'
        BY DEF OwnNumbers, SameAccount
    <1> QED BY <1>1, <1>2, QuietStep DEF ULInv

LEMMA SyncsStay ==
    ASSUME ULInv, UNCHANGED <<viewed, classifierRoot, syncGeneration, classifier, sync>>
    PROVE  ULSyncs' /\ sync' \in [Readers -> ULSync] /\ syncGeneration' \in Nat
    BY DEF ULInv, ULTypeOK, ULSyncs

LEMMA InstanceCalled ==
    ASSUME ULInv, FollowUpRuns \/ ViewRefreshes
    PROVE  ULInv' /\ LimitsStep
    <1>1. PICK force \in BOOLEAN : RefreshCalled(force, auth)
        BY DEF FollowUpRuns, ViewRefreshes
    <1>2. UNCHANGED <<viewed, serverHas, storeHas, selected, authEpoch, tick, classifierRoot,
                      syncGeneration, classifier, sync>>
        BY DEF FollowUpRuns, ViewRefreshes
    <1>3. /\ auth \in ULAuth /\ auth.sequence >= auth.sequence /\ selected' \in Scopes \cup {NoScope}
          /\ authEpoch' \in Nat /\ OwnNumbers(auth, selected')
          /\ tick' \in [Ticks -> [pc : {"off", "auth", "sync", "done"}, force : BOOLEAN]]
        BY <1>2 DEF ULInv, ULTypeOK, ULAuth
    <1>4. /\ reading' \in [Readers -> ULReading] /\ ULReadings'
          /\ auth' \in ULAuth /\ auth'.oauth = auth.oauth /\ auth'.limits = auth.limits
          /\ flight' \in ULFlight /\ ULFlightInv'
        BY <1>1, <1>2, <1>3, CallsRefresh
    <1>5. OwnNumbers(auth', selected') /\ Quiet
        BY <1>3, <1>4, OwnNumbersStay DEF Quiet
    <1>6. ULSyncs' /\ sync' \in [Readers -> ULSync] /\ syncGeneration' \in Nat
        BY <1>2, SyncsStay
    <1> QED BY <1>2, <1>3, <1>4, <1>5, <1>6, CallKeeps

LEMMA TickBeginsKeeps ==
    ASSUME ULInv, NEW t \in Ticks, TickBegins(t)
    PROVE  ULInv' /\ LimitsStep
    <1>1. /\ SelectScope /\ BeginReading(t, Selecting, selected', authEpoch') /\ t \in Readers
          /\ UNCHANGED <<viewed, serverHas, storeHas, flight, classifierRoot, syncGeneration, classifier, sync>>
        BY DEF TickBegins, Readers
    <1>2. /\ selected' \in Scopes \cup {NoScope} /\ authEpoch' \in Nat
          /\ UNCHANGED <<selected, authEpoch>> \/ authEpoch' = authEpoch + 1
          /\ Selecting \in ULAuth /\ Selecting.sequence >= auth.sequence
          /\ OwnNumbers(Selecting, selected')
          /\ Selecting.oauth \in {auth.oauth, NoOauth} /\ Selecting.limits \in {auth.limits, NoNumbers}
        BY <1>1, SelectsScope
    <1>3. /\ reading' \in [Readers -> ULReading] /\ ULReadings'
          /\ auth' \in ULAuth /\ auth'.oauth = Selecting.oauth /\ auth'.limits = Selecting.limits
        BY <1>1, <1>2, ReadingBegins
    <1>4. OwnNumbers(auth', selected') /\ Quiet
        BY <1>2, <1>3, OwnNumbersStay DEF Quiet
    <1>5. tick' \in [Ticks -> [pc : {"off", "auth", "sync", "done"}, force : BOOLEAN]]
        <2>1. PICK force \in BOOLEAN : tick' = [tick EXCEPT ![t] = [pc |-> "auth", force |-> force]]
            BY DEF TickBegins
        <2> QED BY <2>1 DEF ULInv, ULTypeOK
    <1>6. ULSyncs' /\ sync' \in [Readers -> ULSync] /\ syncGeneration' \in Nat
        BY <1>1, SyncsStay
    <1>7. flight' \in ULFlight /\ ULFlightInv'
        BY <1>1 DEF ULInv, ULTypeOK, ULFlightInv
    <1> QED BY <1>1, <1>2, <1>3, <1>4, <1>5, <1>6, <1>7, CallKeeps

LEMMA TickRefreshesKeeps ==
    ASSUME ULInv, NEW t \in Ticks, TickRefreshes(t)
    PROVE  ULInv' /\ LimitsStep
    <1>1. /\ SyncAnswers(t) /\ t \in Readers /\ UNCHANGED <<viewed, serverHas, storeHas>>
          /\ tick' = [tick EXCEPT ![t] = [pc |-> "done", force |-> FALSE]]
        BY DEF TickRefreshes, Readers
    <1>2. tick' \in [Ticks -> [pc : {"off", "auth", "sync", "done"}, force : BOOLEAN]]
          /\ tick[t].force \in BOOLEAN
        BY <1>1 DEF ULInv, ULTypeOK
    <1>3. ULSyncs' /\ sync' \in [Readers -> ULSync] /\ syncGeneration' \in Nat
        BY <1>1, SyncEnds
    <1>4. CASE SelectScope /\ RefreshCalled(tick[t].force, Selecting)
        <2>1. /\ selected' \in Scopes \cup {NoScope} /\ authEpoch' \in Nat
              /\ UNCHANGED <<selected, authEpoch>> \/ authEpoch' = authEpoch + 1
              /\ Selecting \in ULAuth /\ Selecting.sequence >= auth.sequence
              /\ OwnNumbers(Selecting, selected')
              /\ Selecting.oauth \in {auth.oauth, NoOauth} /\ Selecting.limits \in {auth.limits, NoNumbers}
            BY <1>4, SelectsScope
        <2>2. /\ reading' \in [Readers -> ULReading] /\ ULReadings'
              /\ auth' \in ULAuth /\ auth'.oauth = Selecting.oauth /\ auth'.limits = Selecting.limits
              /\ flight' \in ULFlight /\ ULFlightInv'
            BY <1>1, <1>2, <1>4, <2>1, CallsRefresh
        <2>3. OwnNumbers(auth', selected') /\ Quiet
            BY <2>1, <2>2, OwnNumbersStay DEF Quiet
        <2> QED BY <1>1, <1>2, <1>3, <2>1, <2>2, <2>3, CallKeeps
    <1>5. CASE UNCHANGED <<selected, authEpoch, auth, flight, flightGeneration, queued, reading>>
        <2>1. /\ reading' \in [Readers -> ULReading] /\ ULReadings'
              /\ flight' \in ULFlight /\ ULFlightInv' /\ auth' \in ULAuth /\ OwnNumbers(auth', selected')
              /\ selected' \in Scopes \cup {NoScope} /\ authEpoch' \in Nat
            BY <1>1, <1>5 DEF ULInv, ULTypeOK, ULReadings, ULFlightInv
        <2>2. Quiet
            BY <1>5 DEF Quiet
        <2> QED BY <1>1, <1>2, <1>3, <2>1, <2>2, CallKeeps
    <1> QED BY <1>4, <1>5 DEF TickRefreshes

\* Steps that leave the instance and its readings alone.
LEMMA InstanceStays ==
    ASSUME ULInv, UNCHANGED <<selected, authEpoch, auth, flight, reading>>, UNCHANGED <<serverHas, tick>>,
           viewed' \in Scopes, storeHas' \in Records \cup {NoOauth},
           ULSyncs', sync' \in [Readers -> ULSync], syncGeneration' \in Nat
    PROVE  ULInv' /\ LimitsStep
    <1>1. ULTypeOK'
        BY DEF ULInv, ULTypeOK
    <1>2. ULReadings' /\ ULFlightInv' /\ OwnNumbers(auth, selected)'
        BY DEF ULInv, ULReadings, ULFlightInv, OwnNumbers, SameAccount
    <1>3. LimitsStep
        BY DEF LimitsStep
    <1> QED BY <1>1, <1>2, <1>3 DEF ULInv

LEMMA ServerSignsInKeeps ==
    ASSUME ULInv, ServerSignsIn
    PROVE  ULInv' /\ LimitsStep
    <1>1. PICK s \in Scopes, a \in Records \cup {NoOauth} :
              /\ serverHas' = [serverHas EXCEPT ![s] = a]
              /\ reading' = [r \in Readers |-> IF reading[r].scope = s
                                               THEN [reading[r] EXCEPT !.held = @ \cup {a}] ELSE reading[r]]
        BY DEF ServerSignsIn
    <1>2. UNCHANGED <<viewed, storeHas, selected, authEpoch, auth, flight, tick, classifierRoot,
                      syncGeneration, classifier, sync>>
        BY DEF ServerSignsIn
    <1>3. ASSUME NEW r \in Readers
          PROVE  /\ reading'[r] \in ULReading
                 /\ ReadingInv(reading'[r], auth.sequence, authEpoch, selected, serverHas')
        <2>1. /\ ReadingInv(reading[r], auth.sequence, authEpoch, selected, serverHas)
              /\ reading[r] \in ULReading /\ serverHas \in [Scopes -> Records \cup {NoOauth}]
            BY DEF ULInv, ULReadings, ULTypeOK
        <2>2. CASE reading[r].scope = s
            <3> DEFINE h == reading[r].held \cup {a}
            <3>1. reading'[r] = [reading[r] EXCEPT !.held = h]
                BY <1>1, <2>2
            <3>2. h \in SUBSET (Records \cup {NoOauth}) /\ a \in h /\ reading[r].held \subseteq h
                BY <2>1 DEF ULReading
            <3> HIDE DEF h
            <3>3. /\ reading'[r].pc = reading[r].pc /\ reading'[r].sequence = reading[r].sequence
                  /\ reading'[r].epoch = reading[r].epoch /\ reading'[r].scope = s
                  /\ reading'[r].found = reading[r].found /\ reading'[r].held = h
                BY <2>1, <2>2, <3>1 DEF ULReading
            <3>4. serverHas'[s] = a
                BY <1>1, <2>1
            <3>5. reading'[r] \in ULReading
                BY <2>1, <3>1, <3>2 DEF ULReading
            <3> QED BY <2>1, <2>2, <3>2, <3>3, <3>4, <3>5 DEF ReadingInv
        <2>3. CASE reading[r].scope # s
            <3>1. reading'[r] = reading[r]
                BY <1>1, <2>3
            <3>2. reading[r].scope \in Scopes => serverHas'[reading[r].scope] = serverHas[reading[r].scope]
                BY <1>1, <2>1, <2>3
            <3> QED BY <2>1, <3>1, <3>2 DEF ReadingInv
        <2> QED BY <2>2, <2>3
    <1>4. reading' \in [Readers -> ULReading]
        <2> DEFINE f == [r \in Readers |-> IF reading[r].scope = s
                                           THEN [reading[r] EXCEPT !.held = @ \cup {a}] ELSE reading[r]]
        <2>1. reading' = f /\ \A r \in Readers : f[r] \in ULReading
            BY <1>1, <1>3
        <2> QED BY <2>1
    <1>5. ULReadings'
        BY <1>2, <1>3 DEF ULReadings
    <1>6. ULTypeOK'
        BY <1>1, <1>2, <1>4 DEF ULInv, ULTypeOK
    <1> QED BY <1>2, <1>5, <1>6 DEF ULInv, ULFlightInv, OwnNumbers, SameAccount, ULSyncs, LimitsStep

LEMMA ServerConnectsKeeps ==
    ASSUME ULInv, ServerConnects
    PROVE  ULInv' /\ LimitsStep
    <1>1. /\ selected' = NoScope /\ authEpoch' = authEpoch + 1 /\ auth' = Forgotten(auth)
          /\ UNCHANGED <<viewed, serverHas, storeHas, flight, reading, tick, classifierRoot,
                         syncGeneration, classifier, sync>>
        BY DEF ServerConnects
    <1>2. auth \in ULAuth /\ authEpoch \in Nat /\ auth.sequence \in Nat
        BY DEF ULInv, ULTypeOK, ULAuth
    <1>3. /\ auth' \in ULAuth /\ OwnNumbers(auth', selected')
          /\ auth'.oauth = NoOauth /\ auth'.limits = NoNumbers /\ auth'.sequence >= auth.sequence
        BY <1>1, <1>2, ForgottenOwn
    <1>4. selected' \in Scopes \cup {NoScope} /\ authEpoch' \in Nat
        BY <1>1, <1>2
    <1>5. ULReadings'
        BY <1>1, <1>3, <1>4, ReadingsStay
    <1>6. ULSyncs' /\ sync' \in [Readers -> ULSync] /\ syncGeneration' \in Nat
        BY <1>1, SyncsStay
    <1>7. /\ reading' \in [Readers -> ULReading] /\ flight' \in ULFlight /\ ULFlightInv'
          /\ tick' \in [Ticks -> [pc : {"off", "auth", "sync", "done"}, force : BOOLEAN]]
        BY <1>1 DEF ULInv, ULTypeOK, ULFlightInv
    <1>8. Quiet
        BY <1>3 DEF Quiet
    <1> QED BY <1>1, <1>3, <1>4, <1>5, <1>6, <1>7, <1>8, CallKeeps

LEMMA TimePassesKeeps ==
    ASSUME ULInv, TimePasses
    PROVE  ULInv' /\ LimitsStep
    <1>1. /\ auth' = [auth EXCEPT !.backoff = FALSE, !.fresh = FALSE]
          /\ UNCHANGED <<viewed, serverHas, storeHas, selected, authEpoch, flight, reading, tick,
                         classifierRoot, syncGeneration, classifier, sync>>
        BY DEF TimePasses
    <1>2. auth' \in ULAuth /\ auth'.sequence >= auth.sequence
          /\ auth'.oauth = auth.oauth /\ auth'.limits = auth.limits
        <2>1. auth \in ULAuth
            BY DEF ULInv, ULTypeOK
        <2>2. auth' \in ULAuth
            BY <1>1, <2>1 DEF ULAuth
        <2>3. /\ auth'.sequence = auth.sequence
              /\ auth'.oauth = auth.oauth /\ auth'.limits = auth.limits
            BY <1>1, <2>1, <2>2 DEF ULAuth
        <2>4. auth.sequence \in Nat
            BY <2>1 DEF ULAuth
        <2> QED BY <2>2, <2>3, <2>4
    <1>3. /\ selected' \in Scopes \cup {NoScope} /\ authEpoch' \in Nat /\ Quiet
          /\ reading' \in [Readers -> ULReading] /\ flight' \in ULFlight /\ ULFlightInv'
          /\ tick' \in [Ticks -> [pc : {"off", "auth", "sync", "done"}, force : BOOLEAN]]
          /\ OwnNumbers(auth', selected')
        BY <1>1, <1>2 DEF ULInv, ULTypeOK, ULFlightInv, Quiet, OwnNumbers
    <1>4. ULReadings'
        BY <1>1, <1>2, <1>3, ReadingsStay
    <1>5. ULSyncs' /\ sync' \in [Readers -> ULSync] /\ syncGeneration' \in Nat
        BY <1>1, SyncsStay
    <1> QED BY <1>1, <1>2, <1>3, <1>4, <1>5, CallKeeps

LEMMA ULKeeps ==
    ASSUME ULInv, [ULNext]_ulVars
    PROVE  ULInv' /\ (LimitsStep \/ UNCHANGED ulVars)
    <1>1. ASSUME NEW r \in Readers, StoreIsRead(r) \/ ServerAnswers(r) \/ ReadingFails(r)
          PROVE  ULInv' /\ LimitsStep
        BY <1>1, ReadingMoves
    <1>2. ASSUME NEW t \in Ticks, TickBegins(t) \/ TickRead(t) \/ TickRefreshes(t)
          PROVE  ULInv' /\ LimitsStep
        BY <1>2, TickBeginsKeeps, TickReadKeeps, TickRefreshesKeeps
    <1>3. CASE FollowUpRuns \/ ViewRefreshes
        BY <1>3, InstanceCalled
    <1>4. CASE FlightRead \/ UsageAnswers \/ FlightEnds
        BY <1>4, FlightReadKeeps, UsageAnswersKeeps, FlightEndsKeeps
    <1>5. CASE ViewSynced
        <2>1. 0 \in Readers /\ SyncAnswers(0) /\ UNCHANGED <<viewed, serverHas, storeHas, tick>>
              /\ UNCHANGED <<selected, authEpoch, auth, flight, reading>>
            BY <1>5 DEF ViewSynced, Readers
        <2>2. ULSyncs' /\ sync' \in [Readers -> ULSync] /\ syncGeneration' \in Nat
            BY <2>1, SyncEnds
        <2>3. viewed' \in Scopes /\ storeHas' \in Records \cup {NoOauth}
            BY <2>1 DEF ULInv, ULTypeOK
        <2> QED BY <2>1, <2>2, <2>3, InstanceStays
    <1>6. CASE ViewChanges
        <2>1. /\ viewed' \in Scopes /\ BeginSync(0, viewed') /\ 0 \in Readers
              /\ UNCHANGED <<selected, authEpoch, auth, flight, reading>> /\ UNCHANGED <<serverHas, tick>>
              /\ storeHas' \in Records \cup {NoOauth}
            BY <1>6 DEF ViewChanges, Readers, ULInv, ULTypeOK
        <2>2. ULSyncs' /\ sync' \in [Readers -> ULSync] /\ syncGeneration' \in Nat
            BY <2>1, SyncBegins
        <2> QED BY <2>1, <2>2, InstanceStays
    <1>7. CASE ServerSignsIn
        BY <1>7, ServerSignsInKeeps
    <1>8. CASE StoreSignsIn
        <2>1. /\ UNCHANGED <<selected, authEpoch, auth, flight, reading>> /\ UNCHANGED <<serverHas, tick>>
              /\ storeHas' \in Records \cup {NoOauth} /\ viewed' \in Scopes
              /\ UNCHANGED <<viewed, classifierRoot, syncGeneration, classifier, sync>>
            BY <1>8 DEF StoreSignsIn, ULInv, ULTypeOK
        <2>2. ULSyncs' /\ sync' \in [Readers -> ULSync] /\ syncGeneration' \in Nat
            BY <2>1, SyncsStay
        <2> QED BY <2>1, <2>2, InstanceStays
    <1>9. CASE ServerConnects \/ TimePasses
        BY <1>9, ServerConnectsKeeps, TimePassesKeeps
    <1>10. CASE UNCHANGED ulVars
        BY <1>10 DEF ulVars, ULInv, ULTypeOK, ULReadings, ULFlightInv, ULSyncs, OwnNumbers, SameAccount
    <1> QED BY <1>1, <1>2, <1>3, <1>4, <1>5, <1>6, <1>7, <1>8, <1>9, <1>10 DEF ULNext

\* Whose usage limits a terminal shows: the numbers are of the account known now and
\* of the scope selected now, the classifier is that of the session viewed; a record
\* counts only by the newest reading and if the server proved it meanwhile, numbers
\* only if it did so after they came (codex-limits).  For any scopes, records,
\* ticks and number of changes.
THEOREM LimitsAreOwnHolds == ULSpec => LimitsAreOwn
    <1>1. ULInit => ULInv
        BY ULStarts
    <1>2. ULInv /\ [ULNext]_ulVars => ULInv'
        BY ULKeeps
    <1>3. ULInv => NumbersAreOwn
        BY DEF ULInv, OwnNumbers, ULSyncs, NumbersAreOwn
    <1>4. ULInv /\ [ULNext]_ulVars =>
              [/\ auth.oauth' \notin {auth.oauth, NoOauth} => ProvedSince(auth.oauth')
               /\ auth.limits' \notin {auth.limits, NoNumbers} =>
                      flight.pc = "after" /\ auth.limits'.of \in reading[0].held]_ulVars
        BY ULKeeps DEF LimitsStep
    <1> QED BY <1>1, <1>2, <1>3, <1>4, PTL DEF ULSpec, LimitsAreOwn
=============================================================================
