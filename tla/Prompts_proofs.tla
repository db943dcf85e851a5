--------------------------- MODULE Prompts_proofs ---------------------------
(***************************************************************************)
(* Prompts the plugin approves, prompts it leaves alone, and the pool they *)
(* are classified in.  PromptJudging: the policy a verdict was given under *)
(* was the one in force at a moment between the second readings.           *)
(* LeftPrompts: what the unattended deny and the stale-prompt sweeper have *)
(* looked at holds them to what they reject, and what they leave behind is *)
(* looked after.  ConcurrencyPool: slots are counted, no waiter is passed. *)
(* The three share no state.                                               *)
(***************************************************************************)
EXTENDS LeftPrompts, PromptJudging, ConcurrencyPool, FiniteSetTheorems, SequenceTheorems, TLAPS


-----------------------------------------------------------------------------
(* PromptJudging: the two readings after the verdict enclose a moment at   *)
(* which the policy was the one judged.                                    *)

Versions == [Inputs -> Nat]

ReadingJob == [at : {"reading"}, k : 1..9, judged : Versions]
JudgedJob == [at : {"judging", "parked", "posted"}, judged : Versions]
AgainJob == [at : {"again"}, k : 1..8, pass : {1, 2}, judged : Versions, seen : Versions, first : Versions]
Job == [at : {"idle", "left", "approved"}] \cup ReadingJob \cup JudgedJob \cup AgainJob

SharedRead == [of : OfHost, current : BOOLEAN, version : Nat, bars : BOOLEAN]

PJTypeOK ==
    /\ world \in Versions /\ barring \in SUBSET Inputs
    /\ shared \in {NotShared} \cup SharedRead
    /\ job \in Job
    /\ then \in [asked : Versions, began : Versions, answered : Versions]

\* A version is never undone.
WorldInv == \A i \in Inputs : then.asked[i] <= world[i] /\ then.began[i] <= world[i] /\ then.answered[i] <= world[i]

\* A read that can be joined began no earlier than the prompt.
SharedInv == shared # NotShared /\ shared.current => shared.version >= then.asked[shared.of]

\* What has been read again lies between the begin of the reading and now, a
\* file between the host's last answer and now; the first reading before the
\* second.
ReadAgain(n) == ReadsAgain[n]
AgainInv ==
    job.at = "again" =>
        /\ \A n \in 1..7 : n < job.k => then.began[ReadAgain(n)] <= job.seen[ReadAgain(n)]
        /\ \A i \in Inputs : job.seen[i] <= world[i]
        /\ job.pass = 2 => \A i \in Inputs : job.first[i] <= then.began[i]
        /\ job.k > 3 => /\ \A i \in Inputs : then.began[i] <= then.answered[i]
                        /\ \A n \in 4..7 : n < job.k => then.answered[ReadAgain(n)] <= job.seen[ReadAgain(n)]

PJInv == PJTypeOK /\ WorldInv /\ SharedInv /\ AgainInv /\ JudgedOnItsOwnPast /\ PostedOnCurrentPolicy

\* The order of the reads: the host's three, then the files.
LEMMA OrderOfReads ==
    /\ \A n \in 1..7 : ReadAgain(n) \in Inputs
    /\ \A n \in 1..3 : ReadAgain(n) \in OfHost
    /\ \A n \in 4..7 : ReadAgain(n) \in OfFiles
    /\ \A i \in Inputs \ {"catalog"} : \E n \in 1..7 : ReadAgain(n) = i
    /\ \A i \in OfFiles : \E n \in 4..7 : ReadAgain(n) = i
    /\ \A n, m \in 1..7 : ReadAgain(n) = ReadAgain(m) => n = m
    /\ OfHost \cap OfFiles = {} /\ Len(ReadsAgain) = 7
    /\ Len(ReadsFirst) = 8 /\ \A n \in 1..8 : ReadsFirst[n] \in Inputs
  <1>1. /\ Len(ReadsAgain) = 7
        /\ ReadsAgain[1] = "context" /\ ReadsAgain[2] = "config" /\ ReadsAgain[3] = "rules"
        /\ ReadsAgain[4] = "settings" /\ ReadsAgain[5] = "tree" /\ ReadsAgain[6] = "reserved"
        /\ ReadsAgain[7] = "stores"
    BY DEF ReadsAgain
  <1>2. /\ Len(ReadsFirst) = 8
        /\ ReadsFirst[1] = "settings" /\ ReadsFirst[2] = "reserved" /\ ReadsFirst[3] = "config"
        /\ ReadsFirst[4] = "stores" /\ ReadsFirst[5] = "context" /\ ReadsFirst[6] = "rules"
        /\ ReadsFirst[7] = "tree" /\ ReadsFirst[8] = "catalog"
    BY DEF ReadsFirst
  <1>3. 1..3 = {1, 2, 3} /\ 4..7 = {4, 5, 6, 7} /\ 1..7 = {1, 2, 3} \cup {4, 5, 6, 7}
        /\ 1..8 = {1, 2, 3, 4, 5, 6, 7, 8}
    OBVIOUS
  <1>4. \A n \in 1..3 : ReadAgain(n) \in OfHost
    BY <1>1, <1>3 DEF ReadAgain, OfHost
  <1>5. \A n \in 4..7 : ReadAgain(n) \in OfFiles
    BY <1>1, <1>3 DEF ReadAgain, OfFiles
  <1>6. \A i \in OfFiles : \E n \in 4..7 : ReadAgain(n) = i
    BY <1>1, <1>3 DEF ReadAgain, OfFiles
  <1>7. \A i \in OfHost \ {"catalog"} : \E n \in 1..3 : ReadAgain(n) = i
    BY <1>1, <1>3 DEF ReadAgain, OfHost
  <1>8. \A n, m \in 1..7 : ReadAgain(n) = ReadAgain(m) => n = m
    BY <1>1, <1>3 DEF ReadAgain
  <1>9. OfHost \cap OfFiles = {}
    BY DEF OfHost, OfFiles
  <1>10. \A n \in 1..8 : ReadsFirst[n] \in Inputs
    BY <1>2, <1>3 DEF Inputs, OfHost, OfFiles
  <1>11. \A n \in 1..7 : ReadAgain(n) \in Inputs
    BY <1>3, <1>4, <1>5 DEF Inputs
  <1>12. \A i \in Inputs \ {"catalog"} : \E n \in 1..7 : ReadAgain(n) = i
    BY <1>3, <1>6, <1>7 DEF Inputs
  <1> QED BY <1>1, <1>2, <1>4, <1>5, <1>6, <1>8, <1>9, <1>10, <1>11, <1>12

LEMMA PJTypes ==
    ASSUME PJInv
    PROVE  /\ world \in Versions /\ \A i \in Inputs : world[i] \in Nat
           /\ then = [asked |-> then.asked, began |-> then.began, answered |-> then.answered]
           /\ then.asked \in Versions /\ then.began \in Versions /\ then.answered \in Versions
           /\ job.at \in {"idle", "left", "approved", "reading", "judging", "parked", "posted", "again"}
           /\ job.at = "reading" => job \in ReadingJob
           /\ job.at \in {"judging", "parked", "posted"} => job \in JudgedJob
           /\ job.at = "again" => job \in AgainJob
           /\ shared # NotShared => shared \in SharedRead
  BY DEF PJInv, PJTypeOK, Versions, Job, ReadingJob, JudgedJob, AgainJob

\* The parts that only the handler's own steps can disturb stay when it does
\* not move, however the inputs grow.
LEMMA HandlerRests ==
    ASSUME PJInv, world' \in Versions, \A i \in Inputs : world[i] <= world'[i],
           barring' \in SUBSET Inputs, UNCHANGED <<job, then>>,
           shared' \in {NotShared} \cup SharedRead,
           shared' # NotShared /\ shared'.current =>
              shared'.version >= then.asked[shared'.of]
    PROVE  PJInv'
  <1>1. PJTypeOK'
    BY DEF PJInv, PJTypeOK
  <1>2. WorldInv'
    BY PJTypes DEF PJInv, WorldInv, Versions
  <1>3. SharedInv'
    BY DEF SharedInv
  <1>4. AgainInv'
    BY PJTypes DEF PJInv, AgainInv, Versions, AgainJob
  <1>5. JudgedOnItsOwnPast' /\ PostedOnCurrentPolicy'
    BY DEF PJInv, JudgedOnItsOwnPast, PostedOnCurrentPolicy
  <1> QED BY <1>1, <1>2, <1>3, <1>4, <1>5 DEF PJInv

LEMMA EpochKeeps ==
    ASSUME PJInv
    PROVE  /\ Epoch \in {NotShared} \cup SharedRead
           /\ ~(Epoch # NotShared /\ Epoch.current)
  BY PJTypes DEF Epoch, SharedRead, NotShared

LEMMA PJInitially == PJInit => PJInv
  <1> SUFFICES ASSUME PJInit PROVE PJInv
    OBVIOUS
  <1>1. NoReads \in Versions /\ [i \in Inputs |-> 1] \in Versions
    BY DEF NoReads, Unread, Versions
  <1>2. PJTypeOK
    BY <1>1 DEF PJInit, PJTypeOK, Job
  <1> QED BY <1>1, <1>2 DEF PJInit, PJInv, WorldInv, SharedInv, AgainInv, JudgedOnItsOwnPast,
                            PostedOnCurrentPolicy, NoReads, Unread

LEMMA EditKeeps == ASSUME PJInv, NEW i \in Inputs, Edit(i) PROVE PJInv'
  <1>1. world' \in Versions /\ \A j \in Inputs : world[j] <= world'[j]
    BY PJTypes DEF Edit, Versions
  <1> QED BY <1>1, HandlerRests, PJTypes DEF Edit, PJInv, PJTypeOK, SharedInv

LEMMA SurroundingsKeep ==
    ASSUME PJInv,
           (\E i \in OfHost : OtherReads(i)) \/ OtherSettles \/ OtherPrompt \/ UserAnswersIt \/ Aborted
    PROVE  PJInv'
  <1>1. \A j \in Inputs : world[j] <= world[j]
    BY PJTypes
  <1>2. CASE \E i \in OfHost : OtherReads(i)
    <2>1. PICK i \in OfHost : OtherReads(i)
      BY <1>2
    <2>2. i \in Inputs /\ then.asked[i] <= world[i]
      BY DEF Inputs, PJInv, WorldInv
    <2>3. shared' \in SharedRead /\ shared'.of = i /\ shared'.version = world[i]
      BY <2>1, <2>2, PJTypes DEF OtherReads, SharedRead
    <2> QED BY <1>1, <2>1, <2>2, <2>3, HandlerRests, PJTypes DEF OtherReads, PJInv, PJTypeOK, Versions
  <1>3. CASE OtherSettles
    BY <1>1, <1>3, HandlerRests DEF OtherSettles, PJInv, PJTypeOK
  <1>4. CASE OtherPrompt \/ Aborted
    BY <1>1, <1>4, HandlerRests, EpochKeeps DEF OtherPrompt, Aborted, PJInv, PJTypeOK
  <1>5. CASE UserAnswersIt
    BY <1>1, <1>5, HandlerRests DEF UserAnswersIt, PJInv, PJTypeOK, SharedInv
  <1> QED BY <1>2, <1>3, <1>4, <1>5

LEMMA AskedForKeeps == ASSUME PJInv, AskedFor PROVE PJInv'
  <1>1. NoReads \in Versions /\ \A i \in Inputs : NoReads[i] = Unread
    BY DEF NoReads, Unread, Versions
  <1>2. job' \in ReadingJob /\ job'.at = "reading" /\ job'.judged = NoReads
    BY <1>1 DEF AskedFor, ReadingJob
  <1>3. then' = [asked |-> world, began |-> then.began, answered |-> then.answered]
    BY PJTypes DEF AskedFor
  <1>4. PJTypeOK'
    BY <1>2, <1>3, PJTypes, EpochKeeps DEF AskedFor, PJInv, PJTypeOK, Job
  <1>5. WorldInv'
    BY <1>3, PJTypes DEF AskedFor, PJInv, WorldInv, Versions
  <1>6. SharedInv'
    BY EpochKeeps DEF AskedFor, SharedInv
  <1> QED BY <1>1, <1>2, <1>4, <1>5, <1>6 DEF PJInv, AgainInv, JudgedOnItsOwnPast, PostedOnCurrentPolicy

\* A handler that has left promises nothing any more.
LEMMA LeavingKeeps ==
    ASSUME PJInv, job' \in [at : {"idle", "left", "approved"}], UNCHANGED <<world, barring, shared>>,
           then' \in [asked : Versions, began : Versions, answered : Versions],
           then'.asked = then.asked,
           then'.began \in {then.began, world}, then'.answered \in {then.answered, world}
    PROVE  PJInv'
  <1>1. PJTypeOK'
    BY DEF PJInv, PJTypeOK, Job
  <1>2. WorldInv'
    BY PJTypes DEF PJInv, WorldInv, Versions
  <1>3. SharedInv'
    BY DEF PJInv, SharedInv
  <1> QED BY <1>1, <1>2, <1>3 DEF PJInv, AgainInv, JudgedOnItsOwnPast, PostedOnCurrentPolicy

LEMMA ReadsInputKeeps == ASSUME PJInv, ReadsInput PROVE PJInv'
  <1> USE OrderOfReads
  <1>1. CASE job' = Left
    BY <1>1, LeavingKeeps, PJTypes DEF ReadsInput, Left
  <1>2. CASE job' # Left
    <2> DEFINE i == ReadsFirst[job.k]
               read == IF i \in OfHost /\ Joins(i) THEN shared ELSE Read(i)
    <2>1. job \in ReadingJob /\ job.k \in 1..8 /\ i \in Inputs
      BY PJTypes DEF ReadsInput, ReadingJob
    <2>2. read.version \in Nat /\ read.version >= then.asked[i]
      <3>1. CASE i \in OfHost /\ Joins(i)
        <4>1. shared # NotShared
          BY <3>1 DEF Joins, NotShared, OfHost
        <4> QED BY <3>1, <4>1, PJTypes DEF Joins, SharedRead, PJInv, SharedInv
      <3>2. CASE ~(i \in OfHost /\ Joins(i))
        BY <2>1, <3>2, PJTypes DEF Read, PJInv, WorldInv, Versions
      <3> QED BY <3>1, <3>2
    <2>3. job' = [job EXCEPT !.k = @ + 1, !.judged[i] = read.version]
      BY <1>2 DEF ReadsInput
    <2> HIDE DEF read, i
    <2>4. /\ job' \in ReadingJob /\ job'.at = "reading"
          /\ \A j \in Inputs : job'.judged[j] = IF j = i THEN read.version ELSE job.judged[j]
      <3>1. [job.judged EXCEPT ![i] = read.version] \in Versions
        BY <2>1, <2>2 DEF ReadingJob, Versions
      <3>2. job' = [at |-> "reading", k |-> job.k + 1, judged |-> [job.judged EXCEPT ![i] = read.version]]
        BY <2>1, <2>3 DEF ReadingJob
      <3>3. job.judged \in Versions
        BY <2>1 DEF ReadingJob
      <3> QED BY <2>1, <3>1, <3>2, <3>3 DEF ReadingJob, Versions
    <2>5. JudgedOnItsOwnPast'
      <3>1. \A j \in Inputs : job.judged[j] # Unread => job.judged[j] >= then.asked[j]
        BY <2>1 DEF PJInv, JudgedOnItsOwnPast, ReadingJob
      <3> QED BY <2>2, <2>4, <3>1 DEF ReadsInput, JudgedOnItsOwnPast
    <2> QED BY <2>4, <2>5 DEF ReadsInput, PJInv, PJTypeOK, Job, WorldInv, SharedInv, AgainInv,
                              PostedOnCurrentPolicy
  <1> QED BY <1>1, <1>2

LEMMA TakesSlotKeeps == ASSUME PJInv, TakesSlot PROVE PJInv'
  <1>1. CASE job' = Left
    BY <1>1, LeavingKeeps, PJTypes DEF TakesSlot, Left
  <1>2. CASE job' # Left
    <2>1. job \in ReadingJob /\ job' = [at |-> "judging", judged |-> job.judged]
      BY <1>2, PJTypes DEF TakesSlot
    <2>2. job' \in JudgedJob /\ job'.at = "judging" /\ job'.judged = job.judged
      BY <2>1 DEF ReadingJob, JudgedJob
    <2> QED BY <2>1, <2>2 DEF TakesSlot, PJInv, PJTypeOK, Job, WorldInv, SharedInv, AgainInv,
                              JudgedOnItsOwnPast, PostedOnCurrentPolicy, ReadingJob
  <1> QED BY <1>1, <1>2

\* A reading begins: nothing is read in it yet, and the last one lies before it.
LEMMA ReadingKeeps ==
    ASSUME PJInv, NEW pass \in {1, 2}, NEW first \in Versions,
           job.at \in {"judging", "parked", "again"},
           pass = 2 => \A i \in Inputs : first[i] <= world[i],
           job' = Reading(job.judged, pass, first), ReadingBegins, UNCHANGED <<world, barring, shared>>
    PROVE  PJInv'
  <1>1. job.judged \in Versions
    BY PJTypes DEF JudgedJob, AgainJob
  <1>2. NoReads \in Versions /\ \A i \in Inputs : NoReads[i] = 0
    BY DEF NoReads, Unread, Versions
  <1>3. /\ job' \in AgainJob /\ job'.at = "again" /\ job'.k = 1 /\ job'.pass = pass
        /\ job'.judged = job.judged /\ job'.seen = NoReads /\ job'.first = first
    BY <1>1, <1>2 DEF Reading, AgainJob
  <1>4. then' = [asked |-> then.asked, began |-> world, answered |-> then.answered]
    BY PJTypes DEF ReadingBegins
  <1>5. PJTypeOK'
    BY <1>3, <1>4, PJTypes DEF PJInv, PJTypeOK, Job
  <1>6. WorldInv' /\ SharedInv'
    BY <1>4, PJTypes DEF PJInv, WorldInv, SharedInv, Versions
  <1>7. AgainInv'
    BY <1>2, <1>3, <1>4, PJTypes DEF AgainInv, Versions
  <1>8. JudgedOnItsOwnPast' /\ PostedOnCurrentPolicy'
    BY <1>3, <1>4 DEF PJInv, JudgedOnItsOwnPast, PostedOnCurrentPolicy
  <1> QED BY <1>5, <1>6, <1>7, <1>8 DEF PJInv

LEMMA BeginsKeep == ASSUME PJInv, Verdict \/ Woken PROVE PJInv'
  <1>1. NoReads \in Versions
    BY DEF NoReads, Unread, Versions
  <1>2. CASE job' = Left /\ UNCHANGED then
    BY <1>2, LeavingKeeps, PJTypes DEF Verdict, Woken, Left
  <1>3. CASE job' = Reading(job.judged, 1, NoReads) /\ ReadingBegins
    BY <1>1, <1>3, ReadingKeeps DEF Verdict, Woken
  <1> QED BY <1>2, <1>3 DEF Verdict, Woken

LEMMA ResolvesKeeps == ASSUME PJInv, Resolves PROVE PJInv'
  <1>1. CASE job' = Left
    BY <1>1, LeavingKeeps, PJTypes DEF Resolves, Left
  <1>2. CASE job' # Left
    <2>1. job \in AgainJob /\ job.seen \in Versions
      BY PJTypes DEF Resolves, AgainJob
    <2>2. job' = Reading(job.judged, 2, job.seen) /\ ReadingBegins
      BY <1>2 DEF Resolves
    <2>3. \A i \in Inputs : job.seen[i] <= world[i]
      BY DEF Resolves, PJInv, AgainInv
    <2> QED BY <2>1, <2>2, <2>3, ReadingKeeps DEF Resolves
  <1> QED BY <1>1, <1>2

LEMMA ReadsAgainKeeps == ASSUME PJInv, ReadsInputAgain PROVE PJInv'
  <1> USE OrderOfReads
  <1> DEFINE i == ReadsAgain[job.k]
  <1>1. /\ job \in AgainJob /\ job.k \in 1..7 /\ i = ReadAgain(job.k) /\ i \in Inputs
        /\ job.seen \in Versions /\ job.first \in Versions /\ job.judged \in Versions
    BY PJTypes DEF ReadsInputAgain, AgainJob, ReadAgain
  <1>2. /\ then'.asked = then.asked /\ then'.began = then.began
        /\ then'.answered = IF i \in OfHost THEN world ELSE then.answered
        /\ then' \in [asked : Versions, began : Versions, answered : Versions]
    BY PJTypes DEF ReadsInputAgain
  <1>3. CASE job' = Left
    BY <1>2, <1>3, LeavingKeeps DEF ReadsInputAgain, Left
  <1>4. CASE job' # Left
    <2>1. job' = [job EXCEPT !.k = @ + 1, !.seen[i] = world[i]]
      BY <1>4 DEF ReadsInputAgain
    <2> HIDE DEF i
    <2>2. /\ job' \in AgainJob /\ job'.at = "again" /\ job'.k = job.k + 1 /\ job'.pass = job.pass
          /\ job'.judged = job.judged /\ job'.first = job.first
          /\ \A j \in Inputs : job'.seen[j] = IF j = i THEN world[j] ELSE job.seen[j]
      <3>1. [job.seen EXCEPT ![i] = world[i]] \in Versions
        BY <1>1, PJTypes DEF Versions
      <3>2. job' = [at |-> "again", k |-> job.k + 1, pass |-> job.pass, judged |-> job.judged,
                    seen |-> [job.seen EXCEPT ![i] = world[i]], first |-> job.first]
        BY <1>1, <2>1 DEF AgainJob
      <3>3. job.pass \in {1, 2}
        BY <1>1 DEF AgainJob
      <3> QED BY <1>1, <3>1, <3>2, <3>3 DEF AgainJob, Versions
    <2>3. UNCHANGED <<world, barring, shared>> /\ job.at = "again"
      BY DEF ReadsInputAgain
    <2>4. PJTypeOK'
      BY <1>2, <2>2, <2>3 DEF PJInv, PJTypeOK, Job
    <2>5. WorldInv' /\ SharedInv'
      BY <1>2, <2>3, PJTypes DEF PJInv, WorldInv, SharedInv, Versions
    <2>6. JudgedOnItsOwnPast' /\ PostedOnCurrentPolicy'
      BY <1>2, <2>2, <2>3 DEF PJInv, JudgedOnItsOwnPast, PostedOnCurrentPolicy
    <2>7. AgainInv'
      <3>1. /\ \A j \in Inputs : then.began[j] <= world[j] /\ then.began[j] \in Nat /\ world[j] \in Nat
            /\ \A j \in Inputs : then.answered[j] <= world[j] /\ then.answered[j] \in Nat
            /\ \A j \in Inputs : job.seen[j] <= world[j] /\ job.seen[j] \in Nat
        BY <1>1, <2>3, PJTypes DEF PJInv, WorldInv, AgainInv, Versions
      <3>2. \A j \in Inputs : job'.seen[j] <= world'[j]
        BY <2>2, <2>3, <3>1
      <3>3. job'.pass = 2 => \A j \in Inputs : job'.first[j] <= then'.began[j]
        BY <1>2, <2>2, <2>3 DEF PJInv, AgainInv
      <3>4. ASSUME NEW n \in 1..7, n < job'.k PROVE then'.began[ReadAgain(n)] <= job'.seen[ReadAgain(n)]
        <4>1. CASE n = job.k
          BY <1>1, <1>2, <2>2, <3>1, <4>1
        <4>2. CASE n < job.k
          <5>1. then.began[ReadAgain(n)] <= job.seen[ReadAgain(n)]
            BY <2>3, <4>2 DEF PJInv, AgainInv
          <5>2. ReadAgain(n) # i /\ ReadAgain(n) \in Inputs
            BY <1>1, <4>2
          <5> QED BY <1>2, <2>2, <5>1, <5>2
        <4> QED BY <1>1, <2>2, <3>4, <4>1, <4>2
      <3>5. CASE job.k <= 2
        BY <1>1, <2>2, <3>2, <3>3, <3>4, <3>5 DEF AgainInv
      <3>6. CASE job.k = 3
        <4>1. then'.answered = world
          BY <1>1, <1>2, <3>6
        <4> QED BY <1>1, <1>2, <2>2, <3>1, <3>2, <3>3, <3>4, <3>6, <4>1 DEF AgainInv
      <3>7. CASE job.k > 3
        <4>1. i \in OfFiles /\ then'.answered = then.answered
          BY <1>1, <1>2, <3>7
        <4>2. \A j \in Inputs : then'.began[j] <= then'.answered[j]
          BY <1>2, <2>3, <3>7, <4>1 DEF PJInv, AgainInv
        <4>3. ASSUME NEW n \in 4..7, n < job'.k
              PROVE  then'.answered[ReadAgain(n)] <= job'.seen[ReadAgain(n)]
          <5>0. n \in 1..7
            OBVIOUS
          <5>1. CASE n = job.k
            BY <1>1, <2>2, <3>1, <4>1, <5>1
          <5>2. CASE n < job.k
            <6>1. then.answered[ReadAgain(n)] <= job.seen[ReadAgain(n)]
              BY <2>3, <3>7, <5>2 DEF PJInv, AgainInv
            <6>2. ReadAgain(n) # i /\ ReadAgain(n) \in Inputs
              BY <1>1, <5>0, <5>2
            <6> QED BY <2>2, <4>1, <6>1, <6>2
          <5> QED BY <1>1, <2>2, <4>3, <5>1, <5>2
        <4> QED BY <3>2, <3>3, <3>4, <4>2, <4>3 DEF AgainInv
      <3> QED BY <1>1, <3>5, <3>6, <3>7
    <2> QED BY <2>4, <2>5, <2>6, <2>7 DEF PJInv
  <1> QED BY <1>3, <1>4

\* The two readings agree: what they read was the world when the second began,
\* and for a file when the host last answered.
LEMMA TakesTurnKeeps == ASSUME PJInv, TakesTurn PROVE PJInv'
  <1> USE OrderOfReads
  <1>1. CASE job' = Left
    BY <1>1, LeavingKeeps, PJTypes DEF TakesTurn, Left
  <1>2. CASE job' # Left
    <2>1. /\ job \in AgainJob /\ job.k = 8 /\ job.pass = 2 /\ job.at = "again"
          /\ job.seen \in Versions /\ job.judged \in Versions
      BY PJTypes DEF TakesTurn, AgainJob
    <2>2. /\ job.seen = job.first /\ \A i \in Inputs \ {"catalog"} : job.first[i] = job.judged[i]
          /\ \E at \in {"posted", "parked"} : job' = [at |-> at, judged |-> job.judged]
          /\ UNCHANGED <<world, barring, shared, then>>
      BY <1>2 DEF TakesTurn, Unchanged
    <2>3. job' \in JudgedJob /\ job'.judged = job.judged /\ job'.at \in {"posted", "parked"}
      BY <2>1, <2>2 DEF JudgedJob
    <2>4. ASSUME NEW i \in Inputs \ {"catalog"} PROVE then.began[i] = job.judged[i]
      <3>1. PICK n \in 1..7 : ReadAgain(n) = i
        OBVIOUS
      <3>2. then.began[i] <= job.seen[i] /\ job.first[i] <= then.began[i]
        BY <2>1, <3>1 DEF PJInv, AgainInv
      <3> QED BY <2>1, <2>2, <3>2, PJTypes DEF Versions
    <2>5. ASSUME NEW i \in OfFiles PROVE then.answered[i] = job.judged[i]
      <3>1. PICK n \in 4..7 : ReadAgain(n) = i
        OBVIOUS
      <3>2. then.answered[i] <= job.seen[i] /\ then.began[i] <= then.answered[i]
        BY <2>1, <3>1 DEF PJInv, AgainInv, Inputs
      <3>3. i \in Inputs \ {"catalog"}
        BY DEF Inputs, OfFiles
      <3> QED BY <2>1, <2>2, <2>4, <3>2, <3>3, PJTypes DEF Versions
    <2>6. PostedOnCurrentPolicy'
      BY <2>2, <2>3, <2>4, <2>5 DEF PostedOnCurrentPolicy
    <2>7. JudgedOnItsOwnPast'
      BY <2>1, <2>2, <2>3 DEF PJInv, JudgedOnItsOwnPast
    <2> QED BY <2>2, <2>3, <2>6, <2>7 DEF PJInv, PJTypeOK, Job, WorldInv, SharedInv, AgainInv
  <1> QED BY <1>1, <1>2

LEMMA HostRepliesKeeps == ASSUME PJInv, HostReplies PROVE PJInv'
  BY LeavingKeeps, PJTypes DEF HostReplies, Left

\* No approval is posted on a policy that was no longer the one judged when its
\* last reading began, and none is judged on reads older than the prompt: for
\* any number of edits, at any time, and whatever reads other prompts share.
THEOREM ApprovalIsCurrentHolds == PJSpec => []ApprovalIsCurrent
  <1>1. PJInv /\ [PJNext]_pjVars => PJInv'
    <2> SUFFICES ASSUME PJInv, [PJNext]_pjVars PROVE PJInv'
      OBVIOUS
    <2>1. CASE UNCHANGED pjVars
      BY <2>1, HandlerRests, PJTypes DEF pjVars, PJInv, PJTypeOK, SharedInv
    <2>2. CASE PJNext
      BY <2>2, EditKeeps, SurroundingsKeep, AskedForKeeps, ReadsInputKeeps, TakesSlotKeeps, BeginsKeep,
         ReadsAgainKeeps, ResolvesKeeps, TakesTurnKeeps, HostRepliesKeeps DEF PJNext
    <2> QED BY <2>1, <2>2
  <1>2. PJInv => ApprovalIsCurrent
    BY DEF PJInv, ApprovalIsCurrent
  <1> QED BY PJInitially, <1>1, <1>2, PTL DEF PJSpec

-----------------------------------------------------------------------------
(***************************************************************************)
(* LeftPrompts: types.                                                     *)

Event == [what : {"asked", "replied", "idle"}, of : SUBSET Prompts, by : {"run", "user", "plugin"}]

DenyCasualties == [at : {"casualties"}, target : Prompts, count : Nat, list : SUBSET Prompts]
DenySecond == [at : {"second"}, target : Prompts, count : Nat, casualties : SUBSET Prompts,
               kept : SUBSET Prompts]
DenyCompare == [at : {"compare"}, target : Prompts, count : Nat, casualties : SUBSET Prompts,
                list : SUBSET Prompts, known : SUBSET Prompts, kept : SUBSET Prompts]
DenyPosted == [at : {"posted"}, target : Prompts, casualties : SUBSET Prompts,
               known : SUBSET Prompts, kept : SUBSET Prompts]
DenyAnswer == [at : {"answer"}, target : Prompts, casualties : SUBSET Prompts, accepted : BOOLEAN]
Denies == {Rest} \cup DenyCasualties \cup DenySecond \cup DenyCompare \cup DenyPosted \cup DenyAnswer

SweepLooks == [at : {"calls", "second"}, attempt : 0..Retries, count : Nat, mine : SUBSET Prompts]
SweepCompare == [at : {"compare"}, attempt : 0..Retries, count : Nat, mine : SUBSET Prompts,
                 list : SUBSET Prompts, known : SUBSET Prompts]
SweepPosted == [at : {"posted"}, attempt : 0..Retries, known : SUBSET Prompts, target : Prompts]
Sweeps == {Rest} \cup SweepLooks \cup SweepCompare \cup SweepPosted

TurnType == [of : Plans, no : Nat, busy : BOOLEAN, asked : SUBSET Prompts,
             pending : SUBSET Prompts, ended : SUBSET Prompts]
ToldType == [open : SUBSET Prompts, count : Nat, answered : SUBSET Prompts, managed : SUBSET Prompts]
TimersType == [armed : SUBSET Prompts, shown : SUBSET Prompts, interrupted : SUBSET Prompts]
OrphanedType == [swept : BOOLEAN, countdowns : SUBSET Prompts]

LPTypeOK ==
    /\ turn \in TurnType /\ inbox \in Seq(Event)
    /\ told \in ToldType /\ enabled \in BOOLEAN
    /\ timers \in TimersType /\ due \in Seq(Prompts) /\ deny \in Denies
    /\ denies \in Nat /\ away \in Nat
    /\ ours \in SUBSET Prompts /\ mistaken \in SUBSET Prompts
    /\ ladder \in (0..Retries) \cup {NoAttempt} /\ sweeps \in Seq(0..Retries) /\ sweep \in Sweeps
    /\ harmed \in SUBSET Prompts /\ orphaned \in OrphanedType

(***************************************************************************)
(* The inductive invariant, part by part.                                  *)

Speaks(what, n) == n \in 1..Len(inbox) /\ inbox[n].what = what

\* What is known of a prompt was asked for; what is said to be answered is no
\* longer pending.
AskedInv ==
    /\ turn.pending \subseteq turn.asked
    /\ told.managed \subseteq turn.asked
    /\ timers.armed \subseteq turn.asked /\ timers.shown \subseteq turn.asked
    /\ \A n \in 1..Len(due) : due[n] \in turn.asked
    /\ told.answered \subseteq turn.asked \ turn.pending

\* A prompt is replied to once; the inbox tells of replies still unheard.
InboxInv ==
    /\ \A n \in 1..Len(inbox) :
          /\ inbox[n].of \subseteq turn.asked
          /\ inbox[n].by = "plugin" => inbox[n].what = "replied"
          /\ inbox[n].what = "replied" =>
                inbox[n].of \cap turn.pending = {} /\ inbox[n].of \cap told.answered = {}
    /\ \A n, m \in 1..Len(inbox) :
          inbox[n].what = "replied" /\ inbox[m].what = "replied" /\ n # m
            => inbox[n].of \cap inbox[m].of = {}

\* A turn that is over is told of after all it asked.
EndIsTold ==
    ~turn.busy => \A n \in 1..Len(inbox) : inbox[n].what = "asked" =>
                     \E m \in 1..Len(inbox) : m > n /\ inbox[m].what = "idle"

Vouched(d) == \A q \in d.casualties : TurnOf(q) = TurnOf(d.target) /\ q \notin d.kept

DenyInv ==
    /\ deny # Rest => deny.target \in turn.asked
    /\ deny.at = "casualties" => (deny.target \in turn.pending => deny.target \in deny.list)
    /\ deny.at \in {"second", "compare", "posted"} => Vouched(deny)
    /\ deny.at = "compare" => /\ turn.pending \cap deny.known \subseteq deny.list
                              /\ deny.known \subseteq turn.asked /\ deny.target \in deny.known
    /\ deny.at = "posted" => /\ turn.pending \cap deny.known \subseteq deny.casualties
                             /\ deny.known \subseteq turn.asked
                             /\ turn.pending \cap deny.known \subseteq ours \cup mistaken
    /\ deny.at = "answer" => deny.target \notin turn.pending

BudgetInv ==
    /\ denies <= DenyLimit
    /\ deny # Rest => denies < DenyLimit
    /\ away <= denies + (IF deny.at = "answer" /\ deny.accepted THEN 1 ELSE 0)

SweepInv ==
    /\ sweep.at \in {"second", "compare"} => sweep.mine \subseteq turn.ended
    /\ sweep.at = "compare" => /\ turn.pending \cap sweep.known \subseteq sweep.list
                               /\ sweep.known \subseteq turn.asked
    /\ sweep.at = "posted" => /\ turn.pending \cap sweep.known \subseteq turn.ended
                              /\ turn.pending \cap sweep.known \subseteq ours \cup mistaken
                              /\ sweep.known \subseteq turn.asked

\* The session has settled, as far as the plugin has heard, over prompts.
Quiet ==
    /\ ~turn.busy /\ \A n \in 1..Len(inbox) : inbox[n].what # "idle"
    /\ turn.pending \cap told.open # {} /\ ~orphaned.swept
Waits == ladder # NoAttempt \/ sweeps # <<>>

StaleInv ==
    Quiet =>
        /\ Waits \/ sweep # Rest
        /\ sweep.at \in {"calls", "second", "compare"} =>
              Waits \/ (turn.pending \subseteq sweep.mine /\ sweep.count = told.count)
        /\ sweep.at = "compare" =>
              Waits \/ (sweep.list \subseteq sweep.mine /\ turn.pending \subseteq sweep.list)

LPInv ==
    /\ LPTypeOK /\ AskedInv /\ InboxInv /\ EndIsTold /\ DenyInv /\ BudgetInv /\ SweepInv /\ StaleInv
    /\ CascadesAreOurs /\ OwnRepliesAreKnown /\ CountdownsAreTrue

\* What an event of the host or a step of the plugin may do to what a deny or
\* a sweep has looked at: prompts are only added, calls stay ended, and a
\* pending prompt's reply stays known.
Moves ==
    /\ turn'.of = turn.of /\ turn.asked \subseteq turn'.asked /\ turn.ended \subseteq turn'.ended
    /\ turn'.pending \subseteq turn.pending \cup (turn'.asked \ turn.asked)
    /\ (ours \cup mistaken) \cap turn'.pending \subseteq ours' \cup mistaken'

LEMMA LPTypes ==
    ASSUME LPTypeOK
    PROVE  /\ turn = [of |-> turn.of, no |-> turn.no, busy |-> turn.busy, asked |-> turn.asked,
                      pending |-> turn.pending, ended |-> turn.ended]
           /\ turn.busy \in BOOLEAN /\ turn.asked \in SUBSET Prompts
           /\ turn.pending \in SUBSET Prompts /\ turn.ended \in SUBSET Prompts
           /\ told = [open |-> told.open, count |-> told.count, answered |-> told.answered,
                      managed |-> told.managed]
           /\ told.open \in SUBSET Prompts /\ told.answered \in SUBSET Prompts
           /\ told.managed \in SUBSET Prompts /\ told.count \in Nat
           /\ timers = [armed |-> timers.armed, shown |-> timers.shown,
                        interrupted |-> timers.interrupted]
           /\ timers.armed \in SUBSET Prompts /\ timers.shown \in SUBSET Prompts
           /\ timers.interrupted \in SUBSET Prompts
           /\ orphaned = [swept |-> orphaned.swept, countdowns |-> orphaned.countdowns]
           /\ orphaned.swept \in BOOLEAN /\ orphaned.countdowns \in SUBSET Prompts
  BY DEF LPTypeOK, TurnType, ToldType, TimersType, OrphanedType

LEMMA DenyTypes ==
    ASSUME LPTypeOK
    PROVE  /\ deny.at \in {"rest", "casualties", "second", "compare", "posted", "answer"}
           /\ deny.at = "rest" <=> deny = Rest
           /\ deny.at = "casualties" => deny \in DenyCasualties
           /\ deny.at = "second" => deny \in DenySecond
           /\ deny.at = "compare" => deny \in DenyCompare
           /\ deny.at = "posted" => deny \in DenyPosted
           /\ deny.at = "answer" => deny \in DenyAnswer
           /\ deny # Rest => deny.target \in Prompts
  BY DEF LPTypeOK, Denies, Rest, DenyCasualties, DenySecond, DenyCompare, DenyPosted, DenyAnswer

LEMMA SweepTypes ==
    ASSUME LPTypeOK
    PROVE  /\ sweep.at \in {"rest", "calls", "second", "compare", "posted"}
           /\ sweep.at = "rest" <=> sweep = Rest
           /\ sweep.at \in {"calls", "second"} => sweep \in SweepLooks
           /\ sweep.at = "compare" => sweep \in SweepCompare
           /\ sweep.at = "posted" => sweep \in SweepPosted
           /\ sweep # Rest => sweep.attempt \in 0..Retries
  BY DEF LPTypeOK, Sweeps, Rest, SweepLooks, SweepCompare, SweepPosted

\* What stays when a deny, a sweep, the budget... is left alone.
LEMMA DenyStays == ASSUME LPInv, Moves, UNCHANGED deny PROVE DenyInv'
  <1>1. turn.pending \subseteq turn.asked
    BY DEF LPInv, AskedInv
  <1>2. deny # Rest => deny'.target \in turn'.asked
    BY DEF LPInv, DenyInv, Moves
  <1>3. deny.at = "casualties" => (deny.target \in turn'.pending => deny.target \in deny.list)
    BY <1>1, DenyTypes DEF LPInv, DenyInv, Moves, Rest
  <1>4. deny.at \in {"second", "compare", "posted"} => Vouched(deny)'
    BY DEF LPInv, DenyInv, Moves, Vouched, TurnOf
  <1>5. deny.at = "compare" => /\ turn'.pending \cap deny.known \subseteq deny.list
                               /\ deny.known \subseteq turn'.asked /\ deny.target \in deny.known
    BY DEF LPInv, DenyInv, Moves
  <1>6. deny.at = "posted" => /\ turn'.pending \cap deny.known \subseteq deny.casualties
                              /\ deny.known \subseteq turn'.asked
                              /\ turn'.pending \cap deny.known \subseteq ours' \cup mistaken'
    BY DEF LPInv, DenyInv, Moves
  <1>7. deny.at = "answer" => deny.target \notin turn'.pending
    BY <1>1, DenyTypes DEF LPInv, DenyInv, Moves, Rest
  <1> QED BY <1>2, <1>3, <1>4, <1>5, <1>6, <1>7 DEF DenyInv

LEMMA SweepStays == ASSUME LPInv, Moves, UNCHANGED sweep PROVE SweepInv'
  <1>1. turn.pending \subseteq turn.asked
    BY DEF LPInv, AskedInv
  <1> QED BY <1>1 DEF LPInv, SweepInv, Moves

LEMMA BudgetStays ==
    ASSUME LPInv, UNCHANGED <<deny, denies, away>>
    PROVE  BudgetInv'
  BY DEF LPInv, BudgetInv

LEMMA StaleStays ==
    ASSUME LPInv, UNCHANGED sweep, Waits => Waits',
           Quiet' => Quiet /\ turn'.pending \subseteq turn.pending /\ told'.count = told.count
    PROVE  StaleInv'
  BY DEF LPInv, StaleInv

LEMMA NotStale == ASSUME ~Quiet' \/ Waits' PROVE StaleInv'
  BY DEF StaleInv

LEMMA InboxStays ==
    ASSUME LPInv, UNCHANGED <<turn, inbox>>, told'.answered = told.answered,
           ours \cup mistaken \subseteq ours' \cup mistaken'
    PROVE  InboxInv' /\ EndIsTold' /\ OwnRepliesAreKnown'
  <1>1. InboxInv' /\ EndIsTold'
    BY DEF LPInv, InboxInv, EndIsTold
  <1>2. OwnRepliesAreKnown'
    BY DEF LPInv, OwnRepliesAreKnown
  <1> QED BY <1>1, <1>2

LEMMA CountdownsStay ==
    ASSUME LPInv, UNCHANGED <<due, deny>>,
           turn'.pending \cap timers'.shown \subseteq turn.pending \cap timers.shown,
           orphaned.countdowns \subseteq orphaned'.countdowns,
           timers.armed \cap turn'.pending \subseteq timers'.armed
    PROVE  CountdownsAreTrue'
  BY DEF LPInv, CountdownsAreTrue

\* The prompts whose deadline has fired.
LEMMA DueFacts ==
    ASSUME LPTypeOK
    PROVE  /\ \A p : p \in ToSet(due) <=> \E n \in 1..Len(due) : due[n] = p
           /\ due # <<>> => /\ Len(due) >= 1 /\ Head(due) = due[1] /\ Head(due) \in Prompts
                            /\ Tail(due) \in Seq(Prompts) /\ Len(Tail(due)) = Len(due) - 1
                            /\ \A n \in 1..Len(Tail(due)) : Tail(due)[n] = due[n + 1]
                            /\ \A p \in ToSet(due) : p = Head(due) \/ p \in ToSet(Tail(due))
  <1>1. due \in Seq(Prompts) /\ DOMAIN due = 1..Len(due)
    BY DEF LPTypeOK
  <1>2. \A p : p \in ToSet(due) <=> \E n \in 1..Len(due) : due[n] = p
    BY <1>1 DEF ToSet
  <1>3. ASSUME due # <<>>
        PROVE  /\ Len(due) >= 1 /\ Head(due) = due[1] /\ Head(due) \in Prompts
               /\ Tail(due) \in Seq(Prompts) /\ Len(Tail(due)) = Len(due) - 1
               /\ \A n \in 1..Len(Tail(due)) : Tail(due)[n] = due[n + 1]
               /\ \A p \in ToSet(due) : p = Head(due) \/ p \in ToSet(Tail(due))
    <2>1. /\ Len(due) \in Nat /\ Len(due) >= 1 /\ Head(due) = due[1] /\ Head(due) \in Prompts
          /\ Tail(due) \in Seq(Prompts) /\ Len(Tail(due)) = Len(due) - 1
          /\ \A n \in 1..Len(Tail(due)) : Tail(due)[n] = due[n + 1]
      BY <1>1, <1>3, EmptySeq, HeadTailProperties, SMTT(20)
    <2>2. ASSUME NEW p \in ToSet(due), p # Head(due) PROVE p \in ToSet(Tail(due))
      <3>1. PICK n \in 1..Len(due) : due[n] = p
        BY <1>2
      <3>2. n # 1 /\ n - 1 \in 1..Len(Tail(due)) /\ Tail(due)[n - 1] = p
        BY <2>1, <2>2, <3>1
      <3>3. DOMAIN Tail(due) = 1..Len(Tail(due))
        BY <2>1
      <3> QED BY <3>2, <3>3 DEF ToSet
    <2> QED BY <2>1, <2>2
  <1> QED BY <1>2, <1>3

LEMMA InboxHead ==
    ASSUME LPTypeOK, inbox # <<>>
    PROVE  /\ Len(inbox) \in Nat /\ Len(inbox) >= 1 /\ 1 \in 1..Len(inbox)
           /\ Head(inbox) = inbox[1] /\ Head(inbox) \in Event
           /\ Tail(inbox) \in Seq(Event) /\ Len(Tail(inbox)) = Len(inbox) - 1
           /\ \A n \in 1..Len(Tail(inbox)) : n + 1 \in 1..Len(inbox) /\ Tail(inbox)[n] = inbox[n + 1]
  <1>1. inbox \in Seq(Event)
    BY DEF LPTypeOK
  <1>2. Len(inbox) \in Nat /\ Len(inbox) >= 1 /\ 1 \in 1..Len(inbox)
    BY <1>1, EmptySeq
  <1>3. /\ Head(inbox) = inbox[1] /\ Head(inbox) \in Event
        /\ Tail(inbox) \in Seq(Event) /\ Len(Tail(inbox)) = Len(inbox) - 1
        /\ \A n \in 1..Len(Tail(inbox)) : Tail(inbox)[n] = inbox[n + 1]
    BY <1>1, HeadTailProperties
  <1>4. \A n \in 1..Len(Tail(inbox)) : n + 1 \in 1..Len(inbox)
    BY <1>2, <1>3
  <1> QED BY <1>2, <1>3, <1>4

\* Hearing the first event leaves what the others tell.
LEMMA HeardStays ==
    ASSUME LPInv, inbox # <<>>, inbox' = Tail(inbox), UNCHANGED turn,
           told'.answered = told.answered, UNCHANGED <<ours, mistaken>>
    PROVE  InboxInv' /\ EndIsTold' /\ OwnRepliesAreKnown'
  <1> LPTypeOK
    BY DEF LPInv
  <1> USE InboxHead
  <1>1. \A n \in 1..Len(inbox') : n + 1 \in 1..Len(inbox) /\ inbox'[n] = inbox[n + 1]
    OBVIOUS
  <1>2. InboxInv'
    BY <1>1 DEF LPInv, InboxInv
  <1>3. EndIsTold'
    <2> SUFFICES ASSUME ~turn.busy, NEW n \in 1..Len(inbox'), inbox'[n].what = "asked"
                 PROVE  \E m \in 1..Len(inbox') : m > n /\ inbox'[m].what = "idle"
      BY DEF EndIsTold
    <2>1. PICK m \in 1..Len(inbox) : m > n + 1 /\ inbox[m].what = "idle"
      BY <1>1 DEF LPInv, EndIsTold
    <2>2. m - 1 \in 1..Len(inbox') /\ m - 1 > n /\ inbox'[m - 1] = inbox[m]
      BY <2>1
    <2> QED BY <2>1, <2>2
  <1>4. OwnRepliesAreKnown'
    <2>1. DOMAIN inbox' = 1..Len(inbox') /\ DOMAIN inbox = 1..Len(inbox)
      BY DEF LPTypeOK
    <2> QED BY <1>1, <2>1 DEF LPInv, OwnRepliesAreKnown
  <1> QED BY <1>2, <1>3, <1>4

\* An event is appended to the inbox.
LEMMA PublishedFacts ==
    ASSUME LPTypeOK, NEW e \in Event, inbox' = Append(inbox, e)
    PROVE  /\ inbox' \in Seq(Event) /\ Len(inbox) \in Nat /\ Len(inbox') = Len(inbox) + 1
           /\ \A n \in 1..Len(inbox) : n \in 1..Len(inbox') /\ inbox'[n] = inbox[n]
           /\ inbox'[Len(inbox) + 1] = e
           /\ \A n \in 1..Len(inbox') : n \in 1..Len(inbox) \/ n = Len(inbox) + 1
  <1>1. inbox \in Seq(Event) /\ Len(inbox) \in Nat
    BY DEF LPTypeOK
  <1>2. /\ inbox' \in Seq(Event) /\ Len(inbox') = Len(inbox) + 1
        /\ \A n \in 1..Len(inbox) : inbox'[n] = inbox[n]
        /\ inbox'[Len(inbox) + 1] = e
    BY <1>1, AppendProperties
  <1> QED BY <1>1, <1>2

\* What a reply for some of the host's pending prompts leaves behind.
Takes(taken, by) ==
    /\ turn' \in TurnType /\ turn'.of = turn.of /\ turn'.busy = turn.busy
    /\ turn'.asked = turn.asked /\ turn'.pending = turn.pending \ taken
    /\ turn'.ended = turn.ended \cup taken
    /\ inbox' \in Seq(Event)
    /\ \A n \in 1..Len(inbox) : n \in 1..Len(inbox') /\ inbox'[n] = inbox[n]
    /\ \A n \in 1..Len(inbox') : n \in 1..Len(inbox) \/
          (n = Len(inbox) + 1 /\ inbox'[n] = [what |-> "replied", of |-> taken, by |-> by])
    /\ Len(inbox) \in Nat

LEMMA RejectedFacts ==
    ASSUME LPTypeOK, NEW taken \in SUBSET turn.pending, NEW by \in {"user", "plugin"}, Rejected(taken, by)
    PROVE  Takes(taken, by)
  <1>1. turn' = [of |-> turn.of, no |-> turn.no, busy |-> turn.busy, asked |-> turn.asked,
                 pending |-> turn.pending \ taken, ended |-> turn.ended \cup taken]
    BY LPTypes DEF Rejected
  <1>2. turn.of \in Plans /\ turn.no \in Nat
    BY DEF LPTypeOK, TurnType
  <1>3. turn' \in TurnType
    BY <1>1, <1>2, LPTypes DEF TurnType
  <1>4. inbox \in Seq(Event) /\ Len(inbox) \in Nat
    BY DEF LPTypeOK
  <1>5. CASE taken = {}
    BY <1>1, <1>3, <1>4, <1>5 DEF Rejected, Takes
  <1>6. CASE taken # {}
    <2> DEFINE e == [what |-> "replied", of |-> taken, by |-> by]
    <2>1. e \in Event /\ inbox' = Append(inbox, e)
      BY <1>6, LPTypes DEF Rejected, Event
    <2> HIDE DEF e
    <2>2. /\ inbox' \in Seq(Event)
          /\ \A n \in 1..Len(inbox) : n \in 1..Len(inbox') /\ inbox'[n] = inbox[n]
          /\ \A n \in 1..Len(inbox') : n \in 1..Len(inbox) \/ (n = Len(inbox) + 1 /\ inbox'[n] = e)
      BY <2>1, PublishedFacts
    <2> QED BY <1>1, <1>3, <1>4, <2>2 DEF e, Takes
  <1> QED BY <1>5, <1>6

LEMMA RejectedKeeps ==
    ASSUME LPInv, NEW taken \in SUBSET turn.pending, NEW by \in {"user", "plugin"}, Rejected(taken, by),
           told'.answered = told.answered, told'.managed \subseteq told.managed, told'.open = told.open,
           UNCHANGED due, timers'.armed = timers.armed, timers'.shown \subseteq timers.shown,
           ours \cup mistaken \subseteq ours' \cup mistaken',
           by = "plugin" => taken \subseteq ours' \cup mistaken'
    PROVE  /\ AskedInv' /\ InboxInv' /\ EndIsTold' /\ OwnRepliesAreKnown' /\ Moves
           /\ Quiet' /\ ~orphaned.swept => Quiet /\ turn'.pending \subseteq turn.pending
  <1> LPTypeOK
    BY DEF LPInv
  <1>0. Takes(taken, by)
    BY RejectedFacts
  <1>1. AskedInv'
    BY <1>0 DEF Takes, LPInv, AskedInv
  <1>2. InboxInv'
    <2>1. \A n \in 1..Len(inbox') :
             /\ inbox'[n].of \subseteq turn'.asked
             /\ inbox'[n].by = "plugin" => inbox'[n].what = "replied"
             /\ inbox'[n].what = "replied" =>
                   inbox'[n].of \cap turn'.pending = {} /\ inbox'[n].of \cap told'.answered = {}
      BY <1>0 DEF Takes, LPInv, InboxInv, AskedInv
    <2>2. \A n \in 1..Len(inbox) : inbox[n].what = "replied" => inbox[n].of \cap taken = {}
      BY <1>0 DEF Takes, LPInv, InboxInv
    <2>3. \A n, m \in 1..Len(inbox') :
             inbox'[n].what = "replied" /\ inbox'[m].what = "replied" /\ n # m
               => inbox'[n].of \cap inbox'[m].of = {}
      BY <1>0, <2>2 DEF Takes, LPInv, InboxInv
    <2> QED BY <2>1, <2>3 DEF InboxInv
  <1>3. EndIsTold'
    <2> SUFFICES ASSUME ~turn.busy, NEW n \in 1..Len(inbox'), inbox'[n].what = "asked"
                 PROVE  \E m \in 1..Len(inbox') : m > n /\ inbox'[m].what = "idle"
      BY <1>0 DEF Takes, EndIsTold
    <2>1. n \in 1..Len(inbox) /\ inbox[n].what = "asked"
      BY <1>0 DEF Takes
    <2>2. PICK m \in 1..Len(inbox) : m > n /\ inbox[m].what = "idle"
      BY <2>1 DEF LPInv, EndIsTold
    <2> QED BY <1>0, <2>2 DEF Takes
  <1>4. OwnRepliesAreKnown'
    <2>1. DOMAIN inbox' = 1..Len(inbox') /\ DOMAIN inbox = 1..Len(inbox)
      BY <1>0 DEF Takes, LPTypeOK
    <2> QED BY <1>0, <2>1 DEF Takes, LPInv, OwnRepliesAreKnown
  <1>5. Moves
    BY <1>0 DEF Takes, Moves
  <1>6. ASSUME Quiet', ~orphaned.swept PROVE Quiet /\ turn'.pending \subseteq turn.pending
    BY <1>0, <1>6 DEF Takes, Quiet
  <1> QED BY <1>1, <1>2, <1>3, <1>4, <1>5, <1>6

LEMMA AskedStays ==
    ASSUME LPInv, UNCHANGED <<turn, due>>, told'.answered = told.answered,
           told'.managed \subseteq told.managed, timers'.armed \subseteq timers.armed \cup told.managed,
           timers'.shown \subseteq timers.shown \cup told.managed
    PROVE  AskedInv'
  BY DEF LPInv, AskedInv

LEMMA LedgerMoves ==
    ASSUME UNCHANGED turn, ours \cup mistaken \subseteq ours' \cup mistaken'
    PROVE  Moves
  BY DEF Moves

-----------------------------------------------------------------------------
(* The host's steps.                                                       *)

LEMMA NewTurnKeeps == ASSUME LPInv, NewTurn PROVE LPInv'
  <1> USE DEF NewTurn
  <1> LPTypeOK
    BY DEF LPInv
  <1>1. /\ turn' = [of |-> turn.of, no |-> turn.no + 1, busy |-> TRUE, asked |-> turn.asked,
                    pending |-> turn.pending, ended |-> turn.ended]
        /\ turn.of \in Plans /\ turn.no \in Nat
    BY LPTypes DEF LPTypeOK, TurnType
  <1>2. LPTypeOK'
    <2>0. /\ turn.asked \in SUBSET Prompts /\ turn.pending \in SUBSET Prompts
          /\ turn.ended \in SUBSET Prompts /\ TRUE \in BOOLEAN /\ turn.no + 1 \in Nat
      BY <1>1, LPTypes
    <2>1. turn' \in TurnType
      BY <1>1, <2>0 DEF TurnType
    <2> QED BY <2>1 DEF LPTypeOK, denySide, ledger, sweepSide
  <1>3. Moves
    BY <1>1 DEF Moves, ledger
  <1>4. AskedInv' /\ InboxInv' /\ EndIsTold'
    BY <1>1 DEF LPInv, AskedInv, InboxInv, EndIsTold, denySide
  <1>5. DenyInv' /\ SweepInv' /\ BudgetInv' /\ StaleInv'
    BY <1>1, <1>3, DenyStays, SweepStays, BudgetStays, NotStale DEF denySide, sweepSide, Quiet
  <1>6. CascadesAreOurs' /\ OwnRepliesAreKnown' /\ CountdownsAreTrue'
    BY <1>1 DEF LPInv, CascadesAreOurs, OwnRepliesAreKnown, CountdownsAreTrue, denySide, ledger
  <1> QED BY <1>2, <1>4, <1>5, <1>6 DEF LPInv

LEMMA AskKeeps == ASSUME LPInv, NEW p \in Prompts, Ask(p) PROVE LPInv'
  <1> USE DEF Ask
  <1> LPTypeOK
    BY DEF LPInv
  <1> DEFINE e == [what |-> "asked", of |-> {p}, by |-> "run"]
  <1>1. /\ turn' = [of |-> turn.of, no |-> turn.no, busy |-> turn.busy, asked |-> turn.asked \cup {p},
                    pending |-> turn.pending \cup {p}, ended |-> turn.ended]
        /\ turn.of \in Plans /\ turn.no \in Nat
    BY LPTypes DEF LPTypeOK, TurnType
  <1>2. /\ inbox' \in Seq(Event) /\ Len(inbox) \in Nat
        /\ \A n \in 1..Len(inbox) : n \in 1..Len(inbox') /\ inbox'[n] = inbox[n]
        /\ \A n \in 1..Len(inbox') : n \in 1..Len(inbox) \/ (n = Len(inbox) + 1 /\ inbox'[n] = e)
    <2>1. e \in Event
      BY DEF Event
    <2>2. inbox' = Append(inbox, e)
      OBVIOUS
    <2> HIDE DEF e
    <2> QED BY <2>1, <2>2, PublishedFacts
  <1>3. LPTypeOK'
    <2>0. /\ turn.asked \in SUBSET Prompts /\ turn.pending \in SUBSET Prompts
          /\ turn.ended \in SUBSET Prompts /\ turn.busy \in BOOLEAN
      BY LPTypes
    <2>1. turn' \in TurnType
      BY <1>1, <2>0 DEF TurnType
    <2> QED BY <1>2, <2>1 DEF LPTypeOK, denySide, ledger, sweepSide
  <1>4. Moves /\ turn.busy /\ p \notin turn.asked /\ turn'.busy
    BY <1>1 DEF Moves, ledger
  <1>5. AskedInv'
    BY <1>1, <1>4 DEF LPInv, AskedInv, denySide
  <1>6. InboxInv'
    <2>1. \A n \in 1..Len(inbox) : p \notin inbox[n].of
      BY <1>4 DEF LPInv, InboxInv
    <2>2. \A n \in 1..Len(inbox') :
             /\ inbox'[n].of \subseteq turn'.asked
             /\ inbox'[n].by = "plugin" => inbox'[n].what = "replied"
             /\ inbox'[n].what = "replied" =>
                   inbox'[n].of \cap turn'.pending = {} /\ inbox'[n].of \cap told'.answered = {}
      BY <1>1, <1>2, <2>1 DEF LPInv, InboxInv
    <2>3. \A n, m \in 1..Len(inbox') :
             inbox'[n].what = "replied" /\ inbox'[m].what = "replied" /\ n # m
               => inbox'[n].of \cap inbox'[m].of = {}
      BY <1>2 DEF LPInv, InboxInv
    <2> QED BY <2>2, <2>3 DEF InboxInv
  <1>7. DenyInv' /\ SweepInv' /\ BudgetInv' /\ StaleInv' /\ EndIsTold'
    BY <1>4, DenyStays, SweepStays, BudgetStays, NotStale DEF denySide, sweepSide, Quiet, EndIsTold
  <1>8. OwnRepliesAreKnown'
    <2>1. DOMAIN inbox' = 1..Len(inbox') /\ DOMAIN inbox = 1..Len(inbox)
      BY <1>2 DEF LPTypeOK
    <2> QED BY <1>2, <2>1 DEF LPInv, OwnRepliesAreKnown, ledger
  <1>9. CountdownsAreTrue'
    <2>1. p \notin timers.shown
      BY <1>4 DEF LPInv, AskedInv
    <2> QED BY <1>1, <2>1 DEF LPInv, CountdownsAreTrue, denySide
  <1> QED BY <1>3, <1>5, <1>6, <1>7, <1>8, <1>9 DEF LPInv, CascadesAreOurs

LEMMA RunEndsKeeps == ASSUME LPInv, RunEnds PROVE LPInv'
  <1> USE DEF RunEnds
  <1> LPTypeOK
    BY DEF LPInv
  <1> DEFINE e == [what |-> "idle", of |-> {}, by |-> "run"]
  <1>1. /\ turn' = [of |-> turn.of, no |-> turn.no, busy |-> FALSE, asked |-> turn.asked,
                    pending |-> turn.pending, ended |-> turn.ended]
        /\ turn.of \in Plans /\ turn.no \in Nat
    BY LPTypes DEF LPTypeOK, TurnType
  <1>2. /\ inbox' \in Seq(Event) /\ Len(inbox) \in Nat /\ Len(inbox') = Len(inbox) + 1
        /\ \A n \in 1..Len(inbox) : n \in 1..Len(inbox') /\ inbox'[n] = inbox[n]
        /\ \A n \in 1..Len(inbox') : n \in 1..Len(inbox) \/ (n = Len(inbox) + 1 /\ inbox'[n] = e)
        /\ inbox'[Len(inbox) + 1] = e
    <2>1. e \in Event
      BY DEF Event
    <2>2. inbox' = Append(inbox, e)
      OBVIOUS
    <2> HIDE DEF e
    <2> QED BY <2>1, <2>2, PublishedFacts
  <1>3. LPTypeOK'
    <2>0. /\ turn.asked \in SUBSET Prompts /\ turn.pending \in SUBSET Prompts
          /\ turn.ended \in SUBSET Prompts /\ turn.busy \in BOOLEAN
      BY LPTypes
    <2>1. turn' \in TurnType
      BY <1>1, <2>0 DEF TurnType
    <2> QED BY <1>2, <2>1 DEF LPTypeOK, denySide, ledger, sweepSide
  <1>4. Moves
    BY <1>1 DEF Moves, ledger
  <1>5. AskedInv'
    BY <1>1 DEF LPInv, AskedInv, denySide
  <1>6. InboxInv'
    BY <1>1, <1>2 DEF LPInv, InboxInv
  <1>7. EndIsTold' /\ ~Quiet'
    <2>1. Len(inbox) + 1 \in 1..Len(inbox')
      BY <1>2
    <2>2. inbox'[Len(inbox) + 1].what = "idle"
      BY <1>2
    <2>3. \A n \in 1..Len(inbox') : inbox'[n].what = "asked" => n < Len(inbox) + 1
      BY <1>2
    <2> QED BY <2>1, <2>2, <2>3 DEF EndIsTold, Quiet
  <1>8. DenyInv' /\ SweepInv' /\ BudgetInv' /\ StaleInv'
    BY <1>4, <1>7, DenyStays, SweepStays, BudgetStays, NotStale DEF denySide, sweepSide
  <1>9. OwnRepliesAreKnown'
    <2>1. DOMAIN inbox' = 1..Len(inbox') /\ DOMAIN inbox = 1..Len(inbox)
      BY <1>2 DEF LPTypeOK
    <2> QED BY <1>2, <2>1 DEF LPInv, OwnRepliesAreKnown, ledger
  <1>10. CountdownsAreTrue' /\ CascadesAreOurs'
    BY <1>1 DEF LPInv, CountdownsAreTrue, CascadesAreOurs, denySide
  <1> QED BY <1>3, <1>5, <1>6, <1>7, <1>8, <1>9, <1>10 DEF LPInv

LEMMA CallsSettleKeeps == ASSUME LPInv, CallsSettle PROVE LPInv'
  <1> USE DEF CallsSettle
  <1> LPTypeOK
    BY DEF LPInv
  <1>1. /\ turn' = [of |-> turn.of, no |-> turn.no, busy |-> turn.busy, asked |-> turn.asked,
                    pending |-> turn.pending, ended |-> turn.ended \cup turn.asked]
        /\ turn.of \in Plans /\ turn.no \in Nat
    BY LPTypes DEF LPTypeOK, TurnType
  <1>2. LPTypeOK'
    <2>0. /\ turn.asked \in SUBSET Prompts /\ turn.pending \in SUBSET Prompts
          /\ turn.ended \in SUBSET Prompts /\ turn.busy \in BOOLEAN
      BY LPTypes
    <2>1. turn' \in TurnType
      BY <1>1, <2>0 DEF TurnType
    <2> QED BY <2>1 DEF LPTypeOK, denySide, ledger, sweepSide
  <1>3. Moves
    BY <1>1 DEF Moves, ledger
  <1>4. AskedInv' /\ InboxInv' /\ EndIsTold'
    BY <1>1 DEF LPInv, AskedInv, InboxInv, EndIsTold, denySide
  <1>5. Quiet' => Quiet
    BY <1>1 DEF Quiet
  <1>6. DenyInv' /\ SweepInv' /\ BudgetInv' /\ StaleInv'
    BY <1>1, <1>3, <1>5, DenyStays, SweepStays, BudgetStays, StaleStays DEF denySide, sweepSide, Waits
  <1>7. CascadesAreOurs' /\ OwnRepliesAreKnown' /\ CountdownsAreTrue'
    BY <1>1 DEF LPInv, CascadesAreOurs, OwnRepliesAreKnown, CountdownsAreTrue, denySide, ledger
  <1> QED BY <1>2, <1>4, <1>6, <1>7 DEF LPInv

LEMMA AnsweredByUserKeeps == ASSUME LPInv, NEW p \in Prompts, AnsweredByUser(p) PROVE LPInv'
  <1> USE DEF AnsweredByUser
  <1> LPTypeOK
    BY DEF LPInv
  <1>1. PICK taken \in {{p}, turn.pending} : Rejected(taken, "user")
    OBVIOUS
  <1>2. taken \in SUBSET turn.pending
    BY <1>1
  <1>3. Takes(taken, "user")
    BY <1>1, <1>2, RejectedFacts
  <1>4. LPTypeOK'
    BY <1>3, LPTypes DEF LPTypeOK, Takes, denySide, ledger, sweepSide
  <1>5. /\ AskedInv' /\ InboxInv' /\ EndIsTold' /\ OwnRepliesAreKnown' /\ Moves
        /\ Quiet' /\ ~orphaned.swept => Quiet /\ turn'.pending \subseteq turn.pending
    BY <1>1, <1>2, RejectedKeeps DEF denySide, ledger
  <1>6. DenyInv' /\ SweepInv' /\ BudgetInv'
    BY <1>5, DenyStays, SweepStays, BudgetStays DEF denySide, sweepSide
  <1>7. StaleInv'
    BY <1>5, StaleStays DEF sweepSide, Waits, Quiet
  <1>8. CountdownsAreTrue' /\ CascadesAreOurs'
    BY <1>3, CountdownsStay DEF denySide, Takes, LPInv, CascadesAreOurs
  <1> QED BY <1>4, <1>5, <1>6, <1>7, <1>8 DEF LPInv

LEMMA UserFlipsKeeps == ASSUME LPInv, UserFlips PROVE LPInv'
  <1> USE DEF UserFlips
  <1> LPTypeOK
    BY DEF LPInv
  <1>1. /\ timers' = [armed |-> timers.armed, shown |-> timers.shown,
                      interrupted |-> timers.armed \cup ToSet(due)]
        /\ ToSet(due) \in SUBSET Prompts
    <2>1. ToSet(due) \in SUBSET Prompts
      BY DueFacts DEF LPTypeOK
    <2> QED BY <2>1, LPTypes
  <1>2. LPTypeOK'
    BY <1>1, LPTypes DEF LPTypeOK, TimersType, hostSide, ledger, sweepSide
  <1>3. Moves
    BY DEF Moves, hostSide, ledger
  <1>4. AskedInv' /\ InboxInv' /\ EndIsTold' /\ OwnRepliesAreKnown'
    BY <1>1, AskedStays, InboxStays DEF hostSide, ledger
  <1>5. DenyInv' /\ SweepInv' /\ BudgetInv'
    BY <1>3, DenyStays, SweepStays, BudgetStays DEF sweepSide
  <1>6. StaleInv'
    BY StaleStays DEF sweepSide, hostSide, Waits, Quiet
  <1>7. CountdownsAreTrue' /\ CascadesAreOurs'
    BY <1>1, CountdownsStay DEF hostSide, LPInv, CascadesAreOurs
  <1> QED BY <1>2, <1>4, <1>5, <1>6, <1>7 DEF LPInv

-----------------------------------------------------------------------------
(* Events and verdicts.                                                    *)

\* What scheduling a sweep leaves: one waits, or the ladder is used up, unless
\* there was nothing to sweep for.
LEMMA ScheduledFacts ==
    ASSUME LPTypeOK, NEW open, NEW attempt \in Nat, Scheduled(open, attempt)
    PROVE  /\ ladder' \in (0..Retries) \cup {NoAttempt} /\ orphaned' \in OrphanedType
           /\ orphaned'.countdowns = orphaned.countdowns
           /\ open = {} \/ ladder' # NoAttempt \/ orphaned'.swept
           /\ ladder # NoAttempt => ladder' # NoAttempt
           /\ orphaned.swept /\ ~orphaned'.swept => ladder' # NoAttempt
           /\ attempt = 0 /\ open # {} => ladder' # NoAttempt
  <1>1. /\ Retries \in Nat /\ Retries < NoAttempt /\ NoAttempt \in Nat
        /\ \A a \in 0..Retries : a # NoAttempt
    BY LPAssumption DEF NoAttempt
  <1>2. CASE open = {}
    BY <1>2, LPTypes DEF Scheduled, LPTypeOK
  <1>3. CASE open # {} /\ attempt > Retries
    <2>1. orphaned' = [swept |-> (ladder = NoAttempt), countdowns |-> orphaned.countdowns] /\ ladder' = ladder
      BY <1>3, LPTypes DEF Scheduled
    <2>2. (ladder = NoAttempt) \in BOOLEAN
      OBVIOUS
    <2>3. orphaned' \in OrphanedType
      BY <2>1, <2>2, LPTypes DEF OrphanedType
    <2>4. orphaned'.swept <=> ladder = NoAttempt
      BY <2>1
    <2>5. attempt # 0
      BY <1>1, <1>3
    <2> QED BY <1>3, <2>1, <2>3, <2>4, <2>5 DEF LPTypeOK
  <1>4. CASE open # {} /\ ~(attempt > Retries)
    <2>1. orphaned' = [swept |-> FALSE, countdowns |-> orphaned.countdowns] /\ ladder' = attempt
      BY <1>4, LPTypes DEF Scheduled
    <2>2. attempt \in 0..Retries
      BY <1>1, <1>4
    <2> QED BY <1>1, <1>4, <2>1, <2>2, LPTypes DEF LPTypeOK, OrphanedType
  <1> QED BY <1>2, <1>3, <1>4

LEMMA HearAskKeeps == ASSUME LPInv, HearAsk PROVE LPInv'
  <1> USE DEF HearAsk
  <1> LPTypeOK
    BY DEF LPInv
  <1>1. PICK p \in Head(inbox).of :
           told' = IF p \in told.answered THEN told
                   ELSE [told EXCEPT !.open = @ \cup {p}, !.count = @ + 1, !.managed = @ \cup {p}]
    OBVIOUS
  <1>2. /\ inbox # <<>> /\ Head(inbox) = inbox[1] /\ 1 \in 1..Len(inbox) /\ inbox' = Tail(inbox)
        /\ inbox' \in Seq(Event) /\ inbox[1] \in Event /\ inbox[1].what = "asked"
    BY InboxHead
  <1>3. p \in turn.asked /\ p \in Prompts
    BY <1>1, <1>2, LPTypes DEF LPInv, InboxInv
  <1>4. /\ told' \in ToldType /\ told'.answered = told.answered
        /\ told'.managed \subseteq told.managed \cup {p}
    <2>1. CASE p \in told.answered
      BY <1>1, <2>1 DEF LPTypeOK
    <2>2. CASE p \notin told.answered
      <3>1. told' = [open |-> told.open \cup {p}, count |-> told.count + 1, answered |-> told.answered,
                     managed |-> told.managed \cup {p}]
        BY <1>1, <2>2, LPTypes
      <3>2. told.open \cup {p} \in SUBSET Prompts /\ told.managed \cup {p} \in SUBSET Prompts
        BY <1>3, LPTypes
      <3>3. told.count + 1 \in Nat /\ told.answered \in SUBSET Prompts
        BY LPTypes
      <3>4. told' \in ToldType
        BY <3>1, <3>2, <3>3 DEF ToldType
      <3> QED BY <3>1, <3>4
    <2> QED BY <2>1, <2>2
  <1>5. LPTypeOK'
    BY <1>2, <1>4 DEF LPTypeOK, denySide, ledger, sweepSide
  <1>6. AskedInv' /\ Moves
    BY <1>3, <1>4 DEF LPInv, AskedInv, Moves, denySide, ledger
  <1>7. InboxInv' /\ EndIsTold' /\ OwnRepliesAreKnown'
    BY <1>2, <1>4, HeardStays DEF ledger
  <1>8. DenyInv' /\ SweepInv' /\ BudgetInv'
    BY <1>6, DenyStays, SweepStays, BudgetStays DEF denySide, sweepSide
  <1>9. ~Quiet'
    <2>1. CASE turn.busy
      BY <2>1 DEF Quiet
    <2>2. CASE ~turn.busy
      <3>1. PICK m \in 1..Len(inbox) : m > 1 /\ inbox[m].what = "idle"
        BY <1>2, <2>2 DEF LPInv, EndIsTold
      <3>2. m - 1 \in 1..Len(inbox') /\ inbox'[m - 1] = inbox[m]
        BY <1>2, <3>1, InboxHead
      <3> QED BY <3>1, <3>2 DEF Quiet
    <2> QED BY <2>1, <2>2
  <1>10. StaleInv' /\ CountdownsAreTrue' /\ CascadesAreOurs'
    BY <1>9, NotStale, CountdownsStay DEF LPInv, CascadesAreOurs, denySide
  <1> QED BY <1>5, <1>6, <1>7, <1>8, <1>10 DEF LPInv

LEMMA HearIdleKeeps == ASSUME LPInv, HearIdle PROVE LPInv'
  <1> USE DEF HearIdle
  <1> LPTypeOK
    BY DEF LPInv
  <1>1. /\ inbox # <<>> /\ inbox' = Tail(inbox) /\ inbox' \in Seq(Event)
    BY InboxHead
  <1>2. /\ ladder' \in (0..Retries) \cup {NoAttempt} /\ orphaned' \in OrphanedType
        /\ orphaned'.countdowns = orphaned.countdowns
        /\ told.open # {} => ladder' # NoAttempt
    BY ScheduledFacts
  <1>3. LPTypeOK'
    BY <1>1, <1>2 DEF LPTypeOK, denySide, ledger
  <1>4. AskedInv' /\ Moves
    BY DEF LPInv, AskedInv, Moves, denySide, ledger
  <1>5. InboxInv' /\ EndIsTold' /\ OwnRepliesAreKnown'
    BY <1>1, HeardStays DEF ledger
  <1>6. DenyInv' /\ SweepInv' /\ BudgetInv'
    BY <1>4, DenyStays, SweepStays, BudgetStays DEF denySide
  <1>7. ~Quiet' \/ Waits'
    BY <1>2 DEF Quiet, Waits
  <1>8. StaleInv' /\ CountdownsAreTrue' /\ CascadesAreOurs'
    BY <1>2, <1>7, NotStale, CountdownsStay DEF LPInv, CascadesAreOurs, denySide
  <1> QED BY <1>3, <1>4, <1>5, <1>6, <1>8 DEF LPInv

\* Each event of the inbox comes from one before, of its kind, and speaks of
\* prompts it did; none that was first speaks of the prompt heard of.
HeardFrom(back, p) ==
    /\ Len(inbox') = Len(inbox) - back
    /\ \A n \in 1..Len(inbox') :
          /\ n + back \in 1..Len(inbox)
          /\ inbox'[n].what = inbox[n + back].what /\ inbox'[n].by = inbox[n + back].by
          /\ inbox'[n].of \subseteq inbox[n + back].of
          /\ n + back = 1 => p \notin inbox'[n].of
    /\ back = 1 => inbox[1].of = {p}

LEMMA HearReplyKeeps == ASSUME LPInv, HearReply PROVE LPInv'
  <1> LPTypeOK
    BY DEF LPInv
  <1>0. /\ inbox # <<>> /\ Head(inbox).what = "replied"
        /\ UNCHANGED <<turn, enabled, due, deny, ladder, sweeps, sweep, harmed, orphaned>>
    BY DEF HearReply, sweepSide
  <1>1. PICK p \in Head(inbox).of :
           /\ inbox' = IF Head(inbox).of = {p} THEN Tail(inbox) ELSE [inbox EXCEPT ![1].of = @ \ {p}]
           /\ told' = [told EXCEPT !.open = @ \ {p}, !.answered = @ \cup {p}, !.managed = @ \ {p}]
           /\ timers' = IF p \in timers.armed
                        THEN [armed       |-> timers.armed \ {p},
                              shown       |-> timers.shown \ {p},
                              interrupted |-> timers.interrupted \ {p}]
                        ELSE timers
           /\ ours' = ours \ {p} /\ mistaken' = mistaken \ {p}
           /\ IF CountsAsUser(p) THEN denies' = 0 /\ away' = 0 ELSE UNCHANGED <<denies, away>>
    BY DEF HearReply
  <1>2. /\ Len(inbox) \in Nat /\ Head(inbox) = inbox[1] /\ 1 \in 1..Len(inbox) /\ inbox[1] \in Event
        /\ inbox[1].what = "replied" /\ p \in inbox[1].of /\ inbox \in Seq(Event)
    BY <1>0, <1>1, InboxHead DEF LPTypeOK
  <1>3. p \in turn.asked /\ p \in Prompts /\ p \notin turn.pending /\ p \notin told.answered
    BY <1>2, LPTypes DEF LPInv, InboxInv
  <1>4. told' = [open |-> told.open \ {p}, count |-> told.count, answered |-> told.answered \cup {p},
                 managed |-> told.managed \ {p}]
    BY <1>1, LPTypes
  <1>5. /\ timers' \in TimersType /\ timers'.armed \subseteq timers.armed
        /\ timers'.shown \subseteq timers.shown /\ timers.armed \ {p} \subseteq timers'.armed
    BY <1>1, LPTypes DEF TimersType
  <1>6. inbox' \in Seq(Event) /\ (HeardFrom(0, p) \/ HeardFrom(1, p))
    <2>1. CASE inbox[1].of = {p}
      <3>1. inbox' = Tail(inbox) /\ inbox' \in Seq(Event) /\ Len(inbox') = Len(inbox) - 1
        BY <1>0, <1>1, <1>2, <2>1, InboxHead
      <3>2. \A n \in 1..Len(inbox') : n + 1 \in 1..Len(inbox) /\ inbox'[n] = inbox[n + 1] /\ n + 1 # 1
        BY <1>0, <1>2, <3>1, InboxHead
      <3> QED BY <2>1, <3>1, <3>2 DEF HeardFrom
    <2>2. CASE inbox[1].of # {p}
      <3> DEFINE e == [what |-> inbox[1].what, of |-> inbox[1].of \ {p}, by |-> inbox[1].by]
      <3>1. inbox' = [inbox EXCEPT ![1].of = @ \ {p}]
        BY <1>1, <1>2, <2>2
      <3>2. e \in Event /\ [inbox[1] EXCEPT !.of = @ \ {p}] = e
        <4>1. /\ inbox[1] = [what |-> inbox[1].what, of |-> inbox[1].of, by |-> inbox[1].by]
              /\ inbox[1].what \in {"asked", "replied", "idle"} /\ inbox[1].by \in {"run", "user", "plugin"}
              /\ inbox[1].of \ {p} \in SUBSET Prompts
          BY <1>2 DEF Event
        <4> QED BY <4>1 DEF Event
      <3>3. inbox' = [inbox EXCEPT ![1] = e]
        BY <1>2, <3>1, <3>2
      <3>4. e.what = inbox[1].what /\ e.by = inbox[1].by /\ e.of = inbox[1].of \ {p}
        OBVIOUS
      <3> HIDE DEF e
      <3>5. /\ inbox' \in Seq(Event) /\ Len(inbox') = Len(inbox)
            /\ \A n \in 1..Len(inbox) : inbox'[n] = IF n = 1 THEN e ELSE inbox[n]
        BY <1>2, <3>2, <3>3, ExceptSeq
      <3>6. \A n \in 1..Len(inbox') :
               /\ n + 0 \in 1..Len(inbox)
               /\ inbox'[n].what = inbox[n + 0].what /\ inbox'[n].by = inbox[n + 0].by
               /\ inbox'[n].of \subseteq inbox[n + 0].of
               /\ n + 0 = 1 => p \notin inbox'[n].of
        BY <3>4, <3>5
      <3> QED BY <1>2, <3>5, <3>6 DEF HeardFrom
    <2> QED BY <2>1, <2>2
  <1>7. PICK back \in {0, 1} : HeardFrom(back, p)
    BY <1>6
  <1>8. LPTypeOK'
    <2>1. told' \in ToldType
      BY <1>3, <1>4, LPTypes DEF ToldType
    <2>2. denies' \in Nat /\ away' \in Nat
      BY <1>1 DEF LPTypeOK
    <2>3. ours' \in SUBSET Prompts /\ mistaken' \in SUBSET Prompts
      BY <1>1 DEF LPTypeOK
    <2>4. inbox' \in Seq(Event) /\ timers' \in TimersType
      BY <1>5, <1>6
    <2> QED BY <1>0, <2>1, <2>2, <2>3, <2>4 DEF LPTypeOK
  <1>9. AskedInv' /\ Moves
    BY <1>0, <1>1, <1>3, <1>4, <1>5 DEF LPInv, AskedInv, Moves
  <1>10. \A n \in 1..Len(inbox') : inbox'[n].what = "replied" => p \notin inbox'[n].of
    <2> SUFFICES ASSUME NEW n \in 1..Len(inbox'), inbox'[n].what = "replied" PROVE p \notin inbox'[n].of
      OBVIOUS
    <2>1. n + back \in 1..Len(inbox) /\ inbox[n + back].what = "replied"
          /\ inbox'[n].of \subseteq inbox[n + back].of
      BY <1>7 DEF HeardFrom
    <2>2. CASE n + back = 1
      BY <1>7, <2>2 DEF HeardFrom
    <2>3. CASE n + back # 1
      <3>1. inbox[n + back].of \cap inbox[1].of = {}
        BY <1>2, <2>1, <2>3 DEF LPInv, InboxInv
      <3> QED BY <1>2, <2>1, <3>1
    <2> QED BY <2>2, <2>3
  <1>11. InboxInv'
    <2>1. \A n \in 1..Len(inbox') :
             /\ inbox'[n].of \subseteq turn.asked
             /\ inbox'[n].by = "plugin" => inbox'[n].what = "replied"
             /\ inbox'[n].what = "replied" =>
                   inbox'[n].of \cap turn.pending = {} /\ inbox'[n].of \cap told.answered = {}
      <3> SUFFICES ASSUME NEW n \in 1..Len(inbox')
                   PROVE  /\ inbox'[n].of \subseteq turn.asked
                          /\ inbox'[n].by = "plugin" => inbox'[n].what = "replied"
                          /\ inbox'[n].what = "replied" =>
                                inbox'[n].of \cap turn.pending = {} /\ inbox'[n].of \cap told.answered = {}
        OBVIOUS
      <3>1. n + back \in 1..Len(inbox)
        BY <1>7 DEF HeardFrom
      <3> QED BY <1>7, <3>1 DEF HeardFrom, LPInv, InboxInv
    <2>2. \A n, m \in 1..Len(inbox') :
             inbox'[n].what = "replied" /\ inbox'[m].what = "replied" /\ n # m
               => inbox'[n].of \cap inbox'[m].of = {}
      <3> SUFFICES ASSUME NEW n \in 1..Len(inbox'), NEW m \in 1..Len(inbox'), n # m,
                          inbox'[n].what = "replied", inbox'[m].what = "replied"
                   PROVE  inbox'[n].of \cap inbox'[m].of = {}
        OBVIOUS
      <3>1. n + back \in 1..Len(inbox) /\ m + back \in 1..Len(inbox) /\ n + back # m + back
        BY <1>7 DEF HeardFrom
      <3>2. inbox[n + back].of \cap inbox[m + back].of = {}
        <4>1. inbox[n + back].what = "replied" /\ inbox[m + back].what = "replied"
          BY <1>7 DEF HeardFrom
        <4> QED BY <3>1, <4>1 DEF LPInv, InboxInv
      <3>3. inbox'[n].of \subseteq inbox[n + back].of /\ inbox'[m].of \subseteq inbox[m + back].of
        BY <1>7 DEF HeardFrom
      <3> QED BY <3>2, <3>3
    <2>3. told'.answered = told.answered \cup {p}
      BY <1>4
    <2> QED BY <1>0, <1>10, <2>1, <2>2, <2>3 DEF InboxInv
  <1>12. EndIsTold'
    <2> SUFFICES ASSUME ~turn.busy, NEW n \in 1..Len(inbox'), inbox'[n].what = "asked"
                 PROVE  \E m \in 1..Len(inbox') : m > n /\ inbox'[m].what = "idle"
      BY <1>0 DEF EndIsTold
    <2>1. n + back \in 1..Len(inbox) /\ inbox[n + back].what = "asked"
      BY <1>7 DEF HeardFrom
    <2>2. PICK m \in 1..Len(inbox) : m > n + back /\ inbox[m].what = "idle"
      BY <2>1 DEF LPInv, EndIsTold
    <2>3. m - back \in 1..Len(inbox') /\ m - back > n /\ (m - back) + back = m
      BY <1>7, <2>2 DEF HeardFrom
    <2>4. inbox'[m - back].what = "idle"
      BY <1>7, <2>2, <2>3 DEF HeardFrom
    <2> QED BY <2>3, <2>4
  <1>13. OwnRepliesAreKnown'
    <2>1. DOMAIN inbox' = 1..Len(inbox') /\ DOMAIN inbox = 1..Len(inbox)
      BY <1>2, <1>6
    <2> SUFFICES ASSUME NEW n \in 1..Len(inbox'), inbox'[n].by = "plugin"
                 PROVE  inbox'[n].of \subseteq ours' \cup mistaken'
      BY <2>1 DEF OwnRepliesAreKnown
    <2>2. n + back \in 1..Len(inbox) /\ inbox[n + back].by = "plugin"
          /\ inbox'[n].of \subseteq inbox[n + back].of /\ p \notin inbox'[n].of
      BY <1>7, <1>10, <1>11 DEF HeardFrom, InboxInv
    <2>3. inbox[n + back].of \subseteq ours \cup mistaken
      BY <2>1, <2>2 DEF LPInv, OwnRepliesAreKnown
    <2> QED BY <1>1, <2>2, <2>3
  <1>14. DenyInv' /\ SweepInv'
    BY <1>0, <1>9, DenyStays, SweepStays
  <1>15. BudgetInv'
    BY <1>0, <1>1, LPAssumption DEF LPInv, BudgetInv, LPTypeOK
  <1>16. StaleInv'
    <2>1. Quiet' => Quiet
      <3> SUFFICES ASSUME Quiet', NEW n \in 1..Len(inbox), inbox[n].what = "idle" PROVE FALSE
        BY <1>0, <1>4 DEF Quiet
      <3>1. n # 1
        BY <1>2
      <3>2. n - back \in 1..Len(inbox') /\ (n - back) + back = n
        BY <1>2, <1>7, <3>1 DEF HeardFrom
      <3>3. inbox'[n - back].what = "idle"
        BY <1>7, <3>2 DEF HeardFrom
      <3> QED BY <3>2, <3>3 DEF Quiet
    <2> QED BY <1>0, <1>4, <2>1, StaleStays DEF Waits
  <1>17. CountdownsAreTrue'
    <2>1. timers.armed \cap turn'.pending \subseteq timers'.armed
      BY <1>0, <1>3, <1>5
    <2> QED BY <1>0, <1>5, <2>1, CountdownsStay
  <1> QED BY <1>8, <1>9, <1>11, <1>12, <1>13, <1>14, <1>15, <1>16, <1>17, <1>0 DEF LPInv, CascadesAreOurs

LEMMA ApprovedKeeps == ASSUME LPInv, NEW p \in Prompts, Approved(p) PROVE LPInv'
  <1> LPTypeOK
    BY DEF LPInv
  <1>1. /\ p \in turn.pending /\ Rejected({p}, "plugin")
        /\ told' = [open |-> told.open, count |-> told.count, answered |-> told.answered,
                    managed |-> told.managed \ {p}]
        /\ ours' = ours \cup {p}
        /\ UNCHANGED <<enabled, timers, due, deny, denies, away, mistaken, ladder, sweeps, sweep, harmed, orphaned>>
    BY LPTypes DEF Approved, denySide, sweepSide
  <1>2. {p} \in SUBSET turn.pending
    BY <1>1
  <1>3. Takes({p}, "plugin")
    BY <1>1, <1>2, RejectedFacts
  <1>4. LPTypeOK'
    <2>1. told' \in ToldType
      BY <1>1, LPTypes DEF ToldType
    <2>2. turn' \in TurnType /\ inbox' \in Seq(Event) /\ ours' \in SUBSET Prompts
      BY <1>1, <1>3 DEF Takes, LPTypeOK
    <2> QED BY <1>1, <2>1, <2>2 DEF LPTypeOK
  <1>5. /\ AskedInv' /\ InboxInv' /\ EndIsTold' /\ OwnRepliesAreKnown' /\ Moves
        /\ Quiet' /\ ~orphaned.swept => Quiet /\ turn'.pending \subseteq turn.pending
    <2>1. ours \cup mistaken \subseteq ours' \cup mistaken' /\ {p} \subseteq ours' \cup mistaken'
      BY <1>1
    <2>2. told'.answered = told.answered /\ told'.managed \subseteq told.managed /\ told'.open = told.open
      BY <1>1
    <2> QED BY <1>1, <1>2, <2>1, <2>2, RejectedKeeps
  <1>6. DenyInv' /\ SweepInv' /\ BudgetInv'
    BY <1>1, <1>5, DenyStays, SweepStays, BudgetStays
  <1>7. StaleInv'
    BY <1>1, <1>5, StaleStays DEF Waits, Quiet
  <1>8. CountdownsAreTrue' /\ CascadesAreOurs'
    BY <1>1, <1>3, CountdownsStay DEF Takes, LPInv, CascadesAreOurs
  <1> QED BY <1>4, <1>5, <1>6, <1>7, <1>8 DEF LPInv

\* Steps that leave the host, what the plugin was told and the ledger alone keep
\* the parts about them.
LEMMA HostStays ==
    ASSUME LPInv, UNCHANGED <<turn, inbox, told, ours, mistaken, harmed>>
    PROVE  InboxInv' /\ EndIsTold' /\ OwnRepliesAreKnown' /\ Moves /\ CascadesAreOurs'
  BY InboxStays, LedgerMoves DEF LPInv, CascadesAreOurs

LEMMA VerdictsKeep ==
    ASSUME LPInv, NEW p \in Prompts, LeftToUser(p) \/ Reserved(p)
    PROVE  LPInv'
  <1> LPTypeOK
    BY DEF LPInv
  <1>1. /\ p \in told.managed
        /\ told' = [open |-> told.open, count |-> told.count, answered |-> told.answered,
                    managed |-> told.managed \ {p}]
        /\ timers' \in {timers, [armed |-> timers.armed \cup {p}, shown |-> timers.shown \cup {p},
                                 interrupted |-> timers.interrupted]}
        /\ UNCHANGED <<turn, inbox, enabled, due, deny, denies, away, ours, mistaken,
                       ladder, sweeps, sweep, harmed, orphaned>>
    BY LPTypes DEF LeftToUser, Reserved, hostSide, denySide, ledger, sweepSide
  <1>2. /\ timers.armed \subseteq timers'.armed /\ timers'.armed \subseteq timers.armed \cup {p}
        /\ timers'.shown \subseteq timers.shown \cup {p}
        /\ timers'.shown \subseteq timers.shown \/ p \in timers'.armed
        /\ timers' \in TimersType
    BY <1>1, LPTypes DEF TimersType
  <1>3. LPTypeOK'
    <2>1. told' \in ToldType
      BY <1>1, LPTypes DEF ToldType
    <2> QED BY <1>1, <1>2, <2>1 DEF LPTypeOK
  <1>4. AskedInv'
    BY <1>1, <1>2, AskedStays
  <1>5. InboxInv' /\ EndIsTold' /\ OwnRepliesAreKnown' /\ Moves
    BY <1>1, InboxStays, LedgerMoves
  <1>6. DenyInv' /\ SweepInv' /\ BudgetInv'
    BY <1>1, <1>5, DenyStays, SweepStays, BudgetStays
  <1>7. StaleInv'
    BY <1>1, StaleStays DEF Waits, Quiet
  <1>8. CountdownsAreTrue' /\ CascadesAreOurs'
    BY <1>1, <1>2 DEF LPInv, CountdownsAreTrue, CascadesAreOurs
  <1> QED BY <1>3, <1>4, <1>5, <1>6, <1>7, <1>8 DEF LPInv

-----------------------------------------------------------------------------
(* The unattended deny.                                                    *)

LEMMA DeadlinePassesKeeps == ASSUME LPInv, NEW p \in Prompts, DeadlinePasses(p) PROVE LPInv'
  <1> LPTypeOK
    BY DEF LPInv
  <1>1. /\ p \in timers.armed /\ due' = Append(due, p)
        /\ timers' = [armed |-> timers.armed \ {p}, shown |-> timers.shown,
                      interrupted |-> timers.interrupted]
        /\ UNCHANGED <<turn, inbox, told, enabled, deny, denies, away, ours, mistaken,
                       ladder, sweeps, sweep, harmed, orphaned>>
    BY LPTypes DEF DeadlinePasses, hostSide, ledger, sweepSide
  <1>2. /\ due' \in Seq(Prompts) /\ Len(due) \in Nat /\ Len(due') = Len(due) + 1
        /\ \A n \in 1..Len(due) : due'[n] = due[n]
        /\ due'[Len(due) + 1] = p
    <2>1. due \in Seq(Prompts)
      BY DEF LPTypeOK
    <2> QED BY <1>1, <2>1, AppendProperties
  <1>3. \A q : q \in ToSet(due) \cup {p} => q \in ToSet(due')
    <2>1. \A q : q \in ToSet(due) <=> \E n \in 1..Len(due) : due[n] = q
      BY DueFacts
    <2>2. DOMAIN due' = 1..Len(due')
      BY <1>2
    <2> QED BY <1>2, <2>1, <2>2 DEF ToSet
  <1>4. LPTypeOK'
    <2>1. timers' \in TimersType
      BY <1>1, LPTypes DEF TimersType
    <2> QED BY <1>1, <1>2, <2>1 DEF LPTypeOK
  <1>5. AskedInv'
    <2>1. \A n \in 1..Len(due') : due'[n] \in turn.asked
      BY <1>1, <1>2 DEF LPInv, AskedInv
    <2> QED BY <1>1, <2>1 DEF LPInv, AskedInv
  <1>6. InboxInv' /\ EndIsTold' /\ OwnRepliesAreKnown' /\ Moves /\ CascadesAreOurs'
    BY <1>1, HostStays
  <1>7. DenyInv' /\ SweepInv' /\ BudgetInv'
    BY <1>1, <1>6, DenyStays, SweepStays, BudgetStays
  <1>8. StaleInv'
    BY <1>1, StaleStays DEF Waits, Quiet
  <1>9. CountdownsAreTrue'
    BY <1>1, <1>3 DEF LPInv, CountdownsAreTrue
  <1> QED BY <1>4, <1>5, <1>6, <1>7, <1>8, <1>9 DEF LPInv

\* The prompts a deny drops the countdown of.
LEMMA DroppedFacts ==
    ASSUME LPTypeOK, NEW p \in Prompts, Dropped(p)
    PROVE  /\ timers' \in TimersType /\ timers'.armed = timers.armed
           /\ timers'.shown = timers.shown \ {p}
  <1>1. timers' = [armed |-> timers.armed, shown |-> timers.shown \ {p},
                   interrupted |-> timers.interrupted \ {p}]
    BY LPTypes DEF Dropped
  <1> QED BY <1>1, LPTypes DEF TimersType

LEMMA BeginDenyKeeps == ASSUME LPInv, BeginDeny PROVE LPInv'
  <1> LPTypeOK
    BY DEF LPInv
  <1> DEFINE p == Head(due)
  <1>1. /\ deny = Rest /\ due # <<>> /\ due' = Tail(due)
        /\ UNCHANGED <<turn, inbox, told, enabled, denies, away, ours, mistaken,
                       ladder, sweeps, sweep, harmed, orphaned>>
    BY DEF BeginDeny, hostSide, ledger, sweepSide
  <1>2. /\ p \in Prompts /\ due' \in Seq(Prompts) /\ p \in turn.asked
        /\ \A n \in 1..Len(due') : due'[n] \in turn.asked
        /\ \A q \in ToSet(due) : q = p \/ q \in ToSet(due')
    <2>1. /\ Len(due) >= 1 /\ p = due[1] /\ p \in Prompts /\ due' \in Seq(Prompts)
          /\ Len(due') = Len(due) - 1 /\ \A n \in 1..Len(due') : due'[n] = due[n + 1]
          /\ \A q \in ToSet(due) : q = p \/ q \in ToSet(due')
      BY <1>1, DueFacts
    <2>2. Len(due) \in Nat
      BY DEF LPTypeOK
    <2>3. \A n \in 1..Len(due) : due[n] \in turn.asked
      BY DEF LPInv, AskedInv
    <2>4. 1 \in 1..Len(due) /\ \A n \in 1..Len(due') : n + 1 \in 1..Len(due)
      BY <2>1, <2>2
    <2> QED BY <2>1, <2>3, <2>4
  <1>3. \/ p \in told.answered /\ UNCHANGED <<deny, timers>>
        \/ /\ denies < DenyLimit /\ UNCHANGED timers
           /\ deny' = [at |-> "casualties", target |-> p, count |-> told.count, list |-> turn.pending]
        \/ Dropped(p) /\ UNCHANGED deny
    BY DEF BeginDeny, MayDeny
  <1> HIDE DEF p
  <1>4. timers' \in TimersType /\ timers'.armed = timers.armed /\ timers'.shown \subseteq timers.shown
    BY <1>2, <1>3, DroppedFacts DEF LPTypeOK
  <1>5. deny' \in Denies
    <2>1. CASE UNCHANGED deny
      BY <2>1 DEF LPTypeOK
    <2>2. CASE deny' = [at |-> "casualties", target |-> p, count |-> told.count, list |-> turn.pending]
      BY <1>2, <2>2, LPTypes DEF Denies, DenyCasualties
    <2> QED BY <1>3, <2>1, <2>2
  <1>6. LPTypeOK'
    BY <1>1, <1>2, <1>4, <1>5 DEF LPTypeOK
  <1>7. AskedInv'
    BY <1>1, <1>2, <1>4 DEF LPInv, AskedInv
  <1>8. InboxInv' /\ EndIsTold' /\ OwnRepliesAreKnown' /\ Moves /\ CascadesAreOurs'
    BY <1>1, HostStays
  <1>9. SweepInv' /\ StaleInv'
    BY <1>1, <1>8, SweepStays, StaleStays DEF Waits, Quiet
  <1>10. DenyInv' /\ BudgetInv'
    <2>1. CASE UNCHANGED deny
      BY <1>1, <1>8, <2>1, DenyStays, BudgetStays
    <2>2. CASE /\ denies < DenyLimit
               /\ deny' = [at |-> "casualties", target |-> p, count |-> told.count, list |-> turn.pending]
      <3>1. DenyInv'
        BY <1>1, <1>2, <2>2 DEF DenyInv
      <3>2. BudgetInv'
        BY <1>1, <2>2 DEF LPInv, BudgetInv, Rest
      <3> QED BY <3>1, <3>2
    <2> QED BY <1>3, <2>1, <2>2
  <1>11. CountdownsAreTrue'
    <2> SUFFICES ASSUME NEW q \in (timers'.shown \cap turn.pending) \ orphaned.countdowns
                 PROVE  q \in timers'.armed \cup ToSet(due') \/ (deny' # Rest /\ deny'.target = q)
      BY <1>1 DEF CountdownsAreTrue
    <2>1. q \in timers.armed \cup ToSet(due)
      BY <1>1, <1>4 DEF LPInv, CountdownsAreTrue
    <2>2. CASE q # p
      BY <1>2, <1>4, <2>1, <2>2
    <2>3. CASE q = p
      <3>1. p \notin told.answered
        BY <2>3 DEF LPInv, AskedInv
      <3>2. ~Dropped(p)
        BY <1>2, <2>3, DroppedFacts
      <3>3. deny' = [at |-> "casualties", target |-> p, count |-> told.count, list |-> turn.pending]
        BY <1>3, <3>1, <3>2
      <3> QED BY <2>3, <3>3 DEF Rest
    <2> QED BY <2>2, <2>3
  <1> QED BY <1>6, <1>7, <1>8, <1>9, <1>10, <1>11 DEF LPInv

\* A deny that goes on with the same target, or gives up once the prompt is no
\* longer pending, shown or excused.
LEMMA DenyGoesOn ==
    ASSUME LPInv, deny # Rest, UNCHANGED due,
           turn'.pending \subseteq turn.pending, timers'.armed = timers.armed,
           timers'.shown \subseteq timers.shown,
           orphaned.countdowns \subseteq orphaned'.countdowns,
           \/ deny' # Rest /\ deny'.target = deny.target
           \/ deny.target \notin turn'.pending
           \/ deny.target \notin timers'.shown
           \/ deny.target \in orphaned'.countdowns
    PROVE  CountdownsAreTrue'
  BY DEF LPInv, CountdownsAreTrue

LEMMA DenyListedKeeps == ASSUME LPInv, DenyListed PROVE LPInv'
  <1> LPTypeOK
    BY DEF LPInv
  <1>1. /\ deny.at = "second"
        /\ deny' = [at |-> "compare", target |-> deny.target, count |-> deny.count,
                    casualties |-> deny.casualties, list |-> turn.pending,
                    known |-> turn.asked, kept |-> deny.kept]
        /\ UNCHANGED <<turn, inbox, told, enabled, timers, due, denies, away, ours, mistaken,
                       ladder, sweeps, sweep, harmed, orphaned>>
    BY DEF DenyListed, hostSide, ledger, sweepSide
  <1>2. deny \in DenySecond /\ deny # Rest
    BY <1>1, DenyTypes DEF Rest
  <1>3. LPTypeOK'
    <2>1. deny' \in DenyCompare
      BY <1>1, <1>2, LPTypes DEF DenySecond, DenyCompare
    <2> QED BY <1>1, <2>1 DEF LPTypeOK, Denies
  <1>4. InboxInv' /\ EndIsTold' /\ OwnRepliesAreKnown' /\ Moves /\ CascadesAreOurs' /\ AskedInv'
    BY <1>1, HostStays, AskedStays
  <1>5. SweepInv' /\ StaleInv'
    BY <1>1, <1>4, SweepStays, StaleStays DEF Waits, Quiet
  <1>6. DenyInv' /\ BudgetInv'
    <2>1. deny.target \in turn.asked /\ Vouched(deny)
      BY <1>1, <1>2 DEF LPInv, DenyInv
    <2>2. DenyInv'
      BY <1>1, <2>1 DEF DenyInv, Vouched, TurnOf
    <2>3. BudgetInv'
      BY <1>1, <1>2 DEF LPInv, BudgetInv
    <2> QED BY <2>2, <2>3
  <1>7. CountdownsAreTrue'
    BY <1>1, <1>2, DenyGoesOn DEF Rest
  <1> QED BY <1>3, <1>4, <1>5, <1>6, <1>7 DEF LPInv

\* A deny that ends.
LEMMA AtRest ==
    ASSUME deny' = Rest, denies' <= DenyLimit, away' <= denies', denies' \in Nat
    PROVE  DenyInv' /\ BudgetInv'
  <1>1. DenyInv'
    BY DEF DenyInv, Rest
  <1>2. BudgetInv'
    BY LPAssumption DEF BudgetInv, Rest
  <1> QED BY <1>1, <1>2

LEMMA AwayBefore ==
    ASSUME LPInv, deny.at # "answer" \/ ~deny.accepted
    PROVE  denies \in Nat /\ denies <= DenyLimit /\ away <= denies
  BY LPAssumption DEF LPInv, BudgetInv, LPTypeOK

LEMMA DenyThrowsKeeps == ASSUME LPInv, DenyThrows PROVE LPInv'
  <1> LPTypeOK
    BY DEF LPInv
  <1>1. /\ deny.at = "second" /\ deny' = Rest
        /\ orphaned' = [swept |-> orphaned.swept, countdowns |-> orphaned.countdowns \cup {deny.target}]
        /\ UNCHANGED <<turn, inbox, told, enabled, timers, due, denies, away, ours, mistaken,
                       ladder, sweeps, sweep, harmed>>
    BY LPTypes DEF DenyThrows, hostSide, ledger, sweepSide
  <1>2. deny # Rest /\ deny.target \in Prompts
    BY <1>1, DenyTypes DEF Rest
  <1>3. LPTypeOK'
    <2>1. orphaned' \in OrphanedType
      BY <1>1, <1>2, LPTypes DEF OrphanedType
    <2> QED BY <1>1, <2>1 DEF LPTypeOK, Denies
  <1>4. InboxInv' /\ EndIsTold' /\ OwnRepliesAreKnown' /\ Moves /\ CascadesAreOurs' /\ AskedInv'
    BY <1>1, HostStays, AskedStays
  <1>5. SweepInv' /\ StaleInv'
    BY <1>1, <1>4, SweepStays, StaleStays DEF Waits, Quiet
  <1>6. DenyInv' /\ BudgetInv'
    BY <1>1, AtRest, AwayBefore
  <1>7. CountdownsAreTrue'
    BY <1>1, <1>2, DenyGoesOn
  <1> QED BY <1>3, <1>4, <1>5, <1>6, <1>7 DEF LPInv

LEMMA DenyVerifiesKeeps == ASSUME LPInv, DenyVerifies PROVE LPInv'
  <1> LPTypeOK
    BY DEF LPInv
  <1> DEFINE p == deny.target
             kept == Prompts \ (timers.armed \cup told.managed \cup {p})
             next == [at |-> "second", target |-> p, count |-> deny.count, casualties |-> deny.list,
                      kept |-> kept]
  <1>1. /\ deny.at = "casualties"
        /\ UNCHANGED <<turn, inbox, told, enabled, due, denies, away, ours, mistaken,
                       ladder, sweeps, sweep, harmed, orphaned>>
    BY DEF DenyVerifies, hostSide, ledger, sweepSide
  <1>0. \/ p \notin deny.list /\ deny' = Rest /\ UNCHANGED timers
        \/ deny' = Rest /\ Dropped(p)
        \/ /\ deny' = next /\ UNCHANGED timers
           /\ \A q \in deny.list \ {p} : OursToClear(p, q)
    BY DEF DenyVerifies
  <1>2. deny \in DenyCasualties /\ deny # Rest /\ p \in Prompts
    BY <1>1, DenyTypes DEF Rest
  <1>3. /\ timers' \in TimersType /\ timers'.armed = timers.armed /\ timers'.shown \subseteq timers.shown
        /\ Dropped(p) => p \notin timers'.shown
    BY <1>0, <1>2, DroppedFacts DEF LPTypeOK
  <1>4. LPTypeOK'
    <2>1. next \in DenySecond
      <3>1. deny.count \in Nat /\ deny.list \in SUBSET Prompts /\ kept \in SUBSET Prompts
        BY <1>2 DEF DenyCasualties
      <3> HIDE DEF kept, p
      <3> QED BY <1>2, <3>1 DEF DenySecond
    <2> HIDE DEF next
    <2>2. deny' \in Denies
      BY <1>0, <2>1 DEF Denies
    <2> QED BY <1>1, <1>3, <2>2 DEF LPTypeOK
  <1>5. InboxInv' /\ EndIsTold' /\ OwnRepliesAreKnown' /\ Moves /\ CascadesAreOurs' /\ AskedInv'
    BY <1>1, <1>3, AskedStays, HostStays
  <1>6. SweepInv' /\ StaleInv'
    BY <1>1, <1>5, SweepStays, StaleStays DEF Waits, Quiet
  <1>7. DenyInv' /\ BudgetInv'
    <2>1. CASE deny' = Rest
      BY <1>1, <2>1, AtRest, AwayBefore
    <2>2. CASE deny' = next /\ \A q \in deny.list \ {p} : OursToClear(p, q)
      <3>1. \A q \in deny.list : TurnOf(q) = TurnOf(p) /\ q \notin kept
        BY <2>2 DEF OursToClear
      <3>2. p \in turn.asked
        BY <1>2 DEF LPInv, DenyInv
      <3>3. /\ deny'.at = "second" /\ deny'.target = p /\ deny'.casualties = deny.list
            /\ deny'.kept = kept
        BY <2>2
      <3> HIDE DEF next, kept, p
      <3>4. Vouched(deny)'
        BY <1>1, <3>1, <3>3 DEF Vouched, TurnOf
      <3>5. DenyInv'
        BY <1>1, <3>2, <3>3, <3>4 DEF DenyInv
      <3>6. BudgetInv'
        BY <1>1, <1>2, <3>3 DEF LPInv, BudgetInv
      <3> QED BY <3>5, <3>6
    <2> QED BY <1>0, <2>1, <2>2
  <1>8. CountdownsAreTrue'
    <2>1. p \notin deny.list => p \notin turn.pending
      BY <1>1 DEF LPInv, DenyInv
    <2>2. deny' = next => deny' # Rest /\ deny'.target = p
      BY DEF Rest
    <2>3. \/ deny' # Rest /\ deny'.target = p
          \/ p \notin turn.pending
          \/ p \notin timers'.shown
      <3> HIDE DEF next
      <3> QED BY <1>0, <1>3, <2>1, <2>2
    <2> QED BY <1>1, <1>2, <1>3, <2>3, DenyGoesOn
  <1> QED BY <1>4, <1>5, <1>6, <1>7, <1>8 DEF LPInv

LEMMA DenyPostsKeeps == ASSUME LPInv, DenyPosts PROVE LPInv'
  <1> LPTypeOK
    BY DEF LPInv
  <1> DEFINE p == deny.target
             next == [at |-> "posted", target |-> p, casualties |-> deny.casualties,
                      known |-> deny.known, kept |-> deny.kept]
  <1>1. /\ deny.at = "compare"
        /\ UNCHANGED <<turn, inbox, told, enabled, due, denies, away, mistaken,
                       ladder, sweeps, sweep, harmed, orphaned>>
    <2>1. mistaken' = mistaken
      BY DEF DenyPosts
    <2> QED BY <2>1 DEF DenyPosts, hostSide, sweepSide
  <1>0. \/ deny' = Rest /\ Dropped(p) /\ UNCHANGED ours
        \/ (p \notin deny.list \/ p \in told.answered) /\ deny' = Rest /\ UNCHANGED <<ours, timers>>
        \/ /\ deny' = next /\ UNCHANGED timers /\ deny.list \subseteq deny.casualties
           /\ ours' = ours \cup deny.casualties
    <2>1. CASE ~StillVerified(deny.casualties, deny.list, deny.count)
      BY <2>1 DEF DenyPosts
    <2>2. CASE StillVerified(deny.casualties, deny.list, deny.count) /\ (p \notin deny.list \/ p \in told.answered)
      BY <2>2 DEF DenyPosts, ledger
    <2>3. CASE StillVerified(deny.casualties, deny.list, deny.count) /\ ~(p \notin deny.list \/ p \in told.answered)
      <3>1. deny.list \subseteq deny.casualties
        BY <2>3 DEF StillVerified
      <3> QED BY <2>3, <3>1 DEF DenyPosts
    <2> QED BY <2>1, <2>2, <2>3
  <1>2. deny \in DenyCompare /\ deny # Rest /\ p \in Prompts
    BY <1>1, DenyTypes DEF Rest
  <1>3. /\ timers' \in TimersType /\ timers'.armed = timers.armed /\ timers'.shown \subseteq timers.shown
        /\ Dropped(p) => p \notin timers'.shown
    BY <1>0, <1>2, DroppedFacts DEF LPTypeOK
  <1>4. ours' \in SUBSET Prompts /\ ours \subseteq ours'
    BY <1>0, <1>2 DEF LPTypeOK, DenyCompare
  <1>5. LPTypeOK'
    <2>1. next \in DenyPosted
      BY <1>2 DEF DenyCompare, DenyPosted
    <2>2. deny' \in Denies
      BY <1>0, <2>1 DEF Denies
    <2> QED BY <1>1, <1>3, <1>4, <2>2 DEF LPTypeOK
  <1>6. InboxInv' /\ EndIsTold' /\ OwnRepliesAreKnown' /\ Moves /\ AskedInv'
    BY <1>1, <1>3, <1>4, InboxStays, LedgerMoves, AskedStays
  <1>7. SweepInv' /\ StaleInv'
    BY <1>1, <1>6, SweepStays, StaleStays DEF Waits, Quiet
  <1>8. DenyInv' /\ BudgetInv'
    <2>1. CASE deny' = Rest
      BY <1>1, <2>1, AtRest, AwayBefore
    <2>2. CASE deny' = next /\ deny.list \subseteq deny.casualties /\ ours' = ours \cup deny.casualties
      <3>1. /\ p \in turn.asked /\ Vouched(deny) /\ turn.pending \cap deny.known \subseteq deny.list
            /\ deny.known \subseteq turn.asked
        BY <1>1, <1>2 DEF LPInv, DenyInv
      <3>2. /\ deny'.at = "posted" /\ deny'.target = p /\ deny'.casualties = deny.casualties
            /\ deny'.known = deny.known /\ deny'.kept = deny.kept
        BY <2>2
      <3> HIDE DEF next
      <3>3. Vouched(deny)'
        BY <1>1, <3>1, <3>2 DEF Vouched, TurnOf
      <3>4. DenyInv'
        BY <1>1, <2>2, <3>1, <3>2, <3>3 DEF DenyInv
      <3>5. BudgetInv'
        BY <1>1, <1>2, <3>2 DEF LPInv, BudgetInv
      <3> QED BY <3>4, <3>5
    <2> QED BY <1>0, <2>1, <2>2
  <1>9. CountdownsAreTrue' /\ CascadesAreOurs'
    <2>1. p \notin deny.list \/ p \in told.answered => p \notin turn.pending
      BY <1>1 DEF LPInv, DenyInv, AskedInv
    <2>2. deny' = next => deny' # Rest /\ deny'.target = p
      BY DEF Rest
    <2>3. CountdownsAreTrue'
      BY <1>0, <1>1, <1>2, <1>3, <2>1, <2>2, DenyGoesOn
    <2> QED BY <1>1, <2>3 DEF LPInv, CascadesAreOurs
  <1> QED BY <1>5, <1>6, <1>7, <1>8, <1>9 DEF LPInv

LEMMA DenyAppliedKeeps == ASSUME LPInv, DenyApplied PROVE LPInv'
  <1> LPTypeOK
    BY DEF LPInv
  <1> DEFINE taken == Cascade(deny.target)
             next == [at |-> "answer", target |-> deny.target, casualties |-> deny.casualties,
                      accepted |-> taken # {}]
  <1>1. /\ deny.at = "posted" /\ deny' = next /\ Rejected(taken, "plugin")
        /\ mistaken' = mistaken \cup (taken \ deny.known)
        /\ harmed' = harmed \cup {q \in taken \cap deny.known :
                                     TurnOf(q) # TurnOf(deny.target) \/ q \in deny.kept}
        /\ away' = IF taken = {} THEN away ELSE away + 1
        /\ UNCHANGED <<told, enabled, timers, due, denies, ours, ladder, sweeps, sweep, orphaned>>
    BY DEF DenyApplied, sweepSide
  <1>2. deny \in DenyPosted /\ deny # Rest /\ taken \in SUBSET turn.pending
        /\ (deny.target \notin turn.pending \/ taken = turn.pending)
    BY <1>1, DenyTypes DEF Rest, Cascade
  <1>3. /\ Vouched(deny) /\ turn.pending \cap deny.known \subseteq deny.casualties
        /\ turn.pending \cap deny.known \subseteq ours \cup mistaken /\ deny.target \in turn.asked
    BY <1>1, <1>2 DEF LPInv, DenyInv
  <1>4. /\ deny'.at = "answer" /\ deny'.target = deny.target /\ deny'.casualties = deny.casualties
        /\ deny'.accepted <=> taken # {}
        /\ deny' \in DenyAnswer
    <2>1. (taken # {}) \in BOOLEAN
      OBVIOUS
    <2>2. deny.target \in Prompts /\ deny.casualties \in SUBSET Prompts
      BY <1>2 DEF DenyPosted
    <2> HIDE DEF taken
    <2> QED BY <1>1, <2>1, <2>2 DEF DenyAnswer
  <1> HIDE DEF taken, next
  <1>5. Takes(taken, "plugin")
    BY <1>1, <1>2, RejectedFacts
  <1>6. harmed' = harmed
    BY <1>1, <1>2, <1>3 DEF Vouched
  <1>7. LPTypeOK'
    <2>1. turn' \in TurnType /\ inbox' \in Seq(Event)
      BY <1>5 DEF Takes
    <2>2. away' \in Nat
      BY <1>1 DEF LPTypeOK
    <2>3. mistaken' \in SUBSET Prompts
      BY <1>1, <1>2, LPTypes DEF LPTypeOK
    <2> QED BY <1>1, <1>4, <1>6, <2>1, <2>2, <2>3 DEF LPTypeOK, Denies
  <1>8. /\ AskedInv' /\ InboxInv' /\ EndIsTold' /\ OwnRepliesAreKnown' /\ Moves
        /\ Quiet' /\ ~orphaned.swept => Quiet /\ turn'.pending \subseteq turn.pending
    <2>1. ours \cup mistaken \subseteq ours' \cup mistaken' /\ taken \subseteq ours' \cup mistaken'
      BY <1>1, <1>2, <1>3
    <2> QED BY <1>1, <1>2, <2>1, RejectedKeeps
  <1>9. SweepInv' /\ StaleInv'
    BY <1>1, <1>8, SweepStays, StaleStays DEF Waits, Quiet
  <1>10. deny.target \notin turn'.pending
    BY <1>2, <1>5 DEF Takes
  <1>11. DenyInv'
    BY <1>3, <1>4, <1>5, <1>10 DEF DenyInv, Takes
  <1>12. BudgetInv'
    <2>1. denies \in Nat /\ denies <= DenyLimit /\ away <= denies /\ denies < DenyLimit /\ away \in Nat
      BY <1>1, <1>2, AwayBefore DEF LPInv, BudgetInv, LPTypeOK
    <2> QED BY <1>1, <1>4, <2>1 DEF BudgetInv
  <1>13. CountdownsAreTrue'
    BY <1>1, <1>2, <1>5, <1>10, DenyGoesOn DEF Takes
  <1> QED BY <1>6, <1>7, <1>8, <1>9, <1>11, <1>12, <1>13 DEF LPInv, CascadesAreOurs

LEMMA DenyAnsweredKeeps == ASSUME LPInv, DenyAnswered PROVE LPInv'
  <1> LPTypeOK
    BY DEF LPInv
  <1>1. /\ deny.at = "answer" /\ deny' = Rest
        /\ UNCHANGED <<turn, inbox, told, enabled, due, away, ladder, sweeps, sweep, harmed, orphaned>>
        /\ \/ /\ deny.accepted /\ denies' = denies + 1 /\ UNCHANGED <<ours, mistaken>>
              /\ timers' = [timers EXCEPT !.shown = @ \ deny.casualties]
           \/ /\ ~deny.accepted /\ denies' = denies /\ Dropped(deny.target)
              /\ ours' = ours \ deny.casualties
              /\ mistaken' = mistaken \cup (deny.casualties \ told.answered)
    BY DEF DenyAnswered, hostSide, ledger, sweepSide
  <1>2. deny \in DenyAnswer /\ deny # Rest /\ deny.target \in Prompts /\ deny.target \notin turn.pending
    BY <1>1, DenyTypes DEF Rest, LPInv, DenyInv
  <1>3. timers' \in TimersType /\ timers'.armed = timers.armed /\ timers'.shown \subseteq timers.shown
    <2>1. CASE Dropped(deny.target)
      BY <1>2, <2>1, DroppedFacts
    <2>2. CASE timers' = [timers EXCEPT !.shown = @ \ deny.casualties]
      <3>1. timers' = [armed |-> timers.armed, shown |-> timers.shown \ deny.casualties,
                       interrupted |-> timers.interrupted]
        BY <2>2, LPTypes
      <3> QED BY <3>1, LPTypes DEF TimersType
    <2> QED BY <1>1, <2>1, <2>2
  <1>4. /\ ours' \in SUBSET Prompts /\ mistaken' \in SUBSET Prompts
        /\ (ours \cup mistaken) \ told.answered \subseteq ours' \cup mistaken'
    BY <1>1, <1>2 DEF LPTypeOK, DenyAnswer
  <1>5. /\ denies' \in Nat /\ denies' <= DenyLimit /\ away' <= denies'
    BY <1>1, <1>2, LPAssumption DEF LPInv, LPTypeOK, BudgetInv
  <1>6. LPTypeOK'
    BY <1>1, <1>3, <1>4, <1>5 DEF LPTypeOK, Denies
  <1>7. Moves /\ AskedInv'
    <2>1. turn.pending \cap told.answered = {}
      BY DEF LPInv, AskedInv
    <2>2. AskedInv'
      BY <1>1, <1>3, AskedStays
    <2> QED BY <1>1, <1>4, <2>1, <2>2 DEF Moves
  <1>8. InboxInv' /\ EndIsTold'
    BY <1>1 DEF LPInv, InboxInv, EndIsTold
  <1>9. OwnRepliesAreKnown'
    <2> SUFFICES ASSUME NEW n \in 1..Len(inbox), inbox[n].by = "plugin"
                 PROVE  inbox[n].of \subseteq ours' \cup mistaken'
      <3>1. DOMAIN inbox = 1..Len(inbox)
        BY DEF LPTypeOK
      <3> QED BY <1>1, <3>1 DEF OwnRepliesAreKnown
    <2>1. n \in DOMAIN inbox /\ inbox[n].of \cap told.answered = {}
      BY DEF LPTypeOK, LPInv, InboxInv
    <2>2. inbox[n].of \subseteq ours \cup mistaken
      BY <2>1 DEF LPInv, OwnRepliesAreKnown
    <2> QED BY <1>4, <2>1, <2>2
  <1>10. SweepInv' /\ StaleInv'
    BY <1>1, <1>7, SweepStays, StaleStays DEF Waits, Quiet
  <1>11. DenyInv' /\ BudgetInv'
    BY <1>1, <1>5, AtRest
  <1>12. CountdownsAreTrue'
    BY <1>1, <1>2, <1>3, DenyGoesOn
  <1> QED BY <1>1, <1>6, <1>7, <1>8, <1>9, <1>10, <1>11, <1>12 DEF LPInv, CascadesAreOurs

-----------------------------------------------------------------------------
(* The sweeper.                                                            *)

\* Steps of the sweeper that do not touch the host keep the parts about others.
LEMMA SweeperKeeps ==
    ASSUME LPInv, UNCHANGED <<turn, inbox, told, timers, due, deny, denies, away, ours, mistaken, harmed>>,
           orphaned'.countdowns = orphaned.countdowns
    PROVE  /\ AskedInv' /\ InboxInv' /\ EndIsTold' /\ DenyInv' /\ BudgetInv'
           /\ CascadesAreOurs' /\ OwnRepliesAreKnown' /\ CountdownsAreTrue' /\ Moves
  <1>1. InboxInv' /\ EndIsTold' /\ OwnRepliesAreKnown' /\ Moves /\ CascadesAreOurs'
    BY HostStays
  <1>2. AskedInv' /\ CountdownsAreTrue'
    BY AskedStays, CountdownsStay
  <1>3. DenyInv' /\ BudgetInv'
    BY <1>1, DenyStays, BudgetStays
  <1> QED BY <1>1, <1>2, <1>3

\* Once a sweep is scheduled for the asks that are open, prompts left behind wait
\* for it, unless the ladder is used up.
LEMMA ScheduledIsFine ==
    ASSUME LPInv, NEW attempt \in Nat, Scheduled(told.open, attempt), UNCHANGED told
    PROVE  StaleInv'
  <1>1. told.open = {} \/ ladder' # NoAttempt \/ orphaned'.swept
    BY ScheduledFacts DEF LPInv
  <1>2. ~Quiet' \/ Waits'
    BY <1>1 DEF Quiet, Waits
  <1> QED BY <1>2, NotStale

LEMMA SweepTimerKeeps == ASSUME LPInv, SweepTimer PROVE LPInv'
  <1> LPTypeOK
    BY DEF LPInv
  <1>1. /\ ladder # NoAttempt /\ ladder' = NoAttempt /\ sweeps' = Append(sweeps, ladder)
        /\ UNCHANGED <<turn, inbox, told, enabled, timers, due, deny, denies, away, ours, mistaken,
                       sweep, harmed, orphaned>>
    BY DEF SweepTimer, hostSide, denySide, ledger
  <1>2. sweeps \in Seq(0..Retries) /\ ladder \in 0..Retries
    BY <1>1 DEF LPTypeOK
  <1>3. sweeps' \in Seq(0..Retries) /\ sweeps' # <<>>
    BY <1>1, <1>2, AppendProperties
  <1>4. LPTypeOK'
    BY <1>1, <1>3 DEF LPTypeOK
  <1>5. StaleInv'
    BY <1>3, NotStale DEF Waits
  <1> QED BY <1>1, <1>4, <1>5, SweeperKeeps, SweepStays DEF LPInv

LEMMA BeginSweepKeeps == ASSUME LPInv, BeginSweep PROVE LPInv'
  <1> LPTypeOK
    BY DEF LPInv
  <1> DEFINE next == [at |-> "calls", attempt |-> Head(sweeps), count |-> told.count, mine |-> turn.pending]
  <1>1. /\ sweep = Rest /\ sweeps # <<>> /\ sweeps' = Tail(sweeps)
        /\ UNCHANGED <<turn, inbox, told, enabled, timers, due, deny, denies, away, ours, mistaken, harmed>>
    BY DEF BeginSweep, hostSide, denySide, ledger
  <1>2. \/ sweep' = next /\ UNCHANGED <<ladder, orphaned>>
        \/ sweep' = sweep /\ Scheduled(told.open, Head(sweeps) + 1)
    BY DEF BeginSweep, SweepDone
  <1>3. sweeps' \in Seq(0..Retries) /\ Head(sweeps) \in 0..Retries
    <2>1. sweeps \in Seq(0..Retries)
      BY DEF LPTypeOK
    <2> QED BY <1>1, <2>1, HeadTailProperties
  <1>4. CASE sweep' = next /\ UNCHANGED <<ladder, orphaned>>
    <2>1. next \in SweepLooks
      BY <1>3, LPTypes DEF SweepLooks
    <2>2. sweep'.at = "calls" /\ sweep'.mine = turn.pending /\ sweep'.count = told.count /\ sweep' # Rest
      BY <1>4 DEF Rest
    <2> HIDE DEF next
    <2>3. LPTypeOK'
      BY <1>1, <1>3, <1>4, <2>1 DEF LPTypeOK, Sweeps
    <2>4. SweepInv' /\ StaleInv'
      BY <1>1, <2>2 DEF SweepInv, StaleInv
    <2> QED BY <1>1, <1>4, <2>3, <2>4, SweeperKeeps DEF LPInv
  <1>5. CASE sweep' = sweep /\ Scheduled(told.open, Head(sweeps) + 1)
    <2>1. Head(sweeps) + 1 \in Nat
      BY <1>3, LPAssumption DEF NoAttempt
    <2>2. /\ ladder' \in (0..Retries) \cup {NoAttempt} /\ orphaned' \in OrphanedType
          /\ orphaned'.countdowns = orphaned.countdowns
      BY <1>5, <2>1, ScheduledFacts
    <2>3. StaleInv'
      BY <1>1, <1>5, <2>1, ScheduledIsFine
    <2>4. LPTypeOK'
      BY <1>1, <1>3, <1>5, <2>2 DEF LPTypeOK
    <2> QED BY <1>1, <1>5, <2>2, <2>3, <2>4, SweeperKeeps, SweepStays DEF LPInv
  <1> QED BY <1>2, <1>4, <1>5

LEMMA SweepListedKeeps == ASSUME LPInv, SweepListed PROVE LPInv'
  <1> LPTypeOK
    BY DEF LPInv
  <1>1. /\ sweep.at = "second"
        /\ sweep' = [at |-> "compare", attempt |-> sweep.attempt, count |-> sweep.count, mine |-> sweep.mine,
                     list |-> turn.pending, known |-> turn.asked]
        /\ UNCHANGED <<turn, inbox, told, enabled, timers, due, deny, denies, away, ours, mistaken,
                       ladder, sweeps, harmed, orphaned>>
    BY DEF SweepListed, hostSide, denySide, ledger
  <1>2. sweep \in SweepLooks /\ sweep.mine \subseteq turn.ended
    BY <1>1, SweepTypes DEF LPInv, SweepInv
  <1>3. LPTypeOK'
    <2>1. sweep' \in SweepCompare
      BY <1>1, <1>2, LPTypes DEF SweepLooks, SweepCompare
    <2> QED BY <1>1, <2>1 DEF LPTypeOK, Sweeps
  <1>4. /\ sweep'.at = "compare" /\ sweep'.mine = sweep.mine /\ sweep'.count = sweep.count
        /\ sweep'.list = turn.pending /\ sweep'.known = turn.asked /\ sweep' # Rest
    BY <1>1 DEF Rest
  <1>5. SweepInv'
    BY <1>1, <1>2, <1>4 DEF SweepInv
  <1>6. StaleInv'
    <2>1. Quiet => Waits \/ (turn.pending \subseteq sweep.mine /\ sweep.count = told.count)
      BY <1>1 DEF LPInv, StaleInv
    <2>2. Quiet' = Quiet /\ Waits' = Waits
      BY <1>1 DEF Quiet, Waits
    <2> QED BY <1>1, <1>4, <2>1, <2>2 DEF StaleInv
  <1> QED BY <1>1, <1>3, <1>5, <1>6, SweeperKeeps DEF LPInv

\* A sweep that ends, be it to try again later.
LEMMA SweepEnds ==
    ASSUME LPInv, sweep' = Rest,
           UNCHANGED <<turn, inbox, told, enabled, timers, due, deny, denies, away, ours, mistaken, sweeps, harmed>>,
           \/ sweep # Rest /\ SweepRetries
           \/ UNCHANGED <<ladder, orphaned>> /\ (Waits \/ ~Quiet)
    PROVE  LPInv'
  <1> LPTypeOK
    BY DEF LPInv
  <1>1. SweepInv'
    BY DEF SweepInv, Rest
  <1>2. CASE sweep # Rest /\ SweepRetries
    <2>1. sweep.attempt + 1 \in Nat
      BY <1>2, SweepTypes, LPAssumption DEF NoAttempt
    <2>2. /\ ladder' \in (0..Retries) \cup {NoAttempt} /\ orphaned' \in OrphanedType
          /\ orphaned'.countdowns = orphaned.countdowns
      BY <1>2, <2>1, ScheduledFacts DEF SweepRetries
    <2>3. StaleInv'
      BY <1>2, <2>1, ScheduledIsFine DEF SweepRetries
    <2>4. LPTypeOK'
      BY <2>2 DEF LPTypeOK, Sweeps
    <2> QED BY <1>1, <2>2, <2>3, <2>4, SweeperKeeps DEF LPInv
  <1>3. CASE UNCHANGED <<ladder, orphaned>> /\ (Waits \/ ~Quiet)
    <2>1. StaleInv'
      BY <1>3, NotStale DEF Quiet, Waits
    <2>2. LPTypeOK'
      BY <1>3 DEF LPTypeOK, Sweeps
    <2> QED BY <1>1, <1>3, <2>1, <2>2, SweeperKeeps DEF LPInv
  <1> QED BY <1>2, <1>3

LEMMA SweepFailsKeeps == ASSUME LPInv, SweepFails PROVE LPInv'
  <1>1. /\ sweep.at \in {"calls", "second", "posted"} /\ sweep' = Rest /\ SweepRetries
        /\ UNCHANGED <<turn, inbox, told, enabled, timers, due, deny, denies, away, ours, mistaken, sweeps, harmed>>
    BY DEF SweepFails, hostSide, denySide, ledger
  <1>2. sweep # Rest
    BY <1>1 DEF Rest
  <1> QED BY <1>1, <1>2, SweepEnds

LEMMA SweepChecksKeeps == ASSUME LPInv, SweepChecks PROVE LPInv'
  <1> LPTypeOK
    BY DEF LPInv
  <1>1. /\ sweep.at = "calls" /\ sweep # Rest
        /\ UNCHANGED <<turn, inbox, told, enabled, timers, due, deny, denies, away, ours, mistaken, sweeps, harmed>>
    BY DEF SweepChecks, hostSide, denySide, ledger, Rest
  <1>2. \/ sweep.mine = {} /\ sweep' = Rest /\ UNCHANGED <<ladder, orphaned>>
        \/ sweep' = Rest /\ SweepRetries
        \/ turn.busy /\ sweep' = Rest /\ UNCHANGED <<ladder, orphaned>>
        \/ /\ sweep.mine \subseteq turn.ended /\ sweep' = [sweep EXCEPT !.at = "second"]
           /\ UNCHANGED <<ladder, orphaned>>
    BY DEF SweepChecks, SweepDone, AllDead
  <1>3. Quiet => Waits \/ (turn.pending \subseteq sweep.mine /\ sweep.count = told.count)
    BY <1>1 DEF LPInv, StaleInv
  <1>4. CASE sweep.mine = {} /\ sweep' = Rest /\ UNCHANGED <<ladder, orphaned>>
    <2>1. Waits \/ ~Quiet
      BY <1>3, <1>4 DEF Quiet
    <2> QED BY <1>1, <1>4, <2>1, SweepEnds
  <1>5. CASE sweep' = Rest /\ SweepRetries
    BY <1>1, <1>5, SweepEnds
  <1>6. CASE turn.busy /\ sweep' = Rest /\ UNCHANGED <<ladder, orphaned>>
    <2>1. ~Quiet
      BY <1>6 DEF Quiet
    <2> QED BY <1>1, <1>6, <2>1, SweepEnds
  <1>7. CASE /\ sweep.mine \subseteq turn.ended /\ sweep' = [sweep EXCEPT !.at = "second"]
             /\ UNCHANGED <<ladder, orphaned>>
    <2>1. sweep \in SweepLooks
      BY <1>1, SweepTypes
    <2>2. sweep' = [at |-> "second", attempt |-> sweep.attempt, count |-> sweep.count, mine |-> sweep.mine]
      BY <1>7, <2>1 DEF SweepLooks
    <2>3. sweep' \in SweepLooks
      BY <2>1, <2>2 DEF SweepLooks
    <2>4. sweep'.at = "second" /\ sweep'.mine = sweep.mine /\ sweep'.count = sweep.count /\ sweep' # Rest
      BY <2>2 DEF Rest
    <2>5. LPTypeOK'
      BY <1>1, <1>7, <2>3 DEF LPTypeOK, Sweeps
    <2>6. SweepInv'
      BY <1>1, <1>7, <2>4 DEF SweepInv
    <2>7. StaleInv'
      <3>1. Quiet' = Quiet /\ Waits' = Waits
        BY <1>1, <1>7 DEF Quiet, Waits
      <3> QED BY <1>1, <1>3, <2>4, <3>1 DEF StaleInv
    <2> QED BY <1>1, <1>7, <2>5, <2>6, <2>7, SweeperKeeps DEF LPInv
  <1> QED BY <1>2, <1>4, <1>5, <1>6, <1>7

LEMMA SweepPostsKeeps == ASSUME LPInv, SweepPosts PROVE LPInv'
  <1> LPTypeOK
    BY DEF LPInv
  <1>1. /\ sweep.at = "compare"
        /\ UNCHANGED <<turn, inbox, told, enabled, due, deny, denies, away, mistaken,
                       ladder, sweeps, harmed, orphaned>>
    <2>1. mistaken' = mistaken
      BY DEF SweepPosts
    <2> QED BY <2>1 DEF SweepPosts, hostSide
  <1>2. sweep \in SweepCompare
    BY <1>1, SweepTypes
  <1>3. /\ sweep.mine \subseteq turn.ended /\ turn.pending \cap sweep.known \subseteq sweep.list
        /\ sweep.known \subseteq turn.asked
    BY <1>1 DEF LPInv, SweepInv
  <1>4. CASE sweep.list # {} /\ StillVerified(sweep.mine, sweep.list, sweep.count)
    <2>1. ours' = ours \cup sweep.list /\ timers' = [timers EXCEPT !.shown = @ \ sweep.list]
      BY <1>4 DEF SweepPosts
    <2>2. PICK p \in sweep.list :
             sweep' = [at |-> "posted", attempt |-> sweep.attempt, known |-> sweep.known, target |-> p]
      BY <1>4 DEF SweepPosts
    <2>3. sweep.list \subseteq sweep.mine
      BY <1>4 DEF StillVerified
    <2>4. timers' = [armed |-> timers.armed, shown |-> timers.shown \ sweep.list,
                     interrupted |-> timers.interrupted]
      BY <2>1, LPTypes
    <2>5. timers' \in TimersType /\ timers'.armed = timers.armed /\ timers'.shown \subseteq timers.shown
      BY <2>4, LPTypes DEF TimersType
    <2>6. sweep' \in SweepPosted /\ ours' \in SUBSET Prompts
      BY <1>2, <2>1, <2>2, LPTypes DEF SweepCompare, SweepPosted, LPTypeOK
    <2>7. sweep'.at = "posted" /\ sweep'.known = sweep.known /\ sweep' # Rest
      BY <2>2 DEF Rest
    <2>8. LPTypeOK'
      BY <1>1, <2>5, <2>6 DEF LPTypeOK, Sweeps
    <2>9. InboxInv' /\ EndIsTold' /\ OwnRepliesAreKnown' /\ Moves /\ AskedInv'
      BY <1>1, <2>1, <2>5, InboxStays, LedgerMoves, AskedStays
    <2>10. DenyInv' /\ BudgetInv' /\ CountdownsAreTrue'
      BY <1>1, <2>5, <2>9, DenyStays, BudgetStays, CountdownsStay
    <2>11. SweepInv'
      BY <1>1, <1>3, <2>1, <2>3, <2>7 DEF SweepInv
    <2>12. StaleInv'
      BY <2>7 DEF StaleInv
    <2> QED BY <1>1, <2>8, <2>9, <2>10, <2>11, <2>12 DEF LPInv, CascadesAreOurs
  <1>5. CASE ~(sweep.list # {} /\ StillVerified(sweep.mine, sweep.list, sweep.count))
    <2>1. sweep' = Rest /\ UNCHANGED <<ours, timers>>
      BY <1>5 DEF SweepPosts, ledger
    <2>2. Waits \/ ~Quiet
      <3>1. Quiet /\ ~Waits => /\ turn.pending \subseteq sweep.list /\ sweep.list \subseteq sweep.mine
                               /\ sweep.count = told.count
        BY <1>1 DEF LPInv, StaleInv
      <3> QED BY <1>5, <3>1 DEF StillVerified, Quiet
    <2>3. enabled' = enabled
      BY <1>1
    <2> QED BY <1>1, <2>1, <2>2, SweepEnds
  <1> QED BY <1>4, <1>5

LEMMA SweepAppliedKeeps == ASSUME LPInv, SweepApplied PROVE LPInv'
  <1> LPTypeOK
    BY DEF LPInv
  <1> DEFINE taken == Cascade(sweep.target)
  <1>1. /\ sweep.at = "posted" /\ sweep' = Rest /\ Rejected(taken, "plugin")
        /\ mistaken' = mistaken \cup (taken \ sweep.known)
        /\ harmed' = harmed \cup ((taken \cap sweep.known) \ turn.ended)
        /\ UNCHANGED <<told, enabled, timers, due, deny, denies, away, ours, sweeps>>
    BY DEF SweepApplied, denySide
  <1>2. IF taken = {} THEN SweepRetries ELSE UNCHANGED <<ladder, orphaned>>
    BY DEF SweepApplied, SweepDone
  <1>3. /\ sweep # Rest /\ sweep.attempt + 1 \in Nat /\ taken \in SUBSET turn.pending
        /\ (taken = {} \/ taken = turn.pending)
    BY <1>1, SweepTypes, LPAssumption DEF Rest, Cascade, NoAttempt
  <1>4. /\ turn.pending \cap sweep.known \subseteq turn.ended
        /\ turn.pending \cap sweep.known \subseteq ours \cup mistaken
    BY <1>1 DEF LPInv, SweepInv
  <1> HIDE DEF taken
  <1>5. Takes(taken, "plugin")
    BY <1>1, <1>3, RejectedFacts
  <1>6. harmed' = harmed
    BY <1>1, <1>3, <1>4
  <1>7. /\ ladder' \in (0..Retries) \cup {NoAttempt} /\ orphaned' \in OrphanedType
        /\ orphaned'.countdowns = orphaned.countdowns
    <2>1. CASE taken = {}
      BY <1>2, <1>3, <2>1, ScheduledFacts DEF SweepRetries
    <2>2. CASE taken # {}
      BY <1>2, <2>2 DEF LPTypeOK
    <2> QED BY <2>1, <2>2
  <1>8. LPTypeOK'
    <2>1. turn' \in TurnType /\ inbox' \in Seq(Event)
      BY <1>5 DEF Takes
    <2>2. mistaken' \in SUBSET Prompts
      BY <1>1, <1>3, LPTypes DEF LPTypeOK
    <2> QED BY <1>1, <1>6, <1>7, <2>1, <2>2 DEF LPTypeOK, Sweeps
  <1>9. AskedInv' /\ InboxInv' /\ EndIsTold' /\ OwnRepliesAreKnown' /\ Moves
    <2>1. ours \cup mistaken \subseteq ours' \cup mistaken' /\ taken \subseteq ours' \cup mistaken'
      BY <1>1, <1>3, <1>4
    <2> QED BY <1>1, <1>3, <2>1, RejectedKeeps
  <1>10. SweepInv'
    BY <1>1 DEF SweepInv, Rest
  <1>11. StaleInv'
    <2>1. CASE taken = {}
      BY <1>1, <1>2, <1>3, <2>1, ScheduledIsFine DEF SweepRetries
    <2>2. CASE taken # {}
      <3>1. turn'.pending = {}
        BY <1>3, <1>5, <2>2 DEF Takes
      <3> QED BY <3>1, NotStale DEF Quiet
    <2> QED BY <2>1, <2>2
  <1>12. DenyInv' /\ BudgetInv'
    BY <1>1, <1>9, DenyStays, BudgetStays
  <1>13. CountdownsAreTrue'
    BY <1>1, <1>5, <1>7, CountdownsStay DEF Takes
  <1> QED BY <1>6, <1>8, <1>9, <1>10, <1>11, <1>12, <1>13 DEF LPInv, CascadesAreOurs

-----------------------------------------------------------------------------
(* The theorems.                                                           *)

LEMMA LPInitially == ASSUME LPInit PROVE LPInv
  <1>1. PICK plan \in Plans :
           turn = [of |-> plan, no |-> 0, busy |-> FALSE, asked |-> {}, pending |-> {}, ended |-> {}]
    BY DEF LPInit
  <1>2. /\ inbox = <<>> /\ told = [open |-> {}, count |-> 0, answered |-> {}, managed |-> {}]
        /\ enabled = TRUE /\ timers = [armed |-> {}, shown |-> {}, interrupted |-> {}]
        /\ due = <<>> /\ deny = Rest /\ ours = {} /\ denies = 0 /\ away = 0
        /\ ladder = NoAttempt /\ sweeps = <<>> /\ sweep = Rest
        /\ harmed = {} /\ mistaken = {} /\ orphaned = [swept |-> FALSE, countdowns |-> {}]
    BY DEF LPInit
  <1>3. Len(inbox) = 0 /\ Len(due) = 0 /\ DOMAIN inbox = {}
    BY <1>2
  <1>4. LPTypeOK
    <2>0. FALSE \in BOOLEAN /\ TRUE \in BOOLEAN /\ 0 \in Nat
      OBVIOUS
    <2>1. turn \in TurnType
      BY <1>1, <2>0 DEF TurnType
    <2>2. told \in ToldType /\ timers \in TimersType /\ orphaned \in OrphanedType
      BY <1>2, <2>0 DEF ToldType, TimersType, OrphanedType
    <2> QED BY <1>2, <2>0, <2>1, <2>2 DEF LPTypeOK, Denies, Sweeps
  <1>5. AskedInv
    BY <1>1, <1>2, <1>3 DEF AskedInv
  <1>6. InboxInv /\ EndIsTold /\ OwnRepliesAreKnown
    BY <1>3 DEF InboxInv, EndIsTold, OwnRepliesAreKnown
  <1>7. DenyInv /\ SweepInv
    BY <1>2 DEF DenyInv, SweepInv, Rest
  <1>8. BudgetInv
    BY <1>2, LPAssumption DEF BudgetInv, Rest
  <1>9. StaleInv /\ CountdownsAreTrue /\ CascadesAreOurs
    BY <1>1, <1>2 DEF StaleInv, Quiet, CountdownsAreTrue, CascadesAreOurs
  <1> QED BY <1>4, <1>5, <1>6, <1>7, <1>8, <1>9 DEF LPInv

LEMMA LPUnmoved == ASSUME LPInv, UNCHANGED lpVars PROVE LPInv'
  <1>1. UNCHANGED <<turn, inbox, told, enabled, timers, due, deny, denies, away, ours, mistaken,
                    ladder, sweeps, sweep, harmed, orphaned>>
    BY DEF lpVars, hostSide, denySide, ledger, sweepSide
  <1>2. LPTypeOK'
    BY <1>1 DEF LPInv, LPTypeOK
  <1>3. SweepInv' /\ StaleInv'
    BY <1>1 DEF LPInv, SweepInv, StaleInv, Quiet, Waits
  <1> QED BY <1>1, <1>2, <1>3, SweeperKeeps DEF LPInv

LEMMA LPStep == ASSUME LPInv, [LPNext]_lpVars PROVE LPInv'
  <1>1. CASE NewTurn \/ RunEnds \/ CallsSettle \/ UserFlips
    BY <1>1, NewTurnKeeps, RunEndsKeeps, CallsSettleKeeps, UserFlipsKeeps
  <1>2. ASSUME NEW p \in Prompts, Ask(p) \/ AnsweredByUser(p) PROVE LPInv'
    BY <1>2, AskKeeps, AnsweredByUserKeeps
  <1>3. CASE HearAsk \/ HearReply \/ HearIdle
    BY <1>3, HearAskKeeps, HearReplyKeeps, HearIdleKeeps
  <1>4. ASSUME NEW p \in Prompts, Approved(p) \/ LeftToUser(p) \/ Reserved(p) \/ DeadlinePasses(p)
        PROVE  LPInv'
    BY <1>4, ApprovedKeeps, VerdictsKeep, DeadlinePassesKeeps
  <1>5. CASE \/ BeginDeny \/ DenyListed \/ DenyThrows \/ DenyVerifies \/ DenyPosts
             \/ DenyApplied \/ DenyAnswered
    BY <1>5, BeginDenyKeeps, DenyListedKeeps, DenyThrowsKeeps, DenyVerifiesKeeps, DenyPostsKeeps,
       DenyAppliedKeeps, DenyAnsweredKeeps
  <1>6. CASE \/ SweepTimer \/ BeginSweep \/ SweepListed \/ SweepFails \/ SweepChecks
             \/ SweepPosts \/ SweepApplied
    BY <1>6, SweepTimerKeeps, BeginSweepKeeps, SweepListedKeeps, SweepFailsKeeps, SweepChecksKeeps,
       SweepPostsKeeps, SweepAppliedKeeps
  <1> QED BY <1>1, <1>2, <1>3, <1>4, <1>5, <1>6, LPUnmoved DEF LPNext

\* Every step of LeftPrompts keeps the inductive invariant.
THEOREM LPInvHolds == LPSpec => []LPInv
  <1>1. LPInit => LPInv
    BY LPInitially
  <1>2. LPInv /\ [LPNext]_lpVars => LPInv'
    BY LPStep
  <1> QED BY <1>1, <1>2, PTL DEF LPSpec

\* A cascade takes nothing the plugin has not vouched for: no sweep rejects a
\* prompt of a call that still runs, no deny one of another turn or one the
\* user had reserved, but for prompts asked for after the last look.
THEOREM CascadesAreOursHolds == LPSpec => []CascadesAreOurs
  <1>1. LPInv => CascadesAreOurs
    BY DEF LPInv
  <1> QED BY <1>1, LPInvHolds, PTL

\* The plugin denies no more prompts than its budget while the user is away and
\* knows its own replies, a countdown shown belongs to a deadline, and prompts
\* an ended run has left behind are not forgotten.
THEOREM LeftIsLookedAfterHolds == LPSpec => []LeftIsLookedAfter
  <1>1. ASSUME LPInv PROVE LeftIsLookedAfter
    <2>1. BudgetIsKept
      <3>1. denies \in Nat /\ away \in Nat /\ DenyLimit \in Nat
        BY <1>1, LPAssumption DEF LPInv, LPTypeOK
      <3>2. CASE deny = Rest
        BY <1>1, <3>1, <3>2 DEF LPInv, BudgetInv, BudgetIsKept, Rest
      <3>3. CASE deny # Rest
        BY <1>1, <3>1, <3>3 DEF LPInv, BudgetInv, BudgetIsKept
      <3> QED BY <3>2, <3>3
    <2>2. StaleIsNotForgotten
      <3> SUFFICES ASSUME ~turn.busy, inbox = <<>>, turn.pending \cap told.open # {}, ~orphaned.swept
                   PROVE  ladder # NoAttempt \/ sweeps # <<>> \/ sweep # Rest
        BY DEF StaleIsNotForgotten
      <3>1. Quiet
        BY DEF Quiet
      <3> QED BY <1>1, <3>1 DEF LPInv, StaleInv, Waits
    <2> QED BY <1>1, <2>1, <2>2 DEF LPInv, LeftIsLookedAfter
  <1> QED BY <1>1, LPInvHolds, PTL

-----------------------------------------------------------------------------
(* ConcurrencyPool: PoolInv is inductive, and what a step may never do     *)
(* follows from it, for every number of jobs and whatever the limits are.  *)
(*                                                                         *)
(* Every change of the pool ends with a drain, so the argument is about    *)
(* one operator: what a drain does to a queue, a state of the jobs and a   *)
(* count that fit together (Fits).  The lemmas about Drained, Granted and  *)
(* Behind take them as parameters, since release drains with one slot less *)
(* than the state has.                                                     *)

States == {"out", "waiting", "slot"}

\* The queue and the jobs agree, and the slots are counted.
Listed(q, p) ==
    /\ \A i \in 1..Len(q) : p[q[i]] = "waiting"
    /\ \A k \in Jobs : p[k] = "waiting" => \E i \in 1..Len(q) : q[i] = k

Distinct(q) == \A i, k \in 1..Len(q) : q[i] = q[k] => i = k

Slots(p) == {k \in Jobs : p[k] = "slot"}

Fits(q, p, run) ==
    /\ q \in Seq(Jobs) /\ p \in [Jobs -> States] /\ run \in Nat
    /\ Listed(q, p) /\ Distinct(q)
    /\ run = Cardinality(Slots(p))

After(q, p, g) == [k \in Jobs |-> IF k \in Granted(q, g) THEN "slot" ELSE p[k]]

-----------------------------------------------------------------------------
(* The operators of a drain. *)

\* A drain hands out as many slots as there are waiters and free slots.
LEMMA DrainedBounds ==
    ASSUME NEW q \in Seq(Jobs), NEW run \in Nat, NEW lim \in Nat
    PROVE  /\ Drained(q, run, lim) \in Nat
           /\ Drained(q, run, lim) <= Len(q)
           /\ Drained(q, run, lim) > 0 => run + Drained(q, run, lim) <= lim
           /\ Drained(q, run, lim) < Len(q) => run + Drained(q, run, lim) >= lim
  <1>1. Len(q) \in Nat
    OBVIOUS
  <1>. QED
    BY <1>1 DEF Drained

\* What is left of the queue.
LEMMA RestOfQueue ==
    ASSUME NEW q \in Seq(Jobs), NEW g \in Nat, g <= Len(q)
    PROVE  /\ Behind(q, g) \in Seq(Jobs)
           /\ Len(Behind(q, g)) = Len(q) - g
           /\ \A i \in 1..Len(Behind(q, g)) : i + g \in 1..Len(q) /\ Behind(q, g)[i] = q[i + g]
  <1>1. Len(q) \in Nat /\ \A i \in 1..Len(q) : q[i] \in Jobs
    OBVIOUS
  <1>2. \A i \in (g + 1)..Len(q) : q[i] \in Jobs
    BY <1>1
  <1>3. /\ SubSeq(q, g + 1, Len(q)) \in Seq(Jobs)
        /\ Len(SubSeq(q, g + 1, Len(q))) = IF g + 1 <= Len(q) THEN Len(q) - (g + 1) + 1 ELSE 0
        /\ \A i \in 1..(Len(q) - (g + 1) + 1) : SubSeq(q, g + 1, Len(q))[i] = q[(g + 1) + i - 1]
    <2>1. g + 1 \in Int /\ Len(q) \in Int
      BY <1>1
    <2>. QED
      BY <1>2, <2>1, SubSeqProperties
  <1>. QED
    BY <1>1, <1>3 DEF Behind

\* The waiters that are granted are as many as the slots that are handed out.
LEMMA GrantedCount ==
    ASSUME NEW q \in Seq(Jobs), NEW g \in Nat, g <= Len(q), Distinct(q)
    PROVE  /\ Granted(q, g) \subseteq Jobs
           /\ IsFiniteSet(Granted(q, g))
           /\ Cardinality(Granted(q, g)) = g
  <1>1. Len(q) \in Nat /\ \A i \in 1..Len(q) : q[i] \in Jobs
    OBVIOUS
  <1>. DEFINE f == [i \in 1..g |-> q[i]]
  <1>2. f \in Bijection(1..g, Granted(q, g))
    <2>1. f \in [1..g -> Granted(q, g)]
      BY DEF Granted
    <2>2. \A a, b \in 1..g : f[a] = f[b] => a = b
      BY <1>1 DEF Distinct
    <2>3. \A t \in Granted(q, g) : \E s \in 1..g : f[s] = t
      BY DEF Granted
    <2>. QED
      BY <2>1, <2>2, <2>3 DEF Bijection, Injection, Surjection, IsInjective
  <1>3. IsFiniteSet(1..g) /\ Cardinality(1..g) = g
    <2>1. 0 \in Int /\ 1 \in Int /\ g \in Int
      OBVIOUS
    <2>2. Cardinality(1..g) = IF 1 > g THEN 0 ELSE g - 1 + 1
      BY <2>1, FS_Interval
    <2>. QED
      BY <2>1, <2>2, FS_Interval
  <1>4. ExistsBijection(1..g, Granted(q, g))
    BY <1>2 DEF ExistsBijection
  <1>5. Granted(q, g) \subseteq Jobs
    BY <1>1 DEF Granted
  <1>. QED
    BY <1>3, <1>4, <1>5, FS_Bijection

\* A drain keeps the queue, the jobs and the count in agreement.
LEMMA DrainFits ==
    ASSUME PoolAssumption, NEW q, NEW p, NEW run, NEW g \in Nat,
           Fits(q, p, run), g <= Len(q)
    PROVE  Fits(Behind(q, g), After(q, p, g), run + g)
  <1>. USE DEF Fits
  <1>1. /\ Behind(q, g) \in Seq(Jobs)
        /\ Len(Behind(q, g)) = Len(q) - g
        /\ \A i \in 1..Len(Behind(q, g)) : i + g \in 1..Len(q) /\ Behind(q, g)[i] = q[i + g]
    BY RestOfQueue
  <1>2. Len(q) \in Nat /\ \A i \in 1..Len(q) : q[i] \in Jobs
    OBVIOUS
  <1>3. /\ Granted(q, g) \subseteq Jobs /\ IsFiniteSet(Granted(q, g))
        /\ Cardinality(Granted(q, g)) = g
    BY GrantedCount
  <1>4. \A k \in Granted(q, g) : p[k] = "waiting"
    BY <1>2 DEF Granted, Listed
  <1>5. After(q, p, g) \in [Jobs -> States]
    BY DEF After, States
  <1>6. Slots(After(q, p, g)) = Slots(p) \cup Granted(q, g)
    BY <1>3 DEF After, Slots
  <1>7. Slots(p) \cap Granted(q, g) = {}
    BY <1>4 DEF Slots
  <1>8. Cardinality(Slots(After(q, p, g))) = run + g
    <2>1. IsFiniteSet(Slots(p))
      <3>1. Slots(p) \subseteq Jobs /\ IsFiniteSet(Jobs)
        BY DEF Slots, PoolAssumption
      <3>. QED
        BY <3>1, FS_Subset
    <2>2. Cardinality(Slots(p) \cup Granted(q, g)) =
             Cardinality(Slots(p)) + Cardinality(Granted(q, g))
                - Cardinality(Slots(p) \cap Granted(q, g))
      BY <2>1, <1>3, FS_Union
    <2>3. Cardinality(Slots(p) \cap Granted(q, g)) = 0
      BY <1>7, FS_EmptySet
    <2>. QED
      BY <1>3, <1>6, <2>2, <2>3
  <1>9. \A i \in 1..Len(Behind(q, g)) : Behind(q, g)[i] \notin Granted(q, g)
    <2>1. SUFFICES ASSUME NEW i \in 1..Len(Behind(q, g)), Behind(q, g)[i] \in Granted(q, g)
                   PROVE  FALSE
      OBVIOUS
    <2>2. PICK m \in 1..g : q[m] = Behind(q, g)[i]
      BY <2>1 DEF Granted
    <2>3. m \in 1..Len(q) /\ i + g \in 1..Len(q) /\ q[m] = q[i + g]
      BY <2>2, <1>1, <1>2
    <2>4. m = i + g
      BY <2>3 DEF Distinct
    <2>. QED
      BY <2>4, <1>1, <1>2
  <1>10. Listed(Behind(q, g), After(q, p, g))
    <2>1. ASSUME NEW i \in 1..Len(Behind(q, g))
          PROVE  After(q, p, g)[Behind(q, g)[i]] = "waiting"
      <3>1. Behind(q, g)[i] = q[i + g] /\ i + g \in 1..Len(q) /\ Behind(q, g)[i] \notin Granted(q, g)
        BY <1>1, <1>9
      <3>. QED
        BY <3>1, <1>2 DEF After, Listed
    <2>2. ASSUME NEW k \in Jobs, After(q, p, g)[k] = "waiting"
          PROVE  \E i \in 1..Len(Behind(q, g)) : Behind(q, g)[i] = k
      <3>1. k \notin Granted(q, g) /\ p[k] = "waiting"
        BY <2>2 DEF After
      <3>2. PICK m \in 1..Len(q) : q[m] = k
        BY <3>1 DEF Listed
      <3>3. m > g
        BY <3>1, <3>2, <1>2 DEF Granted
      <3>4. m - g \in 1..Len(Behind(q, g)) /\ Behind(q, g)[m - g] = q[(m - g) + g]
        BY <3>3, <1>1, <1>2
      <3>. QED
        BY <3>2, <3>4, <1>2
    <2>. QED
      BY <2>1, <2>2 DEF Listed
  <1>11. Distinct(Behind(q, g))
    <2>1. ASSUME NEW i \in 1..Len(Behind(q, g)), NEW k \in 1..Len(Behind(q, g)),
                 Behind(q, g)[i] = Behind(q, g)[k]
          PROVE  i = k
      <3>1. q[i + g] = q[k + g] /\ i + g \in 1..Len(q) /\ k + g \in 1..Len(q)
        BY <2>1, <1>1
      <3>2. i + g = k + g
        BY <3>1 DEF Distinct
      <3>. QED
        BY <3>2, <1>1, <1>2
    <2>. QED
      BY <2>1 DEF Distinct
  <1>. QED
    BY <1>1, <1>5, <1>8, <1>10, <1>11

-----------------------------------------------------------------------------
(* One job enters, waits or leaves. *)

\* A job takes a free slot.
LEMMA TakeFits ==
    ASSUME PoolAssumption, NEW q, NEW p, NEW run, Fits(q, p, run),
           NEW j \in Jobs, p[j] = "out"
    PROVE  Fits(q, [p EXCEPT ![j] = "slot"], run + 1)
  <1>. DEFINE p2 == [p EXCEPT ![j] = "slot"]
  <1>1. p2 \in [Jobs -> States] /\ \A k \in Jobs : p2[k] = IF k = j THEN "slot" ELSE p[k]
    BY DEF Fits, States
  <1>2. \A i \in 1..Len(q) : q[i] \in Jobs /\ q[i] # j
    BY DEF Fits, Listed
  <1>. HIDE DEF p2
  <1>3. Slots(p2) = Slots(p) \cup {j} /\ j \notin Slots(p)
    BY <1>1 DEF Slots
  <1>4. IsFiniteSet(Slots(p))
    <2>1. Slots(p) \subseteq Jobs /\ IsFiniteSet(Jobs)
      BY DEF Slots, PoolAssumption
    <2>. QED
      BY <2>1, FS_Subset
  <1>5. Cardinality(Slots(p2)) = run + 1
    BY <1>3, <1>4, FS_AddElement DEF Fits
  <1>6. Listed(q, p2)
    BY <1>1, <1>2 DEF Listed, Fits
  <1>7. Fits(q, p2, run + 1)
    BY <1>1, <1>5, <1>6 DEF Fits
  <1>. QED
    BY <1>7 DEF p2

\* A job goes to the end of the queue.
LEMMA QueueFits ==
    ASSUME PoolAssumption, NEW q, NEW p, NEW run, Fits(q, p, run),
           NEW j \in Jobs, p[j] = "out"
    PROVE  /\ Fits(Append(q, j), [p EXCEPT ![j] = "waiting"], run)
           /\ Len(Append(q, j)) = Len(q) + 1
           /\ \A i \in 1..Len(q) : Append(q, j)[i] = q[i]
           /\ Append(q, j)[Len(q) + 1] = j
  <1>. DEFINE p2 == [p EXCEPT ![j] = "waiting"]
              q2 == Append(q, j)
  <1>1. p2 \in [Jobs -> States] /\ \A k \in Jobs : p2[k] = IF k = j THEN "waiting" ELSE p[k]
    BY DEF Fits, States
  <1>2. \A i \in 1..Len(q) : q[i] \in Jobs /\ q[i] # j
    BY DEF Fits, Listed
  <1>3. /\ q2 \in Seq(Jobs) /\ Len(q2) = Len(q) + 1 /\ Len(q) \in Nat
        /\ \A i \in 1..Len(q) : q2[i] = q[i]
        /\ q2[Len(q) + 1] = j
    BY DEF Fits
  <1>. HIDE DEF p2, q2
  <1>4. Slots(p2) = Slots(p)
    BY <1>1 DEF Slots
  <1>5. \A i \in 1..Len(q2) : i = Len(q) + 1 \/ i \in 1..Len(q)
    BY <1>3
  <1>6. Listed(q2, p2)
    <2>1. \A i \in 1..Len(q2) : p2[q2[i]] = "waiting"
      BY <1>1, <1>2, <1>3, <1>5 DEF Fits, Listed
    <2>2. ASSUME NEW k \in Jobs, p2[k] = "waiting"
          PROVE  \E i \in 1..Len(q2) : q2[i] = k
      <3>1. CASE k = j
        BY <3>1, <1>3
      <3>2. CASE k # j
        BY <3>2, <2>2, <1>1, <1>3 DEF Fits, Listed
      <3>. QED
        BY <3>1, <3>2
    <2>. QED
      BY <2>1, <2>2 DEF Listed
  <1>7. Distinct(q2)
    BY <1>2, <1>3, <1>5 DEF Fits, Distinct
  <1>8. Fits(q2, p2, run)
    BY <1>1, <1>3, <1>4, <1>6, <1>7 DEF Fits
  <1>. QED
    BY <1>3, <1>8 DEF p2, q2

\* A job gives its slot back.
LEMMA GiveBackFits ==
    ASSUME PoolAssumption, NEW q, NEW p, NEW run, Fits(q, p, run),
           NEW j \in Jobs, p[j] = "slot"
    PROVE  Fits(q, [p EXCEPT ![j] = "out"], run - 1)
  <1>. DEFINE p2 == [p EXCEPT ![j] = "out"]
  <1>1. p2 \in [Jobs -> States] /\ \A k \in Jobs : p2[k] = IF k = j THEN "out" ELSE p[k]
    BY DEF Fits, States
  <1>2. \A i \in 1..Len(q) : q[i] \in Jobs /\ q[i] # j
    BY DEF Fits, Listed
  <1>. HIDE DEF p2
  <1>3. Slots(p2) = Slots(p) \ {j} /\ j \in Slots(p)
    BY <1>1 DEF Slots
  <1>4. IsFiniteSet(Slots(p))
    <2>1. Slots(p) \subseteq Jobs /\ IsFiniteSet(Jobs)
      BY DEF Slots, PoolAssumption
    <2>. QED
      BY <2>1, FS_Subset
  <1>5. IsFiniteSet(Slots(p2)) /\ Cardinality(Slots(p2)) = run - 1
    BY <1>3, <1>4, FS_RemoveElement DEF Fits
  <1>6. run - 1 \in Nat
    BY <1>5, FS_CardinalityType
  <1>7. Listed(q, p2)
    BY <1>1, <1>2 DEF Listed, Fits
  <1>8. Fits(q, p2, run - 1)
    BY <1>1, <1>5, <1>6, <1>7 DEF Fits
  <1>. QED
    BY <1>8 DEF p2

\* A waiter leaves its place in the queue.
LEMMA AbandonFits ==
    ASSUME PoolAssumption, NEW q, NEW p, NEW run, Fits(q, p, run),
           NEW j \in Jobs, NEW i \in 1..Len(q), q[i] = j
    PROVE  /\ Fits(RemoveAt(q, i), [p EXCEPT ![j] = "out"], run)
           /\ Len(RemoveAt(q, i)) = Len(q) - 1
           /\ \A m \in 1..Len(RemoveAt(q, i)) :
                 /\ m < i => m \in 1..Len(q) /\ RemoveAt(q, i)[m] = q[m]
                 /\ m >= i => m + 1 \in 1..Len(q) /\ RemoveAt(q, i)[m] = q[m + 1]
  <1>. DEFINE p2 == [p EXCEPT ![j] = "out"]
              r == RemoveAt(q, i)
  <1>1. p2 \in [Jobs -> States] /\ \A k \in Jobs : p2[k] = IF k = j THEN "out" ELSE p[k]
    BY DEF Fits, States
  <1>2. Len(q) \in Nat /\ \A m \in 1..Len(q) : q[m] \in Jobs
    BY DEF Fits
  <1>3. /\ SubSeq(q, 1, i - 1) \in Seq(Jobs) /\ Len(SubSeq(q, 1, i - 1)) = i - 1
        /\ \A m \in 1..(i - 1) : SubSeq(q, 1, i - 1)[m] = q[m]
    <2>1. \A m \in 1..(i - 1) : q[m] \in Jobs
      BY <1>2
    <2>2. 1 \in Int /\ i - 1 \in Int
      BY <1>2
    <2>3. /\ SubSeq(q, 1, i - 1) \in Seq(Jobs)
          /\ Len(SubSeq(q, 1, i - 1)) = IF 1 <= i - 1 THEN (i - 1) - 1 + 1 ELSE 0
          /\ \A m \in 1..((i - 1) - 1 + 1) : SubSeq(q, 1, i - 1)[m] = q[1 + m - 1]
      BY <2>1, <2>2, SubSeqProperties
    <2>. QED
      BY <2>3, <1>2
  <1>4. /\ SubSeq(q, i + 1, Len(q)) \in Seq(Jobs) /\ Len(SubSeq(q, i + 1, Len(q))) = Len(q) - i
        /\ \A m \in 1..(Len(q) - i) : SubSeq(q, i + 1, Len(q))[m] = q[i + m]
    <2>1. \A m \in (i + 1)..Len(q) : q[m] \in Jobs
      BY <1>2
    <2>2. i + 1 \in Int /\ Len(q) \in Int
      BY <1>2
    <2>3. /\ SubSeq(q, i + 1, Len(q)) \in Seq(Jobs)
          /\ Len(SubSeq(q, i + 1, Len(q))) = IF i + 1 <= Len(q) THEN Len(q) - (i + 1) + 1 ELSE 0
          /\ \A m \in 1..(Len(q) - (i + 1) + 1) : SubSeq(q, i + 1, Len(q))[m] = q[(i + 1) + m - 1]
      BY <2>1, <2>2, SubSeqProperties
    <2>. QED
      BY <2>3, <1>2
  <1>5. /\ r \in Seq(Jobs) /\ Len(r) = Len(q) - 1
        /\ \A m \in 1..Len(r) :
              /\ m < i => m \in 1..Len(q) /\ r[m] = q[m]
              /\ m >= i => m + 1 \in 1..Len(q) /\ r[m] = q[m + 1]
    <2>. DEFINE a == SubSeq(q, 1, i - 1)
                b == SubSeq(q, i + 1, Len(q))
    <2>1. /\ a \o b \in Seq(Jobs) /\ Len(a \o b) = Len(a) + Len(b)
          /\ \A m \in 1..(Len(a) + Len(b)) : (a \o b)[m] = IF m <= Len(a) THEN a[m] ELSE b[m - Len(a)]
      BY <1>3, <1>4, ConcatProperties
    <2>2. r = a \o b
      BY DEF RemoveAt
    <2>. HIDE DEF a, b, r
    <2>3. /\ Len(a) = i - 1 /\ Len(b) = Len(q) - i
          /\ \A m \in 1..(i - 1) : a[m] = q[m]
          /\ \A m \in 1..(Len(q) - i) : b[m] = q[i + m]
      BY <1>3, <1>4 DEF a, b
    <2>4. Len(r) = Len(q) - 1
      <3>1. Len(r) = Len(a) + Len(b)
        BY <2>1, <2>2
      <3>2. Len(a) = i - 1 /\ Len(b) = Len(q) - i
        BY <2>3
      <3>. QED
        BY <3>1, <3>2, <1>2
    <2>5. ASSUME NEW m \in 1..Len(r), m < i
          PROVE  m \in 1..Len(q) /\ r[m] = q[m]
      BY <2>1, <2>2, <2>3, <2>4, <2>5, <1>2
    <2>6. ASSUME NEW m \in 1..Len(r), m >= i
          PROVE  m + 1 \in 1..Len(q) /\ r[m] = q[m + 1]
      <3>1. r[m] = b[m - (i - 1)] /\ m - (i - 1) \in 1..(Len(q) - i)
        BY <2>1, <2>2, <2>3, <2>4, <2>6, <1>2
      <3>2. b[m - (i - 1)] = q[i + (m - (i - 1))]
        BY <3>1, <2>3
      <3>3. i + (m - (i - 1)) = m + 1
        BY <1>2, <2>4
      <3>. QED
        BY <3>1, <3>2, <3>3, <2>4, <1>2
    <2>. QED
      BY <2>1, <2>2, <2>4, <2>5, <2>6
  <1>. HIDE DEF p2, r
  <1>6. Slots(p2) = Slots(p)
    <2>1. p[j] = "waiting"
      BY DEF Fits, Listed
    <2>. QED
      BY <1>1, <2>1 DEF Slots
  <1>7. \A m \in 1..Len(r) : \E n \in 1..Len(q) : n # i /\ r[m] = q[n] /\ n = IF m < i THEN m ELSE m + 1
    BY <1>5, <1>2
  <1>8. Listed(r, p2)
    <2>1. ASSUME NEW m \in 1..Len(r)
          PROVE  p2[r[m]] = "waiting"
      <3>1. PICK n \in 1..Len(q) : n # i /\ r[m] = q[n]
        BY <1>7
      <3>2. q[n] # j
        BY <3>1 DEF Fits, Distinct
      <3>. QED
        BY <1>1, <1>2, <3>1, <3>2 DEF Fits, Listed
    <2>2. ASSUME NEW k \in Jobs, p2[k] = "waiting"
          PROVE  \E m \in 1..Len(r) : r[m] = k
      <3>1. k # j /\ p[k] = "waiting"
        BY <2>2, <1>1
      <3>2. PICK n \in 1..Len(q) : q[n] = k
        BY <3>1 DEF Fits, Listed
      <3>3. n # i
        BY <3>1, <3>2
      <3>4. CASE n < i
        BY <3>2, <3>4, <1>5, <1>2
      <3>5. CASE n > i
        <4>1. n - 1 \in 1..Len(r) /\ n - 1 >= i /\ (n - 1) + 1 = n
          BY <3>5, <1>5, <1>2
        <4>. QED
          BY <4>1, <3>2, <1>5
      <3>. QED
        BY <3>3, <3>4, <3>5, <1>2
    <2>. QED
      BY <2>1, <2>2 DEF Listed
  <1>9. Distinct(r)
    <2>1. ASSUME NEW a \in 1..Len(r), NEW b \in 1..Len(r), r[a] = r[b]
          PROVE  a = b
      <3>1. PICK c \in 1..Len(q) : r[a] = q[c] /\ c = IF a < i THEN a ELSE a + 1
        BY <1>7
      <3>2. PICK d \in 1..Len(q) : r[b] = q[d] /\ d = IF b < i THEN b ELSE b + 1
        BY <1>7
      <3>3. c = d
        BY <2>1, <3>1, <3>2 DEF Fits, Distinct
      <3>. QED
        BY <3>1, <3>2, <3>3, <1>5, <1>2
    <2>. QED
      BY <2>1 DEF Distinct
  <1>10. Fits(r, p2, run)
    BY <1>1, <1>5, <1>6, <1>8, <1>9 DEF Fits
  <1>. QED
    BY <1>5, <1>10 DEF p2, r

-----------------------------------------------------------------------------
(* The invariant. *)

Ordered == \A i, k \in 1..Len(queue) : i < k => ticket[queue[i]] < ticket[queue[k]]

\* PoolInv with the queue, the jobs and the count taken together.
Good ==
    /\ Fits(queue, pc, running)
    /\ limit \in Limits \cup {0}
    /\ aborted \subseteq Jobs
    /\ tickets \in Nat /\ ticket \in [Jobs -> 0..tickets]
    /\ \A i \in 1..Len(queue) : queue[i] \notin aborted
    /\ Ordered
    /\ Len(queue) <= MaxQueued
    /\ queue # <<>> => running >= limit

LEMMA GoodIsPoolInv == Good => PoolInv
  <1>. SUFFICES ASSUME Good PROVE PoolInv
    OBVIOUS
  <1>. USE DEF Good, Fits
  <1>1. PoolTypeOK
    BY DEF PoolTypeOK, States
  <1>2. SlotsAreCounted
    BY DEF SlotsAreCounted, Holders, Slots
  <1>3. Waiters = {j \in Jobs : pc[j] = "waiting"}
    <2>1. \A i \in 1..Len(queue) : queue[i] \in Jobs
      OBVIOUS
    <2>. QED
      BY <2>1 DEF Waiters, Listed
  <1>4. Waiters \cap aborted = {}
    BY DEF Waiters
  <1>5. QueueIsLive
    BY <1>3, <1>4 DEF QueueIsLive, Ordered
  <1>. QED
    BY <1>1, <1>2, <1>5 DEF PoolInv, NoIdleSlot

LEMMA InitGood == PoolAssumption /\ CPInit => Good
  <1>. SUFFICES ASSUME PoolAssumption, CPInit PROVE Good
    OBVIOUS
  <1>. USE DEF CPInit
  <1>1. queue \in Seq(Jobs) /\ Len(queue) = 0
    OBVIOUS
  <1>2. pc \in [Jobs -> States] /\ Slots(pc) = {}
    BY DEF States, Slots
  <1>3. Cardinality(Slots(pc)) = 0
    BY <1>2, FS_EmptySet
  <1>4. Fits(queue, pc, running)
    BY <1>1, <1>2, <1>3 DEF Fits, Listed, Distinct
  <1>. QED
    BY <1>1, <1>4 DEF Good, Ordered, PoolAssumption

\* A granted waiter was in the queue.
LEMMA GrantedWaits ==
    ASSUME NEW q, NEW p, NEW run, Fits(q, p, run), NEW g \in Nat, g <= Len(q)
    PROVE  \A k \in Granted(q, g) : p[k] = "waiting"
  BY DEF Fits, Granted, Listed

\* What an arrival does, whatever becomes of it.
LEMMA AcquireGood ==
    ASSUME PoolAssumption, Good, NEW j \in Jobs, NEW n \in Limits, Acquire(j, n)
    PROVE  /\ Good'
           /\ \A a, b \in Jobs : pc[a] # "slot" /\ pc'[a] = "slot"
                                 /\ pc[b] = "waiting" /\ pc'[b] = "waiting"
                                 => ticket[b] > ticket'[a]
           /\ (\E a \in Jobs : pc[a] # "slot" /\ pc'[a] = "slot") => running' <= limit'
  <1>. DEFINE g == Drained(queue, running, n)
              rest == Behind(queue, g)
              p == After(queue, pc, g)
              free == FreeSlot(rest, running + g, n)
              waits == ~free /\ j \notin aborted /\ Len(rest) < MaxQueued
  <1>1. /\ queue \in Seq(Jobs) /\ pc \in [Jobs -> States] /\ running \in Nat /\ n \in Nat
        /\ Len(queue) \in Nat /\ \A i \in 1..Len(queue) : queue[i] \in Jobs
        /\ tickets \in Nat /\ ticket \in [Jobs -> 0..tickets]
        /\ MaxQueued \in Nat
    BY DEF Good, Fits, PoolAssumption
  <1>2. /\ pc[j] = "out"
        /\ tickets' = tickets + 1
        /\ ticket' = [ticket EXCEPT ![j] = tickets + 1]
        /\ limit' = n
        /\ queue' = IF waits THEN Append(rest, j) ELSE rest
        /\ running' = running + g + (IF free THEN 1 ELSE 0)
        /\ pc' = [p EXCEPT ![j] = IF free THEN "slot" ELSE IF waits THEN "waiting" ELSE "out"]
        /\ aborted' = aborted
    BY DEF Acquire, Queued, Served, After
  <1>3. /\ g \in Nat /\ g <= Len(queue)
        /\ g > 0 => running + g <= n
        /\ g < Len(queue) => running + g >= n
    BY <1>1, DrainedBounds
  <1>4. /\ rest \in Seq(Jobs)
        /\ Len(rest) = Len(queue) - g
        /\ \A i \in 1..Len(rest) : i + g \in 1..Len(queue) /\ rest[i] = queue[i + g]
    BY <1>1, <1>3, RestOfQueue
  <1>5. Fits(rest, p, running + g)
    BY <1>1, <1>3, DrainFits DEF Good
  <1>6. /\ \A k \in Granted(queue, g) : pc[k] = "waiting"
        /\ \A k \in Jobs : p[k] = IF k \in Granted(queue, g) THEN "slot" ELSE pc[k]
    BY <1>3, GrantedWaits DEF Good, After
  <1>7. p[j] = "out"
    BY <1>2, <1>6
  <1>8. \A i \in 1..Len(queue) : queue[i] # j
    BY <1>2 DEF Good, Fits, Listed
  <1>9. free <=> (running + g < n /\ rest = <<>>)
    BY DEF FreeSlot
  <1>10. rest # <<>> => running + g >= n
    <2>1. rest # <<>> => Len(rest) # 0
      BY <1>4
    <2>. QED
      BY <2>1, <1>1, <1>3, <1>4
  <1>. HIDE DEF g, rest, p, free
  <1>11. /\ tickets' \in Nat /\ ticket' \in [Jobs -> 0..tickets']
         /\ \A k \in Jobs : ticket'[k] = IF k = j THEN tickets + 1 ELSE ticket[k]
    BY <1>1, <1>2
  <1>12. /\ \A i \in 1..Len(rest) : rest[i] \in Jobs /\ rest[i] # j /\ rest[i] \notin aborted
         /\ \A i, k \in 1..Len(rest) : i < k => ticket'[rest[i]] < ticket'[rest[k]]
    <2>1. \A i \in 1..Len(rest) : rest[i] \in Jobs /\ rest[i] # j /\ rest[i] \notin aborted
      BY <1>1, <1>4, <1>8 DEF Good
    <2>2. ASSUME NEW i \in 1..Len(rest), NEW k \in 1..Len(rest), i < k
          PROVE  ticket'[rest[i]] < ticket'[rest[k]]
      <3>1. i + g \in 1..Len(queue) /\ k + g \in 1..Len(queue) /\ i + g < k + g
        BY <2>2, <1>1, <1>3, <1>4
      <3>2. ticket[queue[i + g]] < ticket[queue[k + g]]
        BY <3>1 DEF Good, Ordered
      <3>. QED
        BY <2>1, <3>2, <1>4, <1>11
    <2>. QED
      BY <2>1, <2>2
  <1>13. \A i \in 1..Len(queue) : ticket[queue[i]] <= tickets
    BY <1>1
  <1>14. /\ limit' \in Limits \cup {0} /\ aborted' \subseteq Jobs
    BY <1>2 DEF Good
  <1>15. \A a \in Jobs : a # j /\ pc[a] # "slot" /\ pc'[a] = "slot" => a \in Granted(queue, g)
    BY <1>2, <1>6
  <1>16. \A a \in Granted(queue, g), b \in Jobs :
            pc'[b] = "waiting" /\ b # j => ticket[b] > ticket'[a]
    <2>1. SUFFICES ASSUME NEW a \in Granted(queue, g), NEW b \in Jobs, pc'[b] = "waiting", b # j
                   PROVE  ticket[b] > ticket'[a]
      OBVIOUS
    <2>2. PICK i \in 1..g : queue[i] = a
      BY DEF Granted
    <2>3. i \in 1..Len(queue)
      BY <1>1, <1>3
    <2>4. p[b] = "waiting"
      <3>1. p \in [Jobs -> States]
        BY <1>5 DEF Fits
      <3>. QED
        BY <2>1, <3>1, <1>2
    <2>5. PICK k \in 1..Len(rest) : rest[k] = b
      BY <2>4, <1>5 DEF Fits, Listed
    <2>6. k + g \in 1..Len(queue) /\ queue[k + g] = b /\ i < k + g
      BY <2>2, <2>5, <1>3, <1>4
    <2>7. ticket[queue[i]] < ticket[queue[k + g]]
      BY <2>3, <2>6 DEF Good, Ordered
    <2>8. ticket'[a] = ticket[a]
      BY <1>1, <1>8, <1>11, <2>2, <2>3
    <2>. QED
      BY <2>2, <2>6, <2>7, <2>8, <1>1, <2>3
  <1>17. p \in [Jobs -> States] /\ running + g \in Nat /\ Len(rest) \in Nat
    BY <1>1, <1>3, <1>4, <1>5 DEF Fits
  <1>18. \A a \in Jobs, b \in Jobs :
            pc[a] # "slot" /\ pc'[a] = "slot" /\ pc[b] = "waiting" /\ pc'[b] = "waiting"
            => ticket[b] > ticket'[a]
    <2>1. SUFFICES ASSUME NEW a \in Jobs, NEW b \in Jobs, pc[a] # "slot", pc'[a] = "slot",
                          pc[b] = "waiting", pc'[b] = "waiting"
                   PROVE  ticket[b] > ticket'[a]
      OBVIOUS
    <2>2. b # j
      BY <2>1, <1>2
    <2>3. CASE a = j
      <3>1. free
        BY <2>1, <2>3, <1>2, <1>17
      <3>2. p[b] = "waiting"
        BY <2>1, <2>2, <1>2, <1>17
      <3>3. \E k \in 1..Len(rest) : rest[k] = b
        BY <3>2, <1>5 DEF Fits, Listed
      <3>. QED
        BY <3>1, <3>3, <1>9
    <2>4. CASE a # j
      BY <2>1, <2>2, <2>4, <1>15, <1>16
    <2>. QED
      BY <2>3, <2>4
  <1>19. (\E a \in Jobs : pc[a] # "slot" /\ pc'[a] = "slot") => running' <= limit'
    <2>1. SUFFICES ASSUME NEW a \in Jobs, pc[a] # "slot", pc'[a] = "slot"
                   PROVE  running' <= limit'
      OBVIOUS
    <2>2. CASE free
      BY <2>2, <1>1, <1>2, <1>3, <1>9
    <2>3. CASE ~free
      <3>1. a # j
        BY <2>1, <2>3, <1>2, <1>17
      <3>2. g > 0
        BY <2>1, <3>1, <1>3, <1>15 DEF Granted
      <3>. QED
        BY <3>2, <2>3, <1>1, <1>2, <1>3
    <2>. QED
      BY <2>2, <2>3
  <1>20. CASE free
    <2>1. /\ queue' = rest /\ rest = <<>> /\ running' = running + g + 1
          /\ pc' = [p EXCEPT ![j] = "slot"]
      BY <1>20, <1>2, <1>9
    <2>2. Fits(queue', pc', running')
      BY <2>1, <1>5, <1>7, TakeFits
    <2>3. Good'
      BY <2>1, <2>2, <1>1, <1>11, <1>14 DEF Good, Ordered
    <2>. QED
      BY <2>3, <1>18, <1>19
  <1>21. CASE waits
    <2>1. /\ queue' = Append(rest, j) /\ running' = running + g
          /\ pc' = [p EXCEPT ![j] = "waiting"] /\ ~free
      BY <1>21, <1>2, <1>1, <1>3
    <2>2. /\ Fits(queue', pc', running')
          /\ Len(queue') = Len(rest) + 1
          /\ \A i \in 1..Len(rest) : queue'[i] = rest[i]
          /\ queue'[Len(rest) + 1] = j
      <3>1. /\ Fits(Append(rest, j), [p EXCEPT ![j] = "waiting"], running + g)
            /\ Len(Append(rest, j)) = Len(rest) + 1
            /\ \A i \in 1..Len(rest) : Append(rest, j)[i] = rest[i]
            /\ Append(rest, j)[Len(rest) + 1] = j
        BY <1>5, <1>7, QueueFits
      <3>. QED
        BY <3>1, <2>1
    <2>3. \A i \in 1..Len(queue') : i = Len(rest) + 1 \/ i \in 1..Len(rest)
      BY <2>2, <1>17
    <2>4. \A i \in 1..Len(queue') : queue'[i] \notin aborted'
      BY <2>2, <2>3, <1>2, <1>12, <1>21
    <2>5. Ordered'
      <3>1. ASSUME NEW i \in 1..Len(rest)
            PROVE  ticket'[rest[i]] <= tickets
        <4>1. rest[i] \in Jobs /\ rest[i] # j
          BY <1>12
        <4>2. i + g \in 1..Len(queue) /\ rest[i] = queue[i + g]
          BY <1>4
        <4>3. ticket[queue[i + g]] <= tickets
          BY <4>2, <1>13
        <4>. QED
          BY <4>1, <4>2, <4>3, <1>11
      <3>2. ticket'[j] = tickets + 1
        BY <1>11
      <3>3. ASSUME NEW i \in 1..Len(queue'), NEW k \in 1..Len(queue'), i < k
            PROVE  ticket'[queue'[i]] < ticket'[queue'[k]]
        <4>1. i \in 1..Len(rest)
          BY <2>2, <2>3, <3>3, <1>17
        <4>2. CASE k \in 1..Len(rest)
          BY <4>1, <4>2, <2>2, <3>3, <1>12
        <4>3. CASE k = Len(rest) + 1
          <5>1. queue'[i] = rest[i] /\ queue'[k] = j
            BY <4>1, <4>3, <2>2
          <5>2. ticket'[rest[i]] <= tickets /\ ticket'[rest[i]] \in 0..tickets'
            BY <4>1, <3>1, <1>11, <1>12
          <5>. QED
            BY <5>1, <5>2, <3>2, <1>1, <1>11
        <4>. QED
          BY <2>3, <4>2, <4>3
      <3>. QED
        BY <3>3 DEF Ordered
    <2>6. Len(queue') <= MaxQueued
      BY <2>2, <1>1, <1>17, <1>21
    <2>7. queue' # <<>> => running' >= limit'
      <3>1. running + g >= n
        BY <2>1, <1>1, <1>9, <1>10, <1>17
      <3>. QED
        BY <3>1, <2>1, <1>2
    <2>8. Good'
      BY <2>2, <2>4, <2>5, <2>6, <2>7, <1>11, <1>14 DEF Good
    <2>. QED
      BY <2>8, <1>18, <1>19
  <1>22. CASE ~free /\ ~waits
    <2>1. /\ queue' = rest /\ running' = running + g
          /\ pc' = [p EXCEPT ![j] = "out"]
      <3>1. queue' = rest
        BY <1>22, <1>2
      <3>2. running' = running + g
        BY <1>22, <1>2, <1>17
      <3>3. pc' = [p EXCEPT ![j] = "out"]
        BY <1>22, <1>2
      <3>. QED
        BY <3>1, <3>2, <3>3
    <2>2. pc' = p
      BY <2>1, <1>7, <1>17
    <2>3. Fits(queue', pc', running')
      BY <2>1, <2>2, <1>5
    <2>4. Ordered'
      BY <2>1, <1>12 DEF Ordered
    <2>5. Len(queue') <= MaxQueued
      BY <2>1, <1>1, <1>3, <1>4 DEF Good
    <2>6. queue' # <<>> => running' >= limit'
      BY <2>1, <1>2, <1>10
    <2>7. \A i \in 1..Len(queue') : queue'[i] \notin aborted'
      BY <2>1, <1>2, <1>12
    <2>8. Good'
      BY <2>3, <2>4, <2>5, <2>6, <2>7, <1>11, <1>14 DEF Good
    <2>. QED
      BY <2>8, <1>18, <1>19
  <1>. QED
    BY <1>20, <1>21, <1>22

\* What the end of a classification does.
LEMMA ReleaseGood ==
    ASSUME PoolAssumption, Good, NEW j \in Jobs, ReleaseSlot(j)
    PROVE  /\ Good'
           /\ \A a, b \in Jobs : pc[a] # "slot" /\ pc'[a] = "slot"
                                 /\ pc[b] = "waiting" /\ pc'[b] = "waiting"
                                 => ticket[b] > ticket'[a]
           /\ (\E a \in Jobs : pc[a] # "slot" /\ pc'[a] = "slot") => running' <= limit'
  <1>. DEFINE p0 == [pc EXCEPT ![j] = "out"]
              g == Drained(queue, running - 1, limit)
              rest == Behind(queue, g)
              p == After(queue, p0, g)
  <1>1. /\ queue \in Seq(Jobs) /\ pc \in [Jobs -> States] /\ running \in Nat /\ limit \in Nat
        /\ Len(queue) \in Nat /\ \A i \in 1..Len(queue) : queue[i] \in Jobs
        /\ tickets \in Nat /\ ticket \in [Jobs -> 0..tickets]
        /\ MaxQueued \in Nat /\ pc[j] = "slot"
    BY DEF Good, Fits, PoolAssumption, ReleaseSlot
  <1>2. Fits(queue, p0, running - 1)
    BY <1>1, GiveBackFits DEF Good
  <1>3. running - 1 \in Nat
    BY <1>2 DEF Fits
  <1>4. /\ g \in Nat /\ g <= Len(queue)
        /\ g > 0 => running - 1 + g <= limit
        /\ g < Len(queue) => running - 1 + g >= limit
    BY <1>1, <1>3, DrainedBounds
  <1>5. /\ rest \in Seq(Jobs)
        /\ Len(rest) = Len(queue) - g
        /\ \A i \in 1..Len(rest) : i + g \in 1..Len(queue) /\ rest[i] = queue[i + g]
    BY <1>1, <1>4, RestOfQueue
  <1>6. Fits(rest, p, running - 1 + g)
    BY <1>2, <1>4, DrainFits
  <1>7. \A k \in Granted(queue, g) : pc[k] = "waiting"
    BY <1>4, GrantedWaits DEF Good
  <1>8. \A k \in Jobs : p[k] = IF k \in Granted(queue, g) THEN "slot" ELSE IF k = j THEN "out" ELSE pc[k]
    BY <1>1 DEF After
  <1>9. [Served(g) EXCEPT ![j] = "out"] = p
    BY <1>1, <1>7 DEF Served, After
  <1>10. /\ queue' = rest /\ running' = running - 1 + g /\ pc' = p /\ aborted' = aborted \ {j}
         /\ limit' = limit /\ ticket' = ticket /\ tickets' = tickets
    BY <1>9 DEF ReleaseSlot
  <1>11. rest # <<>> => running - 1 + g >= limit
    <2>1. rest # <<>> => Len(rest) # 0
      BY <1>5
    <2>. QED
      BY <2>1, <1>1, <1>4, <1>5
  <1>. HIDE DEF p0, g, rest, p
  <1>12. Ordered'
    <2>1. ASSUME NEW i \in 1..Len(rest), NEW k \in 1..Len(rest), i < k
          PROVE  ticket[rest[i]] < ticket[rest[k]]
      <3>1. i + g \in 1..Len(queue) /\ k + g \in 1..Len(queue) /\ i + g < k + g
        BY <2>1, <1>1, <1>4, <1>5
      <3>2. ticket[queue[i + g]] < ticket[queue[k + g]]
        BY <3>1 DEF Good, Ordered
      <3>. QED
        BY <3>2, <1>5
    <2>. QED
      BY <2>1, <1>10 DEF Ordered
  <1>13. Good'
    <2>1. \A i \in 1..Len(queue') : queue'[i] \notin aborted'
      BY <1>5, <1>10 DEF Good
    <2>2. Len(queue') <= MaxQueued
      BY <1>1, <1>4, <1>5, <1>10 DEF Good
    <2>. QED
      BY <1>6, <1>10, <1>11, <1>12, <2>1, <2>2 DEF Good
  <1>14. \A a \in Jobs : pc[a] # "slot" /\ pc'[a] = "slot" => a \in Granted(queue, g)
    BY <1>8, <1>10
  <1>15. \A a \in Jobs, b \in Jobs :
            pc[a] # "slot" /\ pc'[a] = "slot" /\ pc[b] = "waiting" /\ pc'[b] = "waiting"
            => ticket[b] > ticket'[a]
    <2>1. SUFFICES ASSUME NEW a \in Jobs, NEW b \in Jobs, pc[a] # "slot", pc'[a] = "slot",
                          pc'[b] = "waiting"
                   PROVE  ticket[b] > ticket'[a]
      OBVIOUS
    <2>2. PICK i \in 1..g : queue[i] = a
      BY <2>1, <1>14 DEF Granted
    <2>3. PICK k \in 1..Len(rest) : rest[k] = b
      BY <2>1, <1>6, <1>10 DEF Fits, Listed
    <2>4. k + g \in 1..Len(queue) /\ queue[k + g] = b
      BY <2>3, <1>5
    <2>9. i \in 1..Len(queue) /\ i < k + g
      BY <2>3, <1>1, <1>4, <1>5
    <2>5. ticket[queue[i]] < ticket[queue[k + g]]
      BY <2>4, <2>9 DEF Good, Ordered
    <2>. QED
      BY <2>2, <2>4, <2>5, <2>9, <1>1, <1>10
  <1>16. (\E a \in Jobs : pc[a] # "slot" /\ pc'[a] = "slot") => running' <= limit'
    <2>1. SUFFICES ASSUME NEW a \in Jobs, pc[a] # "slot", pc'[a] = "slot"
                   PROVE  running' <= limit'
      OBVIOUS
    <2>2. g > 0
      BY <2>1, <1>4, <1>14 DEF Granted
    <2>. QED
      BY <2>2, <1>4, <1>10
  <1>. QED
    BY <1>13, <1>15, <1>16

\* An answered prompt takes nothing away from anybody.
LEMMA AbortGood ==
    ASSUME PoolAssumption, Good, NEW j \in Jobs, Abort(j) \/ AbortAtOnce(j)
    PROVE  /\ Good'
           /\ \A a \in Jobs : pc'[a] = "slot" => pc[a] = "slot"
  <1>1. /\ queue \in Seq(Jobs) /\ pc \in [Jobs -> States] /\ running \in Nat
        /\ Len(queue) \in Nat /\ \A i \in 1..Len(queue) : queue[i] \in Jobs
        /\ tickets \in Nat /\ ticket \in [Jobs -> 0..tickets]
        /\ MaxQueued \in Nat
    BY DEF Good, Fits, PoolAssumption
  <1>2. CASE Abort(j) /\ pc[j] = "waiting"
    <2>1. /\ limit' = limit /\ ticket' = ticket /\ tickets' = tickets /\ aborted' = aborted
          /\ running' = running /\ pc' = [pc EXCEPT ![j] = "out"]
      BY <1>2 DEF Abort, Abandon
    <2>2. PICK i \in 1..Len(queue) : queue[i] = j /\ queue' = RemoveAt(queue, i)
      <3>1. DOMAIN queue = 1..Len(queue)
        BY <1>1
      <3>. QED
        BY <1>2, <3>1 DEF Abort, Abandon
    <2>3. /\ Fits(queue', pc', running')
          /\ Len(queue') = Len(queue) - 1
          /\ \A m \in 1..Len(queue') :
                /\ m < i => m \in 1..Len(queue) /\ queue'[m] = queue[m]
                /\ m >= i => m + 1 \in 1..Len(queue) /\ queue'[m] = queue[m + 1]
      <3>1. /\ Fits(RemoveAt(queue, i), [pc EXCEPT ![j] = "out"], running)
            /\ Len(RemoveAt(queue, i)) = Len(queue) - 1
            /\ \A m \in 1..Len(RemoveAt(queue, i)) :
                  /\ m < i => m \in 1..Len(queue) /\ RemoveAt(queue, i)[m] = queue[m]
                  /\ m >= i => m + 1 \in 1..Len(queue) /\ RemoveAt(queue, i)[m] = queue[m + 1]
        <4>1. Fits(queue, pc, running)
          BY DEF Good
        <4>. QED
          BY <2>2, <4>1, AbandonFits
      <3>. QED
        BY <3>1, <2>1, <2>2
    <2>4. \A m \in 1..Len(queue') : queue'[m] \notin aborted'
      <3>1. ASSUME NEW m \in 1..Len(queue')
            PROVE  \E c \in 1..Len(queue) : queue'[m] = queue[c]
        <4>1. m \in Int /\ i \in Int /\ (m < i \/ m >= i)
          BY <2>3, <1>1
        <4>. QED
          BY <4>1, <2>3
      <3>. QED
        BY <3>1, <2>1 DEF Good
    <2>5. Ordered'
      <3>1. ASSUME NEW a \in 1..Len(queue'), NEW b \in 1..Len(queue'), a < b
            PROVE  ticket[queue'[a]] < ticket[queue'[b]]
        <4>. DEFINE c == IF a < i THEN a ELSE a + 1
                    d == IF b < i THEN b ELSE b + 1
        <4>1. c \in 1..Len(queue) /\ d \in 1..Len(queue) /\ queue'[a] = queue[c] /\ queue'[b] = queue[d]
          <5>1. a \in Int /\ b \in Int /\ i \in Int
            BY <2>3, <1>1
          <5>2. c \in 1..Len(queue) /\ queue'[a] = queue[c]
            BY <5>1, <2>3
          <5>3. d \in 1..Len(queue) /\ queue'[b] = queue[d]
            BY <5>1, <2>3
          <5>. QED
            BY <5>2, <5>3
        <4>2. c < d
          BY <3>1, <1>1, <2>3
        <4>. HIDE DEF c, d
        <4>. QED
          BY <4>1, <4>2 DEF Good, Ordered
      <3>. QED
        BY <3>1, <2>1 DEF Ordered
    <2>6. Len(queue') <= MaxQueued
      BY <2>3, <1>1 DEF Good
    <2>7. queue' # <<>> => running' >= limit'
      <3>1. queue # <<>>
        BY <2>2, <1>1
      <3>. QED
        BY <3>1, <2>1 DEF Good
    <2>8. Good'
      BY <2>1, <2>3, <2>4, <2>5, <2>6, <2>7 DEF Good
    <2>. QED
      BY <2>1, <2>8, <1>1
  <1>3. CASE Abort(j) /\ pc[j] # "waiting"
    <2>1. /\ limit' = limit /\ ticket' = ticket /\ tickets' = tickets /\ aborted' = aborted \cup {j}
          /\ running' = running /\ pc' = pc /\ queue' = queue
      BY <1>3 DEF Abort
    <2>2. \A m \in 1..Len(queue) : queue[m] # j
      BY <1>3 DEF Good, Fits, Listed
    <2>. QED
      BY <2>1, <2>2 DEF Good, Ordered
  <1>4. CASE AbortAtOnce(j)
    <2>1. /\ limit' = limit /\ ticket' = ticket /\ tickets' = tickets
          /\ aborted' \subseteq aborted \cup {j}
          /\ running' = running /\ pc' = pc /\ queue' = queue /\ pc[j] = "out"
      BY <1>4 DEF AbortAtOnce
    <2>2. \A m \in 1..Len(queue) : queue[m] # j
      BY <2>1 DEF Good, Fits, Listed
    <2>. QED
      BY <2>1, <2>2 DEF Good, Ordered
  <1>. QED
    BY <1>2, <1>3, <1>4

\* A step keeps the invariant, overtakes nobody, and grants within the limit.
LEMMA StepGood ==
    ASSUME PoolAssumption, Good, [CPNext]_cpVars
    PROVE  /\ Good'
           /\ \A a, b \in Jobs : pc[a] # "slot" /\ pc'[a] = "slot"
                                 /\ pc[b] = "waiting" /\ pc'[b] = "waiting"
                                 => ticket[b] > ticket'[a]
           /\ Holders' \ Holders # {} => running' <= limit'
  <1>. DEFINE Keeps ==
                 /\ Good'
                 /\ \A a, b \in Jobs : pc[a] # "slot" /\ pc'[a] = "slot"
                                       /\ pc[b] = "waiting" /\ pc'[b] = "waiting"
                                       => ticket[b] > ticket'[a]
                 /\ (\E a \in Jobs : pc[a] # "slot" /\ pc'[a] = "slot") => running' <= limit'
  <1>1. Keeps
    <2>1. CASE UNCHANGED cpVars
      BY <2>1 DEF cpVars, Good, Ordered
    <2>2. ASSUME NEW j \in Jobs, NEW n \in Limits, Acquire(j, n)
          PROVE  Keeps
      BY <2>2, AcquireGood
    <2>3. ASSUME NEW j \in Jobs, ReleaseSlot(j)
          PROVE  Keeps
      BY <2>3, ReleaseGood
    <2>4. ASSUME NEW j \in Jobs, Abort(j) \/ AbortAtOnce(j)
          PROVE  Keeps
      BY <2>4, AbortGood
    <2>. QED
      BY <2>1, <2>2, <2>3, <2>4 DEF CPNext
  <1>2. Holders' \ Holders # {} => \E a \in Jobs : pc[a] # "slot" /\ pc'[a] = "slot"
    BY DEF Holders
  <1>. QED
    BY <1>1, <1>2

\* A slot is counted for exactly the jobs that hold one, the queue holds the
\* waiting jobs in order of arrival within its bound, and no slot idles while a
\* job waits; and no step overtakes a waiter or grants above the limit: for any
\* finite set of jobs and any limits (createConcurrencyPool in server/pool.ts).
THEOREM PoolIsSoundHolds == CPSpec => PoolIsSound
  <1>1. CPInit => Good
    BY InitGood, PoolAssumption
  <1>2. Good /\ [CPNext]_cpVars => Good'
    BY StepGood, PoolAssumption
  <1>3. Good /\ [CPNext]_cpVars =>
           \A j, k \in Jobs :
              /\ pc[j] # "slot" /\ pc'[j] = "slot"
              /\ pc[k] = "waiting" /\ pc'[k] = "waiting"
              => ticket[k] > ticket'[j]
    BY StepGood, PoolAssumption
  <1>4. Good /\ [CPNext]_cpVars => (Holders' \ Holders # {} => running' <= limit')
    BY StepGood, PoolAssumption
  <1>5. Good => PoolInv
    BY GoodIsPoolInv
  <1>. QED
    BY <1>1, <1>2, <1>3, <1>4, <1>5, PTL
       DEF CPSpec, PoolIsSound, NoOvertaking, GrantsWithinLimit
=============================================================================
