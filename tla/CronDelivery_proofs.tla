------------------------ MODULE CronDelivery_proofs ------------------------
(***************************************************************************)
(* Proofs about CronDelivery for any finite set of jobs and any bounds:    *)
(* the lane is serial, no prompt is dispatched into the turn of an earlier *)
(* one, only prompts reported unknown are stored out of order, and every   *)
(* step of the delivery layer is a step of DeliveryContract or a stutter.  *)
(***************************************************************************)
EXTENDS CronDelivery, FiniteSetTheorems, WellFoundedInduction, TLAPS

Attempts == {"sending", "confirming"}
Undispatchable == {"queued", "idle1", "identity", "idle2"}

\* The lane holds the jobs whose delivery was called, each once; all but the
\* head wait in the queue.
LaneInv ==
    /\ \A i, k \in 1..Len(lane) : i # k => lane[i] # lane[k]
    /\ \A j \in Jobs : at[j] # "none" <=> \E i \in 1..Len(lane) : lane[i] = j
    /\ \A i \in 2..Len(lane) : at[lane[i]] = "queued"

ProbesInv == Current + probes["stale"] <= MaxProbes

\* Deliveries that have yet to be dispatched leave room for their message IDs.
ToDispatch == {j \in Jobs : at[j] \in Undispatchable}
IdsInv == \A j \in Jobs : msgId[j] + Cardinality(ToDispatch) <= calls

Afloat(j) == msg[j] \in {"inflight", "forked"}

\* A prompt that may still be stored is being delivered, or its delivery was
\* reported unknown, which is the last one of its job.
MsgInv ==
    \A j \in Jobs :
        /\ msg[j] # "none" => msgId[j] >= 1
        /\ Afloat(j) /\ at[j] \notin Attempts => at[j] = "none" /\ answer[j] = "unknown"

\* A prompt that may still be stored behind a later-minted one is not waited for.
OrderInv ==
    /\ \A i \in 1..Len(stored) : stored[i].id <= msgId[stored[i].job]
    /\ \A j, k \in Jobs : msgId[j] < msgId[k] /\ Afloat(j) => at[j] \notin Attempts

\* The kinds of idle transitions, as far as they have been published.
Transitions == {<<>>, <<"map">>, <<"duplicate", "map">>, <<"status", "duplicate", "map">>,
                <<"status", "map">>, <<"legacy", "map">>}

\* idleEpochs counts only when the session was really seen idle, or when it is
\* closed; and a turn that a delivery opened keeps the mark up and the lane shut.
IdleInv ==
    /\ \A j \in Jobs : at[j] \in Attempts /\ epochAt[j] # idleEpoch => j \in shown
    /\ closed # "no" => shown = Jobs /\ removed = Jobs /\ ~open
    /\ open => mark # "none" /\ \A j \in Jobs : at[j] \in {"none", "queued"}
    /\ publishing \in Transitions
    /\ publishing = <<"duplicate", "map">> => suppress \/ closed # "no"

IInv ==
    /\ TypeOK /\ LaneInv /\ ProbesInv /\ IdsInv /\ MsgInv /\ OrderInv /\ OutOfOrderIsUnknown
    /\ IdleInv
-----------------------------------------------------------------------------
(* Facts about the operators of the module.                                *)

LEMMA SmallestOf ==
    ASSUME NEW S \in SUBSET Nat, S # {}
    PROVE  \E x \in S : \A y \in S : x <= y
  <1>1. PICK x \in S : \A y \in S : ~(<<y, x>> \in OpToRel(<, Nat))
    BY NatLessThanWellFounded, WFMin, Zenon
  <1>2. x \in Nat /\ \A y \in S : y \in Nat /\ ~(y < x)
    BY <1>1, Zenon DEF OpToRel
  <1> QED
    BY <1>2

\* A bounded set of naturals has a largest element.
LEMMA LargestOf ==
    ASSUME NEW S, NEW n \in Nat, S \subseteq 0..n, S # {}
    PROVE  \E x \in S : \A y \in S : y <= x
  <1> DEFINE T == {n - y : y \in S}
  <1>1. T \in SUBSET Nat /\ T # {}
    <2>1. \A y \in S : y \in 0..n /\ n - y \in Nat
      OBVIOUS
    <2> QED
      BY <2>1
  <1>2. PICK t \in T : \A u \in T : t <= u
    BY <1>1, SmallestOf
  <1>3. PICK x \in S : t = n - x
    OBVIOUS
  <1>4. ASSUME NEW y \in S PROVE y <= x
    <2>1. n - y \in T /\ t <= n - y
      BY <1>2
    <2> QED
      BY <1>3, <2>1
  <1> QED
    BY <1>4

\* The next message ID is one above those minted so far.
LEMMA NextIdFacts ==
    ASSUME TypeOK, Jobs # {}
    PROVE  /\ NextId \in Nat /\ NextId >= 1
           /\ \A j \in Jobs : msgId[j] < NextId
           /\ \E j \in Jobs : NextId = 1 + msgId[j]
  <1> DEFINE S == {msgId[j] : j \in Jobs}
  <1>1. S \subseteq 0..MaxCalls /\ S # {} /\ MaxCalls \in Nat
    BY DeliveryAssumption DEF TypeOK
  <1>2. \E x \in S : \A y \in S : y <= x
    BY <1>1, LargestOf
  <1>3. \E x \in S : \A j \in Jobs : msgId[j] <= x
    BY <1>2
  <1> DEFINE m == CHOOSE n \in S : \A j \in Jobs : msgId[j] <= n
  <1>4. m \in S /\ \A j \in Jobs : msgId[j] <= m
    BY <1>3
  <1> HIDE DEF m
  <1>5. CASE \A j \in Jobs : msgId[j] = 0
    BY <1>5 DEF NextId
  <1>6. CASE ~\A j \in Jobs : msgId[j] = 0
    <2>1. NextId = 1 + m
      BY <1>6 DEF NextId, m
    <2>2. PICK k \in Jobs : m = msgId[k]
      BY <1>4
    <2>3. \A j \in Jobs : msgId[j] \in Nat /\ msgId[j] <= msgId[k]
      BY <1>4, <2>2, DeliveryAssumption DEF TypeOK
    <2> QED
      BY <2>1, <2>2, <2>3
  <1> QED
    BY <1>5, <1>6

LEMMA ToDispatchFinite ==
    IsFiniteSet(ToDispatch) /\ Cardinality(ToDispatch) \in Nat
  BY DeliveryAssumption, FS_Subset, FS_CardinalityType DEF ToDispatch

\* Only the head of the lane is past the queue.
LEMMA OthersWait ==
    ASSUME TypeOK, LaneInv, NEW j \in Jobs, NEW place, place # "none", Running(j, place)
    PROVE  \A k \in Jobs \ {j} : at[k] \in {"none", "queued"}
  <1>1. lane \in Seq(Jobs) /\ lane # <<>> /\ lane[1] = j
    BY DEF TypeOK, Running
  <1>2. ASSUME NEW k \in Jobs \ {j}, at[k] # "none" PROVE at[k] = "queued"
    <2>1. PICK i \in 1..Len(lane) : lane[i] = k
      BY <1>2 DEF LaneInv
    <2>2. i \in 2..Len(lane)
      BY <1>1, <1>2, <2>1
    <2> QED
      BY <2>1, <2>2 DEF LaneInv
  <1> QED
    BY <1>2

LEMMA ReturnsFacts ==
    ASSUME TypeOK, LaneInv, NEW j \in Jobs, NEW place, place # "none", Running(j, place),
           NEW outcome \in {"delivered", "deferred", "rejected", "unknown"},
           Returns(j, outcome)
    PROVE  /\ lane' \in Seq(Jobs)
           /\ at' \in [Jobs -> Places]
           /\ answer' \in [Jobs -> {"none", "delivered", "deferred", "rejected", "unknown"}]
           /\ at'[j] = "none" /\ answer'[j] = outcome
           /\ \A k \in Jobs \ {j} : at'[k] = at[k] /\ answer'[k] = answer[k]
           /\ \A k \in Jobs : at'[k] \in {"none", "queued"}
           /\ LaneInv'
  <1>1. /\ lane \in Seq(Jobs) /\ lane # <<>> /\ lane[1] = j
        /\ lane' = Tail(lane) /\ at' = [at EXCEPT ![j] = "none"]
        /\ answer' = [answer EXCEPT ![j] = outcome]
    BY DEF TypeOK, Running, Returns
  <1>2. /\ Len(lane') = Len(lane) - 1
        /\ \A i \in 1..Len(lane') : lane'[i] = lane[i + 1]
        /\ lane' \in Seq(Jobs)
    BY <1>1
  <1>3. at' \in [Jobs -> Places] /\ at'[j] = "none" /\ \A k \in Jobs \ {j} : at'[k] = at[k]
    BY <1>1 DEF TypeOK, Places
  <1>4. \A k \in Jobs : at'[k] \in {"none", "queued"}
    BY <1>3, OthersWait
  <1>5. \A i, k \in 1..Len(lane') : i # k => lane'[i] # lane'[k]
    BY <1>1, <1>2 DEF LaneInv
  <1>6. \A k \in Jobs : at'[k] # "none" <=> \E i \in 1..Len(lane') : lane'[i] = k
    <2> TAKE k \in Jobs
    <2>1. CASE k = j
      BY <2>1, <1>1, <1>2, <1>3 DEF LaneInv
    <2>2. CASE k # j
      <3>1. at[k] # "none" <=> \E i \in 2..Len(lane) : lane[i] = k
        BY <2>2, <1>1 DEF LaneInv
      <3>2. (\E i \in 2..Len(lane) : lane[i] = k) <=> \E i \in 1..Len(lane') : lane'[i] = k
        <4>1. ASSUME NEW i \in 2..Len(lane), lane[i] = k
              PROVE  \E n \in 1..Len(lane') : lane'[n] = k
          <5>1. i - 1 \in 1..Len(lane') /\ lane'[i - 1] = k
            BY <4>1, <1>1, <1>2
          <5> QED
            BY <5>1
        <4>2. ASSUME NEW i \in 1..Len(lane'), lane'[i] = k
              PROVE  \E n \in 2..Len(lane) : lane[n] = k
          <5>1. i + 1 \in 2..Len(lane) /\ lane[i + 1] = k
            BY <4>2, <1>1, <1>2
          <5> QED
            BY <5>1
        <4> QED
          BY <4>1, <4>2
      <3> QED
        BY <2>2, <3>1, <3>2, <1>3
    <2> QED
      BY <2>1, <2>2
  <1>7. \A i \in 2..Len(lane') : at'[lane'[i]] = "queued"
    <2> TAKE i \in 2..Len(lane')
    <2>1. i + 1 \in 2..Len(lane) /\ lane'[i] = lane[i + 1] /\ lane[i + 1] # j /\ lane[i + 1] \in Jobs
      BY <1>1, <1>2 DEF LaneInv
    <2> QED
      BY <2>1, <1>3 DEF LaneInv
  <1> QED
    BY <1>1, <1>2, <1>3, <1>4, <1>5, <1>6, <1>7 DEF LaneInv, TypeOK

LEMMA MovesFacts ==
    ASSUME TypeOK, LaneInv, NEW j \in Jobs, NEW from, from # "none", Running(j, from),
           NEW place \in Places \ {"none"},
           Moves(j, place)
    PROVE  /\ lane' \in Seq(Jobs)
           /\ at' \in [Jobs -> Places]
           /\ answer' = answer
           /\ at'[j] = place
           /\ \A k \in Jobs \ {j} : at'[k] = at[k] /\ at'[k] \in {"none", "queued"}
           /\ LaneInv'
  <1>1. /\ lane \in Seq(Jobs) /\ lane # <<>> /\ lane[1] = j
        /\ lane' = lane /\ at' = [at EXCEPT ![j] = place] /\ answer' = answer
    BY DEF TypeOK, Running, Moves
  <1>2. at' \in [Jobs -> Places] /\ at'[j] = place /\ \A k \in Jobs \ {j} : at'[k] = at[k]
    BY <1>1 DEF TypeOK
  <1>3. at[j] # "none"
    BY DEF Running
  <1>4. \A i \in 2..Len(lane) : lane[i] \in Jobs /\ lane[i] # j
    BY <1>1 DEF LaneInv
  <1>5. LaneInv'
    BY <1>1, <1>2, <1>3, <1>4 DEF LaneInv
  <1> QED
    BY <1>1, <1>2, <1>5, OthersWait
-----------------------------------------------------------------------------
(* What the steps of a delivery do to the lane and to the prompts.         *)

DeliveryPart == LaneInv /\ IdsInv /\ MsgInv /\ OrderInv /\ OutOfOrderIsUnknown
ActivityPart == ProbesInv /\ IdleInv

LEMMA Parts ==
    /\ IInv <=> TypeOK /\ DeliveryPart /\ ActivityPart
    /\ IInv' <=> TypeOK' /\ DeliveryPart' /\ ActivityPart'
  BY DEF IInv, DeliveryPart, ActivityPart

LEMMA StoredFacts ==
    ASSUME TypeOK, NEW i \in 1..Len(stored)
    PROVE  stored[i].job \in Jobs /\ stored[i].id \in 1..MaxCalls
  <1> DEFINE R == [id : 1..MaxCalls, job : Jobs]
  <1>1. stored \in Seq(R)
    BY DEF TypeOK
  <1> HIDE DEF R
  <1>2. stored[i] \in R
    BY <1>1
  <1> QED
    BY <1>2 DEF R

\* A new mark, or none, leaves only stale reads, as many as there were.
LEMMA NewMarkFacts ==
    ASSUME TypeOK, ProbesInv, NEW m \in {"none", "off"}, NewMark(m)
    PROVE  /\ mark' = m /\ mark' \in {"none", "off", "armed"}
           /\ probes' \in [ProbeKinds -> 0..MaxProbes]
           /\ ProbesInv'
  <1>1. /\ probes["clean"] \in Nat /\ probes["overtaken"] \in Nat /\ probes["stale"] \in Nat
        /\ MaxProbes \in Nat
    BY DeliveryAssumption DEF TypeOK, ProbeKinds
  <1> DEFINE n == Current + probes["stale"]
  <1>2. n \in 0..MaxProbes
    BY <1>1 DEF ProbesInv, Current
  <1>3. probes' = [[kind \in ProbeKinds |-> 0] EXCEPT !["stale"] = n] /\ mark' = m
    BY DEF NewMark, NoProbes
  <1> HIDE DEF n
  <1>4. /\ probes'["clean"] = 0 /\ probes'["overtaken"] = 0 /\ probes'["stale"] = n
        /\ probes' \in [ProbeKinds -> 0..MaxProbes]
    BY <1>1, <1>2, <1>3 DEF ProbeKinds
  <1>5. Current' + probes'["stale"] = n
    BY <1>2, <1>4 DEF Current
  <1> QED
    BY <1>2, <1>3, <1>4, <1>5 DEF ProbesInv

LEMMA DeliveryFrame ==
    ASSUME DeliveryPart, UNCHANGED <<lane, at, answer, prompts, calls>>
    PROVE  DeliveryPart'
  BY DEF DeliveryPart, LaneInv, IdsInv, ToDispatch, MsgInv, OrderInv, OutOfOrderIsUnknown,
         Afloat, prompts

LEMMA ActivityFrame ==
    ASSUME ActivityPart, UNCHANGED <<at, epochAt, removed, activity, publishing>>
    PROVE  ActivityPart'
  BY DEF ActivityPart, ProbesInv, Current, IdleInv, activity

\* Fewer deliveries to dispatch need fewer message IDs.
LEMMA IdsFrame ==
    ASSUME TypeOK, IdsInv, msgId' = msgId, calls' = calls, ToDispatch' \subseteq ToDispatch
    PROVE  IdsInv'
  <1>1. Cardinality(ToDispatch') <= Cardinality(ToDispatch) /\ Cardinality(ToDispatch') \in Nat
    BY ToDispatchFinite, FS_Subset, FS_CardinalityType
  <1> QED
    BY <1>1, ToDispatchFinite, DeliveryAssumption DEF IdsInv, TypeOK

LEMMA ReturnKeeps ==
    ASSUME TypeOK, DeliveryPart, NEW j \in Jobs, NEW place \in Places \ {"none"}, Running(j, place),
           NEW outcome \in {"delivered", "deferred", "rejected", "unknown"},
           Returns(j, outcome),
           place \in Attempts /\ Afloat(j) => outcome = "unknown",
           UNCHANGED <<prompts, calls>>
    PROVE  DeliveryPart'
  <1>1. /\ at'[j] = "none" /\ answer'[j] = outcome
        /\ \A k \in Jobs \ {j} : at'[k] = at[k] /\ answer'[k] = answer[k]
        /\ \A k \in Jobs : at'[k] \in {"none", "queued"}
        /\ LaneInv'
    BY ReturnsFacts DEF DeliveryPart
  <1>2. at[j] = place /\ msg' = msg /\ msgId' = msgId /\ stored' = stored /\ calls' = calls
    BY DEF Running, prompts
  <1>3. IdsInv'
    <2>1. ToDispatch' \subseteq ToDispatch
      BY <1>1 DEF ToDispatch, Undispatchable
    <2> QED
      BY <1>2, <2>1, IdsFrame DEF DeliveryPart
  <1>4. MsgInv'
    <2>1. Afloat(j) => outcome = "unknown"
      BY <1>2 DEF DeliveryPart, MsgInv
    <2> QED
      BY <1>1, <1>2, <2>1 DEF DeliveryPart, MsgInv, Afloat, Attempts
  <1>5. OrderInv'
    BY <1>1, <1>2 DEF DeliveryPart, OrderInv, Afloat, Attempts
  <1>6. OutOfOrderIsUnknown'
    <2>1. \A i \in 1..Len(stored) : stored[i].job \in Jobs
      BY StoredFacts
    <2> QED
      BY <1>1, <1>2, <2>1 DEF DeliveryPart, OutOfOrderIsUnknown
  <1> QED
    BY <1>1, <1>3, <1>4, <1>5, <1>6 DEF DeliveryPart

LEMMA MoveKeeps ==
    ASSUME TypeOK, DeliveryPart, NEW j \in Jobs,
           NEW from \in Places \ {"none"}, Running(j, from),
           NEW place \in Places \ {"none"}, Moves(j, place),
           from \in Attempts <=> place \in Attempts,
           UNCHANGED <<prompts, calls>>
    PROVE  DeliveryPart'
  <1>1. /\ answer' = answer /\ at'[j] = place
        /\ \A k \in Jobs \ {j} : at'[k] = at[k]
        /\ LaneInv'
    BY MovesFacts DEF DeliveryPart
  <1>2. at[j] = from /\ msg' = msg /\ msgId' = msgId /\ stored' = stored /\ calls' = calls
    BY DEF Running, prompts
  <1>3. IdsInv'
    <2>1. ToDispatch' \subseteq ToDispatch
      BY <1>1, <1>2 DEF ToDispatch, Undispatchable, Attempts, Places
    <2> QED
      BY <1>2, <2>1, IdsFrame DEF DeliveryPart
  <1>4. MsgInv'
    BY <1>1, <1>2 DEF DeliveryPart, MsgInv, Afloat
  <1>5. OrderInv'
    BY <1>1, <1>2 DEF DeliveryPart, OrderInv, Afloat
  <1>6. OutOfOrderIsUnknown'
    <2>1. \A i \in 1..Len(stored) : stored[i].job \in Jobs
      BY StoredFacts
    <2> QED
      BY <1>1, <1>2, <2>1 DEF DeliveryPart, OutOfOrderIsUnknown
  <1> QED
    BY <1>1, <1>3, <1>4, <1>5, <1>6 DEF DeliveryPart

\* The prompt goes out under the highest ID so far.
LEMMA DispatchKeeps ==
    ASSUME TypeOK, DeliveryPart, NEW j \in Jobs, NEW from \in {"identity", "idle2"},
           Running(j, from), Moves(j, "sending"),
           msg' = [msg EXCEPT ![j] = "inflight"], msgId' = [msgId EXCEPT ![j] = NextId],
           UNCHANGED <<stored, calls>>
    PROVE  DeliveryPart' /\ msgId' \in [Jobs -> 0..MaxCalls]
  <1>1. /\ answer' = answer /\ at'[j] = "sending" /\ at[j] = from
        /\ \A k \in Jobs \ {j} : at'[k] = at[k] /\ at'[k] \in {"none", "queued"}
        /\ LaneInv'
    BY MovesFacts DEF DeliveryPart, Running, Places
  <1>2. /\ NextId \in Nat /\ NextId >= 1
        /\ \A k \in Jobs : msgId[k] < NextId
        /\ \E k \in Jobs : NextId = 1 + msgId[k]
    BY NextIdFacts
  <1>3. /\ msgId'[j] = NextId /\ \A k \in Jobs \ {j} : msgId'[k] = msgId[k]
        /\ msg'[j] = "inflight" /\ \A k \in Jobs \ {j} : msg'[k] = msg[k]
        /\ \A k \in Jobs : msgId[k] \in Nat
        /\ calls \in 0..MaxCalls /\ MaxCalls \in Nat
    BY DeliveryAssumption DEF TypeOK
  <1>4. /\ ToDispatch' = ToDispatch \ {j} /\ j \in ToDispatch
        /\ Cardinality(ToDispatch') = Cardinality(ToDispatch) - 1
        /\ Cardinality(ToDispatch') \in Nat
    <2>1. ToDispatch' = ToDispatch \ {j} /\ j \in ToDispatch
      BY <1>1 DEF ToDispatch, Undispatchable
    <2> QED
      BY <2>1, ToDispatchFinite, FS_RemoveElement, FS_CardinalityType
  <1>5. NextId + Cardinality(ToDispatch') <= calls
    <2>1. PICK k \in Jobs : NextId = 1 + msgId[k]
      BY <1>2
    <2>2. msgId[k] + Cardinality(ToDispatch) <= calls
      BY DEF DeliveryPart, IdsInv
    <2> QED
      BY <2>1, <2>2, <1>3, <1>4, ToDispatchFinite
  <1>6. msgId' \in [Jobs -> 0..MaxCalls]
    <2>1. NextId \in 0..MaxCalls
      BY <1>2, <1>3, <1>4, <1>5
    <2> QED
      BY <2>1 DEF TypeOK
  <1>7. IdsInv'
    <2>1. ASSUME NEW k \in Jobs PROVE msgId'[k] + Cardinality(ToDispatch') <= calls
      <3>1. CASE k = j
        BY <3>1, <1>3, <1>5
      <3>2. CASE k # j
        BY <3>2, <1>2, <1>3, <1>4, <1>5
      <3> QED
        BY <3>1, <3>2
    <2> QED
      BY <2>1 DEF IdsInv
  <1>8. MsgInv'
    BY <1>1, <1>2, <1>3 DEF DeliveryPart, MsgInv, Afloat, Attempts
  <1>9. OrderInv'
    <2>1. \A i \in 1..Len(stored) : stored[i].job \in Jobs /\ stored[i].id \in 1..MaxCalls
      BY StoredFacts
    <2>2. \A k \in Jobs : msgId[k] <= msgId'[k]
      BY <1>2, <1>3
    <2>3. \A i \in 1..Len(stored) : stored[i].id <= msgId'[stored[i].job]
      BY <1>2, <1>3, <2>1, <2>2 DEF DeliveryPart, OrderInv
    <2>4. \A i, k \in Jobs : msgId'[i] < msgId'[k] => i # j
      BY <1>2, <1>3
    <2> QED
      BY <1>1, <2>3, <2>4 DEF OrderInv, Afloat, Attempts
  <1>10. OutOfOrderIsUnknown'
    <2>1. \A i \in 1..Len(stored) : stored[i].job \in Jobs
      BY StoredFacts
    <2> QED
      BY <1>1, <1>3, <2>1 DEF DeliveryPart, OutOfOrderIsUnknown
  <1> QED
    BY <1>1, <1>6, <1>7, <1>8, <1>9, <1>10 DEF DeliveryPart
-----------------------------------------------------------------------------
(* The invariant holds at first and every action keeps it.                 *)

LEMMA InitEstablishes == Init => IInv
  <1> SUFFICES ASSUME Init PROVE IInv
    OBVIOUS
  <1>1. TypeOK
    <2>1. lane \in Seq(Jobs) /\ stored \in Seq([id : 1..MaxCalls, job : Jobs])
          /\ publishing \in Seq({"status", "legacy", "duplicate", "map"})
      BY DEF Init
    <2>2. probes \in [ProbeKinds -> 0..MaxProbes] /\ msgId \in [Jobs -> 0..MaxCalls]
          /\ calls \in 0..MaxCalls /\ turns \in 0..MaxTurns
      BY DeliveryAssumption DEF Init, NoProbes
    <2>3. at \in [Jobs -> Places] /\ epochAt \in [Jobs -> Nat]
      BY DEF Init, Places
    <2> QED
      BY <2>1, <2>2, <2>3 DEF Init, TypeOK
  <1>2. LaneInv /\ MsgInv /\ OrderInv /\ OutOfOrderIsUnknown
    BY DEF Init, LaneInv, MsgInv, OrderInv, OutOfOrderIsUnknown, Afloat
  <1>3. IdsInv
    <2>1. ToDispatch = {}
      BY DEF Init, ToDispatch, Undispatchable
    <2> QED
      BY <2>1, FS_EmptySet DEF Init, IdsInv
  <1>4. ActivityPart
    BY DeliveryAssumption
       DEF Init, ActivityPart, ProbesInv, Current, NoProbes, ProbeKinds, IdleInv, Transitions, Attempts
  <1> QED
    BY <1>1, <1>2, <1>3, <1>4 DEF IInv, ActivityPart

LEMMA CallKeeps ==
    ASSUME IInv, NEW j \in Jobs, Call(j)
    PROVE  IInv'
  <1> USE Parts
  <1>1. /\ calls < MaxCalls /\ at[j] = "none" /\ answer[j] # "unknown" /\ calls' = calls + 1
        /\ lane' = Append(lane, j) /\ at' = [at EXCEPT ![j] = "queued"]
        /\ UNCHANGED <<epochAt, answer, removed, activity, prompts, host, turns>>
    BY DEF Call
  <1>2. lane \in Seq(Jobs) /\ at \in [Jobs -> Places] /\ calls \in 0..MaxCalls
    BY DEF TypeOK
  <1>3. at'[j] = "queued" /\ \A k \in Jobs \ {j} : at'[k] = at[k]
    BY <1>1, <1>2
  <1>4. TypeOK'
    <2>1. lane' \in Seq(Jobs) /\ at' \in [Jobs -> Places]
      BY <1>1, <1>2 DEF Places
    <2>2. calls' \in 0..MaxCalls
      BY <1>1, <1>2, DeliveryAssumption
    <2> QED
      BY <1>1, <2>1, <2>2 DEF TypeOK, activity, prompts, host
  <1>5. LaneInv'
    <2>1. /\ Len(lane') = Len(lane) + 1 /\ lane'[Len(lane) + 1] = j
          /\ \A i \in 1..Len(lane) : lane'[i] = lane[i] /\ lane[i] # j /\ lane[i] \in Jobs
      BY <1>1, <1>2 DEF DeliveryPart, LaneInv
    <2>2. \A i, k \in 1..Len(lane') : i # k => lane'[i] # lane'[k]
      BY <1>2, <2>1 DEF DeliveryPart, LaneInv
    <2>3. \A k \in Jobs : at'[k] # "none" <=> \E i \in 1..Len(lane') : lane'[i] = k
      BY <1>2, <1>3, <2>1 DEF DeliveryPart, LaneInv
    <2>4. \A i \in 2..Len(lane') : at'[lane'[i]] = "queued"
      BY <1>2, <1>3, <2>1 DEF DeliveryPart, LaneInv
    <2> QED
      BY <2>2, <2>3, <2>4 DEF LaneInv
  <1>6. IdsInv'
    <2>1. ToDispatch' = ToDispatch \cup {j} /\ j \notin ToDispatch
      BY <1>1, <1>3 DEF ToDispatch, Undispatchable
    <2>2. Cardinality(ToDispatch') = Cardinality(ToDispatch) + 1
      BY <2>1, ToDispatchFinite, FS_AddElement
    <2>3. ASSUME NEW k \in Jobs
          PROVE  msgId'[k] + Cardinality(ToDispatch') <= calls'
      <3>1. msgId[k] + Cardinality(ToDispatch) <= calls
        BY DEF DeliveryPart, IdsInv
      <3>2. msgId[k] \in Nat /\ calls \in Nat /\ Cardinality(ToDispatch) \in Nat
        BY <1>2, ToDispatchFinite, DeliveryAssumption DEF TypeOK
      <3>3. msgId' = msgId
        BY <1>1 DEF prompts
      <3> QED
        BY <1>1, <2>2, <3>1, <3>2, <3>3
    <2> QED
      BY <2>3 DEF IdsInv
  <1>7. MsgInv' /\ OrderInv'
    BY <1>1, <1>3 DEF DeliveryPart, MsgInv, OrderInv, Afloat, Attempts, prompts
  <1>8. OutOfOrderIsUnknown'
    BY <1>1, <1>3, StoredFacts DEF DeliveryPart, OutOfOrderIsUnknown, prompts
  <1>9. ActivityPart'
    BY <1>1, <1>3 DEF ActivityPart, ProbesInv, Current, IdleInv, Attempts, activity, host
  <1> QED
    BY <1>4, <1>5, <1>6, <1>7, <1>8, <1>9 DEF DeliveryPart

LEMMA RemoveKeeps ==
    ASSUME IInv, NEW j \in Jobs, Remove(j)
    PROVE  IInv'
  <1> USE Parts
  <1>1. TypeOK'
    BY DEF TypeOK, Remove, activity, prompts, host, bounds
  <1>2. DeliveryPart'
    BY DeliveryFrame DEF Remove, bounds
  <1>3. ActivityPart'
    BY DEF Remove, ActivityPart, ProbesInv, Current, IdleInv, activity, host
  <1> QED
    BY <1>1, <1>2, <1>3

\* A step of a delivery that neither dispatches nor touches the session.
LEMMA PlainStep ==
    ASSUME IInv, NEW j \in Jobs, NEW from \in Places \ {"none"}, Running(j, from),
           \/ \E outcome \in {"delivered", "deferred", "rejected", "unknown"} :
                 /\ Returns(j, outcome)
                 /\ from \in Attempts /\ Afloat(j) => outcome = "unknown"
           \/ \E place \in Places \ {"none"} :
                 /\ Moves(j, place) /\ (from \in Attempts <=> place \in Attempts)
                 /\ place = "queued" \/ ~open,
           UNCHANGED <<epochAt, removed, activity, prompts, host, bounds>>
    PROVE  IInv'
  <1> USE Parts
  <1>1. UNCHANGED <<epochAt, removed, mark, probes, idleEpoch, suppress, observed, closed,
                    shown, open, msg, msgId, stored, map, publishing, calls, turns>>
    BY DEF activity, prompts, host, bounds
  <1>2. at[j] = from
    BY DEF Running
  <1>3. CASE \E outcome \in {"delivered", "deferred", "rejected", "unknown"} :
                /\ Returns(j, outcome)
                /\ from \in Attempts /\ Afloat(j) => outcome = "unknown"
    <2>1. PICK outcome \in {"delivered", "deferred", "rejected", "unknown"} :
                /\ Returns(j, outcome)
                /\ from \in Attempts /\ Afloat(j) => outcome = "unknown"
      BY <1>3
    <2>2. DeliveryPart'
      BY <2>1, <1>1, ReturnKeeps DEF prompts
    <2>3. /\ lane' \in Seq(Jobs) /\ at' \in [Jobs -> Places]
          /\ answer' \in [Jobs -> {"none", "delivered", "deferred", "rejected", "unknown"}]
          /\ \A k \in Jobs : at'[k] \in {"none", "queued"}
      BY <2>1, ReturnsFacts DEF DeliveryPart
    <2>4. TypeOK'
      BY <1>1, <2>3 DEF TypeOK
    <2>5. ActivityPart'
      BY <1>1, <2>3 DEF ActivityPart, ProbesInv, Current, IdleInv, Attempts
    <2> QED
      BY <2>2, <2>4, <2>5
  <1>4. CASE \E place \in Places \ {"none"} :
                /\ Moves(j, place) /\ (from \in Attempts <=> place \in Attempts)
                /\ place = "queued" \/ ~open
    <2>1. PICK place \in Places \ {"none"} :
                /\ Moves(j, place) /\ (from \in Attempts <=> place \in Attempts)
                /\ place = "queued" \/ ~open
      BY <1>4
    <2>2. DeliveryPart'
      BY <2>1, <1>1, MoveKeeps DEF prompts
    <2>3. /\ lane' \in Seq(Jobs) /\ at' \in [Jobs -> Places] /\ answer' = answer
          /\ at'[j] = place /\ \A k \in Jobs \ {j} : at'[k] = at[k] /\ at'[k] \in {"none", "queued"}
      BY <2>1, MovesFacts DEF DeliveryPart
    <2>4. TypeOK'
      BY <1>1, <2>3 DEF TypeOK
    <2>5. ActivityPart'
      BY <1>1, <1>2, <2>1, <2>3 DEF ActivityPart, ProbesInv, Current, IdleInv, Attempts
    <2> QED
      BY <2>2, <2>4, <2>5
  <1> QED
    BY <1>3, <1>4

LEMMA StartKeeps ==
    ASSUME IInv, NEW j \in Jobs, Start(j)
    PROVE  IInv'
  <1> USE Parts
  <1>1. /\ Running(j, "queued")
        /\ UNCHANGED <<epochAt, removed, probes, idleEpoch, suppress, observed, closed,
                       shown, open, prompts, host, bounds>>
    BY DEF Start
  <1>2. CASE HeldBack
    <2>1. mark' = Watched /\ Returns(j, "deferred") /\ mark # "none"
      BY <1>2 DEF Start, HeldBack
    <2>2. /\ lane' \in Seq(Jobs) /\ at' \in [Jobs -> Places]
          /\ answer' \in [Jobs -> {"none", "delivered", "deferred", "rejected", "unknown"}]
          /\ \A k \in Jobs : at'[k] \in {"none", "queued"}
      BY <1>1, <2>1, ReturnsFacts DEF DeliveryPart
    <2>3. DeliveryPart'
      BY <1>1, <2>1, ReturnKeeps DEF Places, Attempts, bounds
    <2>4. mark' \in {"off", "armed"}
      BY <2>1 DEF Watched, TypeOK
    <2>5. TypeOK'
      BY <1>1, <2>2, <2>4 DEF TypeOK, prompts, host, bounds
    <2>6. ActivityPart'
      BY <1>1, <2>2, <2>4 DEF ActivityPart, ProbesInv, Current, IdleInv, Attempts, host
    <2> QED
      BY <2>3, <2>5, <2>6
  <1>3. CASE ~HeldBack
    <2>1. ~open
      BY <1>3 DEF HeldBack, ActivityPart, IdleInv
    <2>2. /\ UNCHANGED mark
          /\ Returns(j, "deferred") \/ Moves(j, "identity") \/ Moves(j, "idle1")
      BY <1>3 DEF Start, TypeOK
    <2> QED
      BY <1>1, <2>1, <2>2, PlainStep DEF Places, Attempts, activity
  <1> QED
    BY <1>2, <1>3

LEMMA FirstIdleCheckKeeps ==
    ASSUME IInv, NEW j \in Jobs, FirstIdleCheck(j)
    PROVE  IInv'
  <1>1. ~open
    BY DEF IInv, IdleInv, FirstIdleCheck, Running
  <1>2. Moves(j, "identity") \/ Returns(j, "deferred")
    BY DEF FirstIdleCheck
  <1> QED
    BY <1>1, <1>2, PlainStep DEF FirstIdleCheck, Places, Attempts

LEMMA DispatchStep ==
    ASSUME IInv, NEW j \in Jobs, NEW from \in {"identity", "idle2"}, Running(j, from), Dispatch(j),
           UNCHANGED <<removed, mark, probes, idleEpoch, suppress, observed, closed,
                       open, host, bounds>>
    PROVE  IInv'
  <1> USE Parts
  <1>1. CASE j \in removed
    <2>1. Returns(j, "rejected") /\ UNCHANGED <<epochAt, shown, prompts>>
      BY <1>1 DEF Dispatch
    <2> QED
      BY <2>1, PlainStep DEF Places, Attempts, activity
  <1>2. CASE j \notin removed
    <2>1. /\ Moves(j, "sending")
          /\ epochAt' = [epochAt EXCEPT ![j] = idleEpoch]
          /\ shown' = shown \ {j}
          /\ msg' = [msg EXCEPT ![j] = "inflight"]
          /\ msgId' = [msgId EXCEPT ![j] = NextId]
          /\ UNCHANGED stored
      BY <1>2 DEF Dispatch
    <2>2. DeliveryPart' /\ msgId' \in [Jobs -> 0..MaxCalls]
      BY <2>1, DispatchKeeps DEF bounds
    <2>3. /\ lane' \in Seq(Jobs) /\ at' \in [Jobs -> Places] /\ answer' = answer
          /\ at'[j] = "sending"
          /\ \A k \in Jobs \ {j} : at'[k] = at[k] /\ at'[k] \in {"none", "queued"}
      BY <2>1, MovesFacts DEF DeliveryPart, Places
    <2>4. TypeOK'
      BY <2>1, <2>2, <2>3 DEF TypeOK, host, bounds
    <2>5. ~open /\ closed = "no" /\ epochAt'[j] = idleEpoch
      BY <1>2, <2>1 DEF Running, ActivityPart, IdleInv, TypeOK
    <2>6. ActivityPart'
      BY <2>1, <2>3, <2>5 DEF ActivityPart, ProbesInv, Current, IdleInv, Attempts, host
    <2> QED
      BY <2>2, <2>4, <2>6
  <1> QED
    BY <1>1, <1>2

LEMMA IdentityReadKeeps ==
    ASSUME IInv, NEW j \in Jobs, IdentityRead(j)
    PROVE  IInv'
  <1>1. /\ Running(j, "identity") /\ ~open
        /\ UNCHANGED <<removed, mark, probes, idleEpoch, suppress, observed, closed,
                       open, host, bounds>>
    BY DEF IdentityRead, Running, IInv, IdleInv
  <1>2. \/ Dispatch(j)
        \/ /\ Undispatched
           /\ Returns(j, "rejected") \/ Returns(j, "deferred") \/ Moves(j, "idle2")
    BY DEF IdentityRead, IInv, TypeOK
  <1>3. CASE Dispatch(j)
    BY <1>1, <1>3, DispatchStep
  <1>4. CASE /\ Undispatched
             /\ Returns(j, "rejected") \/ Returns(j, "deferred") \/ Moves(j, "idle2")
    BY <1>1, <1>4, PlainStep DEF Undispatched, Places, Attempts, activity
  <1> QED
    BY <1>2, <1>3, <1>4

LEMMA SecondIdleCheckKeeps ==
    ASSUME IInv, NEW j \in Jobs, SecondIdleCheck(j)
    PROVE  IInv'
  <1>1. /\ Running(j, "idle2")
        /\ UNCHANGED <<removed, mark, probes, idleEpoch, suppress, observed, closed,
                       open, host, bounds>>
    BY DEF SecondIdleCheck
  <1>2. Dispatch(j) \/ (Returns(j, "deferred") /\ Undispatched)
    BY DEF SecondIdleCheck
  <1>3. CASE Dispatch(j)
    BY <1>1, <1>3, DispatchStep
  <1>4. CASE Returns(j, "deferred") /\ Undispatched
    BY <1>1, <1>4, PlainStep DEF Undispatched, Places, Attempts, activity
  <1> QED
    BY <1>2, <1>3, <1>4

LEMMA PromptReturnsKeeps ==
    ASSUME IInv, NEW j \in Jobs, PromptReturns(j)
    PROVE  IInv'
  <1>1. Running(j, "sending") /\ ~open
    BY DEF PromptReturns, Running, IInv, IdleInv
  <1>2. Moves(j, "confirming") \/ (msg[j] = "refused" /\ Returns(j, "rejected"))
    BY DEF PromptReturns, AfterFailure
  <1> QED
    BY <1>1, <1>2, PlainStep DEF PromptReturns, Places, Attempts, Afloat

LEMMA GivesUpKeeps ==
    ASSUME IInv, NEW j \in Jobs, GivesUp(j)
    PROVE  IInv'
  BY PlainStep DEF GivesUp, Places, Attempts

\* Either the session was seen idle since the dispatch, or it is marked now.
LEMMA ConfirmedKeeps ==
    ASSUME IInv, NEW j \in Jobs, Confirmed(j)
    PROVE  IInv'
  <1> USE Parts
  <1>1. /\ Running(j, "confirming") /\ msg[j] = "stored" /\ Returns(j, "delivered")
        /\ open' = (j \notin shown)
        /\ UNCHANGED <<epochAt, removed, idleEpoch, suppress, observed, closed, shown,
                       prompts, host, bounds>>
    BY DEF Confirmed
  <1>2. DeliveryPart'
    BY <1>1, ReturnKeeps DEF Places, Afloat, bounds
  <1>3. /\ lane' \in Seq(Jobs) /\ at' \in [Jobs -> Places]
        /\ answer' \in [Jobs -> {"none", "delivered", "deferred", "rejected", "unknown"}]
        /\ \A k \in Jobs : at'[k] \in {"none", "queued"}
    BY <1>1, ReturnsFacts DEF DeliveryPart, Places
  <1>4. /\ mark' \in {"none", "off", "armed"}
        /\ probes' \in [ProbeKinds -> 0..MaxProbes]
        /\ ProbesInv'
        /\ j \notin shown => mark' = "off"
    <2>1. CASE NoIdleSince(j)
      BY <2>1, NewMarkFacts DEF Confirmed, ActivityPart
    <2>2. CASE ~NoIdleSince(j)
      <3>1. j \in shown
        BY <1>1, <2>2 DEF NoIdleSince, Running, ActivityPart, IdleInv, Attempts
      <3> QED
        BY <2>2, <3>1 DEF Confirmed, TypeOK, ActivityPart, ProbesInv, Current
    <2> QED
      BY <2>1, <2>2
  <1>5. TypeOK'
    BY <1>1, <1>3, <1>4 DEF TypeOK, prompts, host, bounds
  <1>6. IdleInv'
    BY <1>1, <1>3, <1>4 DEF ActivityPart, IdleInv, Attempts, host
  <1> QED
    BY <1>2, <1>4, <1>5, <1>6 DEF ActivityPart

LEMMA TransitionsAreSeqs == Transitions \subseteq Seq({"status", "legacy", "duplicate", "map"})
  <1> DEFINE K == {"status", "legacy", "duplicate", "map"}
  <1>1. <<>> \in Seq(K) /\ <<"map">> \in Seq(K)
    OBVIOUS
  <1>2. <<"duplicate", "map">> \in Seq(K) /\ <<"status", "map">> \in Seq(K) /\ <<"legacy", "map">> \in Seq(K)
    OBVIOUS
  <1>3. <<"status", "duplicate", "map">> \in Seq(K)
    OBVIOUS
  <1> HIDE DEF K
  <1>4. Transitions \subseteq Seq(K)
    BY <1>1, <1>2, <1>3, Zenon DEF Transitions
  <1> QED
    BY <1>4 DEF K

\* What the watchdog or an event may do to the session.
LEMMA SessionStep ==
    ASSUME IInv, UNCHANGED <<delivery, prompts, calls>>,
           mark' \in {"none", "off", "armed"},
           probes' \in [ProbeKinds -> 0..MaxProbes],
           ProbesInv',
           idleEpoch' \in Nat,
           suppress' \in BOOLEAN,
           observed' \in {"unseen", "idle", "busy"},
           map' \in {"idle", "busy"},
           publishing' \in Transitions,
           turns' \in 0..MaxTurns,
           closed' = closed,
           \/ shown' = shown /\ open' = open /\ (idleEpoch' = idleEpoch \/ shown = Jobs)
              /\ (open => mark' # "none")
           \/ shown' = Jobs /\ open' = FALSE,
           publishing' = <<"duplicate", "map">> => suppress' \/ closed # "no"
    PROVE  IInv'
  <1> USE Parts
  <1>1. UNCHANGED <<lane, at, epochAt, answer, removed, msg, msgId, stored>>
    BY DEF delivery, prompts
  <1>2. DeliveryPart'
    BY <1>1, DeliveryFrame DEF prompts
  <1>3. publishing' \in Seq({"status", "legacy", "duplicate", "map"})
    BY TransitionsAreSeqs
  <1>4. TypeOK'
    BY <1>1, <1>3 DEF TypeOK
  <1>5. ActivityPart'
    BY <1>1 DEF ActivityPart, IdleInv, TypeOK
  <1> QED
    BY <1>2, <1>4, <1>5

LEMMA Facts ==
    ASSUME IInv
    PROVE  /\ TypeOK /\ ProbesInv /\ IdleInv
           /\ mark \in {"none", "off", "armed"} /\ idleEpoch \in Nat /\ suppress \in BOOLEAN
           /\ observed \in {"unseen", "idle", "busy"} /\ map \in {"idle", "busy"}
           /\ publishing \in Transitions /\ turns \in 0..MaxTurns
           /\ probes \in [ProbeKinds -> 0..MaxProbes]
           /\ open => mark # "none"
           /\ open \in BOOLEAN
           /\ publishing = <<"duplicate", "map">> => suppress \/ closed # "no"
  BY DEF IInv, TypeOK, IdleInv

LEMMA ProbeFacts ==
    ASSUME IInv
    PROVE  /\ MaxProbes \in Nat
           /\ \A kind \in ProbeKinds : probes[kind] \in 0..MaxProbes
           /\ Current + probes["stale"] <= MaxProbes
           /\ Current = probes["clean"] + probes["overtaken"]
           /\ {"clean", "overtaken", "stale"} = ProbeKinds
  BY DeliveryAssumption DEF IInv, TypeOK, ProbesInv, Current, ProbeKinds

LEMMA OvertakenFacts ==
    ASSUME IInv, probes' = Overtaken
    PROVE  probes' \in [ProbeKinds -> 0..MaxProbes] /\ ProbesInv'
  <1>1. /\ probes \in [ProbeKinds -> 0..MaxProbes]
        /\ probes' = [probes EXCEPT !["clean"] = 0, !["overtaken"] = Current]
    BY Facts DEF Overtaken
  <1>2. /\ probes'["clean"] = 0 /\ probes'["overtaken"] = Current
        /\ probes'["stale"] = probes["stale"]
        /\ probes' \in [ProbeKinds -> 0..MaxProbes]
    BY <1>1, ProbeFacts
  <1> QED
    BY <1>2, ProbeFacts DEF ProbesInv, Current

LEMMA WatchdogFiresKeeps ==
    ASSUME IInv, WatchdogFires
    PROVE  IInv'
  <1>1. probes' = [probes EXCEPT !["clean"] = probes["clean"] + 1]
        /\ Current + probes["stale"] < MaxProbes
    BY DEF WatchdogFires
  <1>2. /\ probes'["clean"] = probes["clean"] + 1 /\ probes'["overtaken"] = probes["overtaken"]
        /\ probes'["stale"] = probes["stale"]
        /\ probes' \in [ProbeKinds -> 0..MaxProbes]
    BY <1>1, ProbeFacts, Facts
  <1>3. ProbesInv'
    BY <1>1, <1>2, ProbeFacts DEF ProbesInv, Current
  <1> QED
    BY <1>2, <1>3, Facts, SessionStep DEF WatchdogFires, host, bounds

LEMMA WatchdogSeesKeeps ==
    ASSUME IInv, NEW kind \in ProbeKinds, NEW idle \in BOOLEAN, WatchdogSees(kind, idle)
    PROVE  IInv'
  <1> DEFINE finished == [probes EXCEPT ![kind] = probes[kind] - 1]
  <1>1. /\ probes[kind] > 0
        /\ UNCHANGED <<delivery, suppress, observed, closed, prompts, host, bounds>>
    BY DEF WatchdogSees
  <1>2. /\ shown' = IF idle /\ kind # "stale" THEN Jobs ELSE shown
        /\ open' = (open /\ ~(idle /\ kind # "stale"))
    BY DEF WatchdogSees, Idle
  <1>3. ASSUME probes' = finished
        PROVE  probes' \in [ProbeKinds -> 0..MaxProbes] /\ ProbesInv'
    <2>1. /\ probes'[kind] = probes[kind] - 1
          /\ \A other \in ProbeKinds \ {kind} : probes'[other] = probes[other]
          /\ probes' \in [ProbeKinds -> 0..MaxProbes]
      BY <1>1, <1>3, ProbeFacts, Facts
    <2> QED
      BY <1>1, <2>1, ProbeFacts DEF ProbesInv, Current
  <1>7. /\ UNCHANGED <<delivery, prompts, map, publishing, calls, turns, suppress, observed, closed>>
        /\ publishing' = <<"duplicate", "map">> => suppress' \/ closed # "no"
    BY <1>1, Facts DEF host, bounds
  <1>4. CASE ~OwnMark(kind)
    <2>1. probes' = finished /\ UNCHANGED <<mark, idleEpoch>> /\ kind = "stale"
      BY <1>4 DEF WatchdogSees, OwnMark
    <2>2. shown' = shown /\ open' = open
      BY <1>2, <2>1, Facts
    <2> QED
      BY <1>1, <1>3, <1>7, <2>1, <2>2, Facts, SessionStep
  <1>5. CASE OwnMark(kind) /\ ~idle
    <2>1. probes' = finished /\ mark' = Watched /\ UNCHANGED idleEpoch
      BY <1>5 DEF WatchdogSees, Rearmed
    <2>2. mark' \in {"none", "off", "armed"} /\ (open => mark' # "none")
      BY <2>1, Facts DEF Watched
    <2>3. shown' = shown /\ open' = open
      BY <1>2, <1>5, Facts
    <2> QED
      BY <1>1, <1>3, <1>7, <2>1, <2>2, <2>3, Facts, SessionStep
  <1>6. CASE OwnMark(kind) /\ idle
    <2>1. /\ mark' = "none" /\ idleEpoch' = idleEpoch + 1
          /\ probes' = [NoProbes EXCEPT !["stale"] = Current + probes["stale"] - 1]
      BY <1>6 DEF WatchdogSees
    <2>2. Current + probes["stale"] - 1 \in 0..MaxProbes
      BY <1>1, ProbeFacts
    <2>3. /\ probes'["clean"] = 0 /\ probes'["overtaken"] = 0
          /\ probes'["stale"] = Current + probes["stale"] - 1
          /\ probes' \in [ProbeKinds -> 0..MaxProbes]
      BY <2>1, <2>2, ProbeFacts DEF NoProbes, ProbeKinds
    <2>4. ProbesInv'
      BY <2>2, <2>3, ProbeFacts DEF ProbesInv, Current
    <2>5. shown' = Jobs /\ open' = FALSE
      BY <1>2, <1>6 DEF OwnMark
    <2>6. idleEpoch' \in Nat
      BY <2>1, Facts
    <2> QED
      BY <1>1, <1>7, <2>1, <2>3, <2>4, <2>5, <2>6, Facts, SessionStep
  <1> QED
    BY <1>4, <1>5, <1>6

LEMMA WatchdogAnswersKeeps ==
    ASSUME IInv, WatchdogAnswers \/ WatchdogFails
    PROVE  IInv'
  <1>1. \E kind \in ProbeKinds, idle \in BOOLEAN : WatchdogSees(kind, idle)
    BY DEF WatchdogAnswers, WatchdogFails, ProbeKinds
  <1> QED
    BY <1>1, WatchdogSeesKeeps

LEMMA TurnStartsKeeps ==
    ASSUME IInv, TurnStarts
    PROVE  IInv'
  <1>1. /\ turns' \in 0..MaxTurns /\ publishing' = <<>> /\ map' = "busy"
        /\ UNCHANGED <<delivery, prompts, calls>>
    BY Facts, DeliveryAssumption DEF TurnStarts
  <1>2. /\ mark' = mark /\ idleEpoch' = idleEpoch /\ closed' = closed
        /\ shown' = shown /\ open' = open
        /\ suppress' \in BOOLEAN /\ observed' \in {"unseen", "idle", "busy"}
        /\ probes' \in [ProbeKinds -> 0..MaxProbes] /\ ProbesInv'
    <2>1. CASE closed = "disposed"
      BY <2>1, Facts DEF TurnStarts, Unobserved, activity, ProbesInv, Current
    <2>2. CASE closed # "disposed"
      BY <2>2, OvertakenFacts DEF TurnStarts, ObserveBusy
    <2> QED
      BY <2>1, <2>2
  <1>3. publishing' \in Transitions /\ publishing' # <<"duplicate", "map">>
    BY <1>1 DEF Transitions
  <1> QED
    BY <1>1, <1>2, <1>3, Facts, SessionStep

LEMMA TurnEndsKeeps ==
    ASSUME IInv, TurnEnds
    PROVE  IInv'
  <1>1. publishing' \in Transitions /\ publishing' # <<"duplicate", "map">>
    BY DEF TurnEnds, Transitions
  <1>2. UNCHANGED <<delivery, activity, prompts, map, calls, turns>>
    BY DEF TurnEnds, bounds
  <1>3. ProbesInv'
    BY <1>2, Facts DEF activity, ProbesInv, Current
  <1> QED
    BY <1>1, <1>2, <1>3, Facts, SessionStep DEF activity

\* An idle transition clears the mark.
LEMMA CleansMark ==
    ASSUME IInv, ClearMark
    PROVE  mark' = "none" /\ probes' \in [ProbeKinds -> 0..MaxProbes] /\ ProbesInv'
  BY Facts, NewMarkFacts DEF ClearMark

LEMMA PublishStatusKeeps ==
    ASSUME IInv, PublishStatus
    PROVE  IInv'
  <1>1. /\ publishing \in {<<"status", "duplicate", "map">>, <<"status", "map">>}
        /\ publishing' = Tail(publishing)
        /\ UNCHANGED <<delivery, prompts, map, calls, turns>>
    BY Facts DEF PublishStatus, Transitions, bounds
  <1>2. publishing' \in {<<"duplicate", "map">>, <<"map">>}
    <2>1. CASE publishing = <<"status", "duplicate", "map">>
      BY <1>1, <2>1
    <2>2. CASE publishing = <<"status", "map">>
      BY <1>1, <2>2
    <2> QED
      BY <1>1, <2>1, <2>2
  <1>3. publishing' \in Transitions
    BY <1>2 DEF Transitions
  <1>4. CASE closed = "disposed"
    <2>1. UNCHANGED activity
      BY <1>4 DEF PublishStatus, Unobserved
    <2>2. ProbesInv'
      BY <2>1, Facts DEF activity, ProbesInv, Current
    <2> QED
      BY <1>1, <1>3, <1>4, <2>1, <2>2, Facts, SessionStep DEF activity
  <1>5. CASE closed # "disposed"
    <2>1. /\ observed' = "idle" /\ suppress' = TRUE /\ ClearMark /\ idleEpoch' = idleEpoch + 1
          /\ shown' = Jobs /\ open' = FALSE /\ closed' = closed
      BY <1>5 DEF PublishStatus, ObserveIdle, Idle
    <2>2. idleEpoch' \in Nat
      BY <2>1, Facts
    <2> QED
      BY <1>1, <1>3, <2>1, <2>2, CleansMark, Facts, SessionStep
  <1> QED
    BY <1>4, <1>5

\* The second half of a transition counts only in a session that is closed.
LEMMA PublishLegacyKeeps ==
    ASSUME IInv, PublishLegacy
    PROVE  IInv'
  <1>1. /\ publishing \in {<<"legacy", "map">>, <<"duplicate", "map">>}
        /\ publishing' = Tail(publishing)
        /\ UNCHANGED <<delivery, prompts, map, calls, turns>>
    BY Facts DEF PublishLegacy, Transitions, bounds
  <1>2. publishing' = <<"map">> /\ (Head(publishing) = "legacy" <=> publishing # <<"duplicate", "map">>)
    <2>1. CASE publishing = <<"legacy", "map">>
      BY <1>1, <2>1
    <2>2. CASE publishing = <<"duplicate", "map">>
      BY <1>1, <2>2
    <2> QED
      BY <1>1, <2>1, <2>2
  <1>3. publishing' \in Transitions /\ publishing' # <<"duplicate", "map">>
    BY <1>2 DEF Transitions
  <1>4. CASE closed = "disposed"
    <2>1. UNCHANGED activity
      BY <1>4 DEF PublishLegacy, Unobserved
    <2>2. ProbesInv'
      BY <2>1, Facts DEF activity, ProbesInv, Current
    <2> QED
      BY <1>1, <1>3, <2>1, <2>2, Facts, SessionStep DEF activity
  <1>5. CASE closed # "disposed"
    <2>1. ObserveLegacyIdle(Head(publishing) = "legacy")
      BY <1>5 DEF PublishLegacy
    <2>2. /\ observed' = "idle" /\ suppress' = FALSE /\ closed' = closed
          /\ shown' = IF Head(publishing) = "legacy" THEN Jobs ELSE shown
          /\ open' = (open /\ ~(Head(publishing) = "legacy"))
      BY <2>1 DEF ObserveLegacyIdle, Idle
    <2>3. CASE Duplicate
      <3>1. probes' = Overtaken /\ UNCHANGED <<mark, idleEpoch>>
        BY <2>1, <2>3 DEF ObserveLegacyIdle
      <3>2. \/ shown' = shown /\ open' = open
            \/ shown' = Jobs /\ open' = FALSE
        BY <2>2, Facts
      <3> QED
        BY <1>1, <1>3, <2>2, <3>1, <3>2, OvertakenFacts, Facts, SessionStep
    <2>4. CASE ~Duplicate
      <3>1. ClearMark /\ idleEpoch' = idleEpoch + 1
        BY <2>1, <2>4 DEF ObserveLegacyIdle
      <3>2. Head(publishing) = "legacy" \/ (shown = Jobs /\ ~open)
        BY <1>2, <2>4, Facts DEF Duplicate, IdleInv
      <3>3. shown' = Jobs /\ open' = FALSE
        BY <2>2, <3>2, Facts
      <3>4. idleEpoch' \in Nat
        BY <3>1, Facts
      <3> QED
        BY <1>1, <1>3, <2>2, <3>1, <3>3, <3>4, CleansMark, Facts, SessionStep
    <2> QED
      BY <2>3, <2>4
  <1> QED
    BY <1>4, <1>5

LEMMA MapClearsKeeps ==
    ASSUME IInv, MapClears
    PROVE  IInv'
  <1>1. publishing' \in Transitions /\ publishing' # <<"duplicate", "map">>
    BY DEF MapClears, Transitions
  <1>2. UNCHANGED <<delivery, activity, prompts, calls, turns>> /\ map' = "idle"
    BY DEF MapClears, bounds
  <1>3. ProbesInv'
    BY <1>2, Facts DEF activity, ProbesInv, Current
  <1> QED
    BY <1>1, <1>2, <1>3, Facts, SessionStep DEF activity

LEMMA CloseKeeps ==
    ASSUME IInv, Close
    PROVE  IInv'
  <1> USE Parts
  <1>1. /\ removed' = Jobs /\ closed' \in {"gone", "disposed"} /\ idleEpoch' = 0
        /\ suppress' = FALSE /\ observed' = "unseen" /\ shown' = Jobs /\ open' = FALSE
        /\ mark' = "none" /\ probes' \in [ProbeKinds -> 0..MaxProbes] /\ ProbesInv'
        /\ UNCHANGED <<lane, at, epochAt, answer, prompts, host, bounds>>
    BY CleansMark DEF Close, Idle
  <1>2. DeliveryPart'
    BY <1>1, DeliveryFrame DEF bounds
  <1>3. TypeOK'
    BY <1>1 DEF TypeOK, prompts, host, bounds
  <1>4. IdleInv'
    BY <1>1 DEF ActivityPart, IdleInv, host
  <1> QED
    BY <1>1, <1>2, <1>3, <1>4 DEF ActivityPart

LEMMA HostTakesKeeps ==
    ASSUME IInv, NEW j \in Jobs, HostTakes(j)
    PROVE  IInv'
  <1> USE Parts
  <1>1. /\ msg[j] = "inflight" /\ \E next \in {"forked", "refused"} : msg' = [msg EXCEPT ![j] = next]
        /\ UNCHANGED <<lane, at, epochAt, answer, removed, activity, msgId, stored, map,
                       publishing, calls, turns>>
    BY DEF HostTakes, delivery, host, bounds
  <1>2. /\ msg' \in [Jobs -> {"none", "inflight", "forked", "refused", "stored", "dead"}]
        /\ \A k \in Jobs : (Afloat(k)' => Afloat(k)) /\ (msg[k] = "none" <=> msg'[k] = "none")
    BY <1>1 DEF TypeOK, Afloat
  <1>3. DeliveryPart'
    <2>1. LaneInv' /\ OutOfOrderIsUnknown'
      BY <1>1 DEF DeliveryPart, LaneInv, OutOfOrderIsUnknown
    <2>2. IdsInv'
      BY <1>1 DEF DeliveryPart, IdsInv, ToDispatch
    <2>3. MsgInv'
      BY <1>1, <1>2 DEF DeliveryPart, MsgInv
    <2>4. OrderInv'
      BY <1>1, <1>2 DEF DeliveryPart, OrderInv
    <2> QED
      BY <2>1, <2>2, <2>3, <2>4 DEF DeliveryPart
  <1>4. ActivityPart'
    BY <1>1, ActivityFrame
  <1>5. TypeOK'
    BY <1>1, <1>2 DEF TypeOK, activity
  <1> QED
    BY <1>3, <1>4, <1>5

LEMMA HostStoresKeeps ==
    ASSUME IInv, NEW j \in Jobs, HostStores(j)
    PROVE  IInv'
  <1> USE Parts
  <1> DEFINE R == [id : 1..MaxCalls, job : Jobs]
             e == [id |-> msgId[j], job |-> j]
  <1>1. /\ msg[j] = "forked"
        /\ UNCHANGED <<lane, at, epochAt, answer, removed, activity, msgId, map,
                       publishing, calls, turns>>
        /\ \/ msg' = [msg EXCEPT ![j] = "stored"] /\ stored' = Append(stored, e)
           \/ msg' = [msg EXCEPT ![j] = "dead"] /\ UNCHANGED stored
    BY DEF HostStores, delivery, host, bounds
  <1>2. /\ msg' \in [Jobs -> {"none", "inflight", "forked", "refused", "stored", "dead"}]
        /\ \A k \in Jobs : (Afloat(k)' => Afloat(k)) /\ (msg[k] = "none" <=> msg'[k] = "none")
    BY <1>1 DEF TypeOK, Afloat
  <1>3. e \in R /\ e.id = msgId[j] /\ e.job = j
    <2>1. msgId[j] \in 1..MaxCalls
      BY <1>1, DeliveryAssumption DEF TypeOK, DeliveryPart, MsgInv
    <2> QED
      BY <2>1
  <1>4. stored \in Seq(R)
    BY DEF TypeOK
  <1>5. stored' \in Seq(R)
    <2> HIDE DEF R, e
    <2> QED
      BY <1>1, <1>3, <1>4
  <1>6. /\ Len(stored') \in {Len(stored), Len(stored) + 1}
        /\ \A i \in 1..Len(stored) : stored'[i] = stored[i]
        /\ Len(stored') = Len(stored) + 1 => stored'[Len(stored) + 1] = e
    <2> HIDE DEF R, e
    <2>1. CASE stored' = Append(stored, e)
      BY <1>3, <1>4, <2>1
    <2>2. CASE stored' = stored
      BY <1>4, <2>2
    <2> QED
      BY <1>1, <2>1, <2>2
  <1> HIDE DEF R, e
  <1>7. TypeOK'
    <2>1. stored' \in Seq([id : 1..MaxCalls, job : Jobs])
      BY <1>5 DEF R
    <2> QED
      BY <1>1, <1>2, <2>1 DEF TypeOK, activity
  <1>8. OrderInv'
    <2>1. \A i \in 1..Len(stored') : stored'[i].id <= msgId[stored'[i].job]
      <3> TAKE i \in 1..Len(stored')
      <3>1. CASE i \in 1..Len(stored)
        BY <1>6, <3>1 DEF DeliveryPart, OrderInv
      <3>2. CASE i \notin 1..Len(stored)
        <4>1. i = Len(stored) + 1 /\ stored'[i] = e
          BY <1>4, <1>6, <3>2
        <4> QED
          BY <1>3, <4>1, DeliveryAssumption DEF TypeOK
      <3> QED
        BY <3>1, <3>2
    <2> QED
      BY <1>1, <1>2, <2>1 DEF DeliveryPart, OrderInv
  <1>9. OutOfOrderIsUnknown'
    <2> SUFFICES ASSUME NEW i \in 1..Len(stored'), NEW k \in 1..Len(stored'),
                        i < k, stored'[i].id > stored'[k].id
                 PROVE  /\ msgId[stored'[k].job] = stored'[k].id
                        /\ answer[stored'[k].job] = "unknown"
                        /\ at[stored'[k].job] = "none"
      BY <1>1 DEF OutOfOrderIsUnknown
    <2>1. i \in 1..Len(stored) /\ stored'[i] = stored[i]
      BY <1>4, <1>6
    <2>2. CASE k \in 1..Len(stored)
      BY <1>6, <2>1, <2>2 DEF DeliveryPart, OutOfOrderIsUnknown
    <2>3. CASE k \notin 1..Len(stored)
      <3>1. k = Len(stored) + 1 /\ stored'[k] = e
        BY <1>4, <1>6, <2>3
      <3>2. stored[i].job \in Jobs /\ stored[i].id \in 1..MaxCalls
        BY <2>1, StoredFacts
      <3>3. stored[i].id <= msgId[stored[i].job] /\ stored[i].id > msgId[j]
        BY <1>3, <2>1, <3>1 DEF DeliveryPart, OrderInv
      <3>4. msgId[j] < msgId[stored[i].job]
        <4>1. \A a \in Jobs : msgId[a] \in Nat
          BY DeliveryAssumption DEF TypeOK
        <4>2. stored[i].id \in Nat
          BY <3>2, DeliveryAssumption
        <4> QED
          BY <3>2, <3>3, <4>1, <4>2
      <3>5. at[j] \notin Attempts /\ Afloat(j)
        BY <1>1, <3>2, <3>4 DEF DeliveryPart, OrderInv, Afloat
      <3> QED
        BY <1>3, <3>1, <3>5 DEF DeliveryPart, MsgInv
    <2> QED
      BY <2>2, <2>3
  <1>10. LaneInv' /\ IdsInv' /\ MsgInv'
    BY <1>1, <1>2 DEF DeliveryPart, LaneInv, IdsInv, ToDispatch, MsgInv
  <1>11. ActivityPart'
    BY <1>1, ActivityFrame
  <1> QED
    BY <1>7, <1>8, <1>9, <1>10, <1>11 DEF DeliveryPart

LEMMA StutterKeeps ==
    ASSUME IInv, UNCHANGED vars
    PROVE  IInv'
  <1> USE Parts
  <1>1. UNCHANGED <<delivery, activity, prompts, host, bounds>>
    BY DEF vars
  <1>2. DeliveryPart'
    BY <1>1, DeliveryFrame DEF delivery, bounds
  <1>3. ActivityPart'
    BY <1>1, ActivityFrame DEF delivery, host
  <1>4. TypeOK'
    BY <1>1 DEF TypeOK, delivery, activity, prompts, host, bounds
  <1> QED
    BY <1>2, <1>3, <1>4

LEMMA NextPreserves ==
    ASSUME IInv, [Next]_vars
    PROVE  IInv'
  <1>1. ASSUME NEW j \in Jobs, Call(j) \/ Remove(j)
        PROVE  IInv'
    BY <1>1, CallKeeps, RemoveKeeps
  <1>2. ASSUME NEW j \in Jobs, DeliveryStep(j)
        PROVE  IInv'
    BY <1>2, StartKeeps, FirstIdleCheckKeeps, IdentityReadKeeps, SecondIdleCheckKeeps,
       PromptReturnsKeeps, ConfirmedKeeps, GivesUpKeeps DEF DeliveryStep
  <1>3. CASE WatchdogFires \/ WatchdogAnswers \/ WatchdogFails
    BY <1>3, WatchdogFiresKeeps, WatchdogAnswersKeeps
  <1>4. CASE TurnStarts \/ TurnEnds \/ PublishStatus \/ PublishLegacy \/ MapClears
    BY <1>4, TurnStartsKeeps, TurnEndsKeeps, PublishStatusKeeps, PublishLegacyKeeps, MapClearsKeeps
  <1>5. ASSUME NEW j \in Jobs, HostTakes(j) \/ HostStores(j)
        PROVE  IInv'
    BY <1>5, HostTakesKeeps, HostStoresKeeps
  <1>6. CASE Close
    BY <1>6, CloseKeeps
  <1>7. CASE UNCHANGED vars
    BY <1>7, StutterKeeps
  <1> QED
    BY <1>1, <1>2, <1>3, <1>4, <1>5, <1>6, <1>7 DEF Next

\* The invariant the rest follows from.
THEOREM IInvHolds == Spec => []IInv
  <1>1. Init => IInv
    BY InitEstablishes
  <1>2. IInv /\ [Next]_vars => IInv'
    BY NextPreserves
  <1> QED
    BY <1>1, <1>2, PTL DEF Spec

\* For any jobs and bounds: the delivery that is past the queue is the head of
\* the lane, no prompt is dispatched into the turn of an earlier one, and what
\* is stored out of order was reported unknown.
THEOREM LaneKeepsOrderHolds == Spec => []LaneKeepsOrder
  <1>1. IInv => LaneKeepsOrder
    <2> SUFFICES ASSUME IInv PROVE LaneKeepsOrder
      OBVIOUS
    <2>1. TypeOK /\ OutOfOrderIsUnknown
      BY DEF IInv
    <2>2. LaneIsSerial
      <3> SUFFICES ASSUME NEW j \in Jobs, at[j] \notin {"none", "queued"}
                   PROVE  lane # <<>> /\ Head(lane) = j
        BY DEF LaneIsSerial
      <3>1. PICK i \in 1..Len(lane) : lane[i] = j
        BY DEF IInv, LaneInv
      <3>2. i = 1 /\ lane \in Seq(Jobs)
        BY <3>1 DEF IInv, LaneInv, TypeOK
      <3> QED
        BY <3>1, <3>2
    <2>3. TurnsSeparated
      BY DEF IInv, IdleInv, TurnsSeparated
    <2> QED
      BY <2>1, <2>2, <2>3 DEF LaneKeepsOrder
  <1> QED
    BY <1>1, IInvHolds, PTL
-----------------------------------------------------------------------------
(* Every step is one of DeliveryContract, or a stutter.                    *)

Seen == Contract!Next \/ UNCHANGED Contract!vars

LEMMA SameMaps ==
    ASSUME UNCHANGED <<at, answer, prompts>>
    PROVE  Seen
  BY DEF Seen, Contract!vars, Phase, MayLand, Hit, Landed, prompts

\* Sends the prompt.
LEMMA DispatchSeen ==
    ASSUME TypeOK, NEW j \in Jobs, NEW from \in {"identity", "idle2"}, Running(j, from),
           Moves(j, "sending"), msg' = [msg EXCEPT ![j] = "inflight"], stored' = stored
    PROVE  Seen
  <1>1. at[j] = from /\ at' = [at EXCEPT ![j] = "sending"] /\ answer' = answer
    BY DEF Running, Moves
  <1>2. Phase[j] = "deliver" /\ Phase' = [Phase EXCEPT ![j] = "dispatched"]
    BY <1>1 DEF Phase, TypeOK
  <1>3. MayLand' = MayLand \cup {j} /\ Hit' = Hit \ {j}
    BY DEF MayLand, Hit, TypeOK
  <1>4. Landed' = Landed
    BY DEF Landed
  <1>5. Contract!Dispatch(j)
    BY <1>1, <1>2, <1>3, <1>4 DEF Contract!Dispatch
  <1> QED
    BY <1>5 DEF Seen, Contract!Next

LEMMA ReturnSeen ==
    ASSUME IInv, NEW j \in Jobs, NEW from \in Places \ {"none"}, Running(j, from),
           NEW outcome \in {"delivered", "deferred", "rejected", "unknown"}, Returns(j, outcome),
           \/ from \notin Attempts /\ outcome \in {"deferred", "rejected"}
           \/ from \in Attempts /\ outcome = "delivered" /\ msg[j] = "stored"
           \/ from \in Attempts /\ outcome = "rejected" /\ msg[j] = "refused"
           \/ from \in Attempts /\ outcome = "unknown",
           UNCHANGED prompts
    PROVE  Seen
  <1>1. /\ at[j] = from /\ at' = [at EXCEPT ![j] = "none"]
        /\ answer' = [answer EXCEPT ![j] = outcome]
        /\ msg' = msg /\ stored' = stored
    BY DEF Running, Returns, prompts
  <1>2. /\ Phase[j] = IF from \in Attempts THEN "dispatched" ELSE "deliver"
        /\ Phase' = [Phase EXCEPT ![j] = "none"]
    BY <1>1 DEF Phase, Attempts, IInv, TypeOK
  <1>3. MayLand' = MayLand /\ Hit' = Hit /\ Landed' = Landed
    BY <1>1 DEF MayLand, Hit, Landed
  <1>4. j \in Hit <=> msg[j] = "stored"
    BY DEF Hit
  <1>5. outcome # "unknown" => j \notin MayLand
    BY <1>1 DEF MayLand, Afloat, IInv, MsgInv
  <1>6. MayLand' = IF outcome = "unknown" THEN MayLand ELSE MayLand \ {j}
    BY <1>3, <1>5
  <1>7. Contract!Return(j, outcome)
    BY <1>1, <1>2, <1>3, <1>4, <1>6 DEF Contract!Return
  <1> QED
    BY <1>7 DEF Seen, Contract!Next, Contract!Answers

LEMMA MoveSeen ==
    ASSUME TypeOK, NEW j \in Jobs, NEW from \in Places \ {"none"}, Running(j, from),
           NEW place \in Places \ {"none"}, Moves(j, place),
           from \in Attempts <=> place \in Attempts,
           UNCHANGED prompts
    PROVE  Seen
  <1>1. at[j] = from /\ at' = [at EXCEPT ![j] = place] /\ answer' = answer
    BY DEF Running, Moves
  <1>2. Phase' = Phase
    BY <1>1 DEF Phase, Attempts, Places, TypeOK
  <1> QED
    BY <1>1, <1>2 DEF Seen, Contract!vars, MayLand, Hit, Landed, prompts

LEMMA CallSeen ==
    ASSUME TypeOK, NEW j \in Jobs, Call(j)
    PROVE  Seen
  <1>1. /\ at[j] = "none" /\ at' = [at EXCEPT ![j] = "queued"] /\ answer[j] # "unknown"
        /\ UNCHANGED <<answer, prompts>>
    BY DEF Call
  <1>2. Phase[j] = "none" /\ Phase' = [Phase EXCEPT ![j] = "deliver"]
    BY <1>1 DEF Phase, TypeOK
  <1>3. MayLand' = MayLand /\ Hit' = Hit /\ Landed' = Landed
    BY <1>1 DEF MayLand, Hit, Landed, prompts
  <1>4. Contract!Call(j)
    BY <1>1, <1>2, <1>3 DEF Contract!Call
  <1> QED
    BY <1>4 DEF Seen, Contract!Next

LEMMA DispatchOrNotSeen ==
    ASSUME IInv, NEW j \in Jobs, NEW from \in {"identity", "idle2"}, Running(j, from), Dispatch(j)
    PROVE  Seen
  <1>1. CASE j \in removed
    BY <1>1, ReturnSeen DEF Dispatch, Places, Attempts
  <1>2. CASE j \notin removed
    BY <1>2, DispatchSeen DEF Dispatch, IInv
  <1> QED
    BY <1>1, <1>2

LEMMA DeliverySeen ==
    ASSUME IInv, NEW j \in Jobs, DeliveryStep(j)
    PROVE  Seen
  <1>0. TypeOK
    BY DEF IInv
  <1>1. CASE Start(j)
    <2>1. /\ Running(j, "queued") /\ UNCHANGED prompts
          /\ Returns(j, "deferred") \/ Moves(j, "identity") \/ Moves(j, "idle1")
      BY <1>0, <1>1 DEF Start, TypeOK
    <2> QED
      BY <1>0, <2>1, ReturnSeen, MoveSeen DEF Places, Attempts
  <1>2. CASE FirstIdleCheck(j)
    <2>1. /\ Running(j, "idle1") /\ UNCHANGED prompts
          /\ Returns(j, "deferred") \/ Moves(j, "identity")
      BY <1>2 DEF FirstIdleCheck
    <2> QED
      BY <1>0, <2>1, ReturnSeen, MoveSeen DEF Places, Attempts
  <1>3. CASE IdentityRead(j)
    <2>1. /\ Running(j, "identity")
          /\ \/ Dispatch(j)
             \/ /\ UNCHANGED prompts
                /\ Returns(j, "rejected") \/ Returns(j, "deferred") \/ Moves(j, "idle2")
      BY <1>0, <1>3 DEF IdentityRead, Undispatched, TypeOK
    <2> QED
      BY <1>0, <2>1, ReturnSeen, MoveSeen, DispatchOrNotSeen DEF Places, Attempts
  <1>4. CASE SecondIdleCheck(j)
    <2>1. /\ Running(j, "idle2")
          /\ Dispatch(j) \/ (Returns(j, "deferred") /\ UNCHANGED prompts)
      BY <1>4 DEF SecondIdleCheck, Undispatched
    <2> QED
      BY <2>1, ReturnSeen, DispatchOrNotSeen DEF Places, Attempts
  <1>5. CASE PromptReturns(j)
    <2>1. /\ Running(j, "sending") /\ UNCHANGED prompts
          /\ Moves(j, "confirming") \/ (msg[j] = "refused" /\ Returns(j, "rejected"))
      BY <1>5 DEF PromptReturns, AfterFailure
    <2> QED
      BY <1>0, <2>1, ReturnSeen, MoveSeen DEF Places, Attempts
  <1>6. CASE Confirmed(j)
    <2>1. /\ Running(j, "confirming") /\ UNCHANGED prompts
          /\ msg[j] = "stored" /\ Returns(j, "delivered")
      BY <1>6 DEF Confirmed
    <2> QED
      BY <2>1, ReturnSeen DEF Places, Attempts
  <1>7. CASE GivesUp(j)
    <2>1. Running(j, "confirming") /\ UNCHANGED prompts /\ Returns(j, "unknown")
      BY <1>7 DEF GivesUp
    <2> QED
      BY <2>1, ReturnSeen DEF Places, Attempts
  <1> QED
    BY <1>1, <1>2, <1>3, <1>4, <1>5, <1>6, <1>7 DEF DeliveryStep

LEMMA HostTakesSeen ==
    ASSUME TypeOK, NEW j \in Jobs, HostTakes(j)
    PROVE  Seen
  <1>1. /\ msg[j] = "inflight" /\ UNCHANGED <<at, answer, stored>>
        /\ msg' = [msg EXCEPT ![j] = "forked"] \/ msg' = [msg EXCEPT ![j] = "refused"]
    BY DEF HostTakes, delivery
  <1>2. Phase' = Phase /\ Landed' = Landed
    BY <1>1 DEF Phase, Landed
  <1>3. Hit' = Hit
    BY <1>1 DEF Hit, TypeOK
  <1>4. CASE msg' = [msg EXCEPT ![j] = "forked"]
    <2>1. MayLand' = MayLand
      BY <1>1, <1>4 DEF MayLand, TypeOK
    <2> QED
      BY <1>1, <1>2, <1>3, <2>1 DEF Seen, Contract!vars
  <1>5. CASE msg' = [msg EXCEPT ![j] = "refused"]
    <2>1. j \in MayLand /\ MayLand' = MayLand \ {j}
      BY <1>1, <1>5 DEF MayLand, TypeOK
    <2>2. Contract!Lose(j)
      BY <1>1, <1>2, <1>3, <2>1 DEF Contract!Lose
    <2> QED
      BY <2>2 DEF Seen, Contract!Next
  <1> QED
    BY <1>1, <1>4, <1>5

LEMMA HostStoresSeen ==
    ASSUME IInv, NEW j \in Jobs, HostStores(j)
    PROVE  Seen
  <1>0. TypeOK
    BY DEF IInv
  <1>1. msg[j] = "forked" /\ UNCHANGED <<at, answer>>
    BY DEF HostStores, delivery
  <1>2. Phase' = Phase /\ j \in MayLand
    BY <1>1 DEF Phase, MayLand
  <1>3. CASE msg' = [msg EXCEPT ![j] = "dead"] /\ UNCHANGED stored
    <2>1. MayLand' = MayLand \ {j} /\ Hit' = Hit /\ Landed' = Landed
      BY <1>0, <1>1, <1>3 DEF MayLand, Hit, Landed, TypeOK
    <2>2. Contract!Lose(j)
      BY <1>1, <1>2, <2>1 DEF Contract!Lose
    <2> QED
      BY <2>2 DEF Seen, Contract!Next
  <1>4. CASE /\ msg' = [msg EXCEPT ![j] = "stored"]
             /\ stored' = Append(stored, [id |-> msgId[j], job |-> j])
    <2>1. MayLand' = MayLand \ {j} /\ Hit' = Hit \cup {j}
      BY <1>0, <1>1, <1>4 DEF MayLand, Hit, TypeOK
    <2> DEFINE At(k) == {i \in 1..Len(stored) : stored[i].job = k}
               AtNext(k) == {i \in 1..Len(stored') : stored'[i].job = k}
               e == [id |-> msgId[j], job |-> j]
    <2>2. e.job = j
      OBVIOUS
    <2>3. /\ Len(stored') = Len(stored) + 1 /\ stored'[Len(stored) + 1] = e
          /\ \A i \in 1..Len(stored) : stored'[i] = stored[i]
          /\ Len(stored) \in Nat
      <3>1. stored \in Seq([id : 1..MaxCalls, job : Jobs])
        BY <1>0 DEF TypeOK
      <3> HIDE DEF e
      <3> QED
        BY <1>4, <3>1 DEF e
    <2> HIDE DEF e
    <2>4. AtNext(j) = At(j) \cup {Len(stored) + 1} /\ Len(stored) + 1 \notin At(j)
      BY <2>2, <2>3
    <2>5. \A k \in Jobs \ {j} : AtNext(k) = At(k)
      BY <2>2, <2>3
    <2>6. IsFiniteSet(At(j))
      <3>1. IsFiniteSet(1..Len(stored)) /\ At(j) \subseteq 1..Len(stored)
        BY <2>3, FS_Interval
      <3> QED
        BY <3>1, FS_Subset
    <2>7. Cardinality(AtNext(j)) = Cardinality(At(j)) + 1
      BY <2>4, <2>6, FS_AddElement
    <2>8. Landed = [k \in Jobs |-> Cardinality(At(k))] /\ Landed' = [k \in Jobs |-> Cardinality(AtNext(k))]
      BY DEF Landed
    <2> HIDE DEF At, AtNext
    <2>9. Landed' = [Landed EXCEPT ![j] = Landed[j] + 1]
      BY <2>5, <2>7, <2>8
    <2>10. Contract!Land(j)
      BY <1>1, <1>2, <2>1, <2>9 DEF Contract!Land
    <2> QED
      BY <2>10 DEF Seen, Contract!Next
  <1> QED
    BY <1>3, <1>4 DEF HostStores

\* For any jobs and bounds, the deliveries keep the contract of the scheduler:
\* what is delivered is stored once, a deferred or rejected fire can never
\* land any more, and only an unknown one may still do.
THEOREM ImplementsContractHolds == Spec => ImplementsContract
  <1>1. Init => Contract!Init
    <2> SUFFICES ASSUME Init PROVE Contract!Init
      OBVIOUS
    <2>1. Phase = [j \in Jobs |-> "none"] /\ MayLand = {} /\ Hit = {}
      BY DEF Init, Phase, MayLand, Hit
    <2>2. Landed = [j \in Jobs |-> 0]
      <3>1. \A j \in Jobs : {i \in 1..Len(stored) : stored[i].job = j} = {}
        BY DEF Init
      <3> QED
        BY <3>1, FS_EmptySet DEF Landed
    <2> QED
      BY <2>1, <2>2 DEF Init, Contract!Init
  <1>2. IInv /\ [Next]_vars => [Contract!Next]_(Contract!vars)
    <2> SUFFICES ASSUME IInv, [Next]_vars PROVE Seen
      BY DEF Seen
    <2>0. TypeOK
      BY DEF IInv
    <2>1. ASSUME NEW j \in Jobs, Call(j) \/ Remove(j) PROVE Seen
      BY <2>0, <2>1, CallSeen, SameMaps DEF Remove
    <2>2. ASSUME NEW j \in Jobs, DeliveryStep(j) PROVE Seen
      BY <2>2, DeliverySeen
    <2>3. ASSUME NEW j \in Jobs, HostTakes(j) \/ HostStores(j) PROVE Seen
      BY <2>0, <2>3, HostTakesSeen, HostStoresSeen
    <2>4. ASSUME WatchdogFires \/ WatchdogAnswers \/ WatchdogFails PROVE Seen
      BY <2>4, SameMaps DEF WatchdogFires, WatchdogAnswers, WatchdogFails, WatchdogSees, delivery
    <2>5. ASSUME TurnStarts \/ TurnEnds \/ PublishStatus \/ PublishLegacy \/ MapClears PROVE Seen
      BY <2>5, SameMaps DEF TurnStarts, TurnEnds, PublishStatus, PublishLegacy, MapClears, delivery
    <2>6. ASSUME Close \/ UNCHANGED vars PROVE Seen
      BY <2>6, SameMaps DEF Close, vars, delivery
    <2> QED
      BY <2>1, <2>2, <2>3, <2>4, <2>5, <2>6 DEF Next
  <1> QED
    BY <1>1, <1>2, IInvHolds, PTL DEF Spec, ImplementsContract, Contract!Spec
=============================================================================
