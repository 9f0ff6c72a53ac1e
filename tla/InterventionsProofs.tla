------------------------ MODULE InterventionsProofs ------------------------
(***************************************************************************)
(* Theorems about the intervention life cycle, for every set of zones,     *)
(* every density and limit, every bound on messages and requests, and an   *)
(* inference engine that may answer for any zone: type correctness, QoS,   *)
(* and the safety part of the veto gate.                                   *)
(***************************************************************************)
EXTENDS Interventions, SequenceTheorems, TLAPS

(* Cancelling tasks appends life-cycle handles to the queue it starts from. *)
LEMMA WakesType ==
    ASSUME NEW S \in SUBSET Ids, NEW rest \in Seq(Handles), WakesInOrder(S, rest)
    PROVE  ready' \in Seq(Handles)
<1>1. PICK n \in 0..MaxTelemetry : \E order \in [1..n -> S] :
         ready' = rest \o [a \in 1..n |-> Life(order[a])]
  BY DEF WakesInOrder
<1>2. PICK order \in [1..n -> S] : ready' = rest \o [a \in 1..n |-> Life(order[a])]
  BY <1>1
<1>3. \A i \in Ids : Life(i) \in Handles
  BY DEF Life, Handles
<1>4. [a \in 1..n |-> Life(order[a])] \in Seq(Handles)
  <2>1. n \in Nat
    BY <1>1, ConstantsAssumption DEF ConstantsAssumption
  <2>2. [a \in 1..n |-> Life(order[a])] \in [1..n -> Handles]
    BY <1>3
  <2> QED
    BY <2>1, <2>2
<1> QED
  BY <1>2, <1>4

LEMMA CancelType ==
    ASSUME TypeOK, NEW S \in SUBSET Ids, NEW rest \in Seq(Handles), Cancel(S, rest)
    PROVE  ready' \in Seq(Handles) /\ cancelled' \in SUBSET Ids
  BY WakesType DEF Cancel, Asleep, Live, TypeOK

(* The queue a coroutine leaves behind. *)
LEMMA RestType ==
    ASSUME TypeOK, ready # <<>>
    PROVE  Tail(ready) \in Seq(Handles) /\ AfterBroadcast \in Seq(Handles)
  BY DEF TypeOK, AfterBroadcast

LEMMA WakeType ==
    ASSUME TypeOK, NEW h \in Handles, Wake(h)
    PROVE  ready' \in Seq(Handles)
  BY DEF TypeOK, Wake

LEMMA RecordType ==
    ASSUME TypeOK, NEW i \in Ids, NEW e \in Events, Record(i, e)
    PROVE  history' \in [Ids -> Seq(Events)]
  BY DEF TypeOK, Record

(* Every step of main_loop preserves the type invariant. *)
LEMMA MainType == TypeOK /\ MainStep => TypeOK'
<1> SUFFICES ASSUME TypeOK, MainStep PROVE TypeOK'
  OBVIOUS
<1> USE DEF TypeOK, loopVars, safetyVars, taskVars, crowdVars, modeVars, inputVars
<1>0. ready # <<>> /\ Tail(ready) \in Seq(Handles) /\ AfterBroadcast \in Seq(Handles)
  BY RestType DEF MainStep, MainPark, MainDrop, MainAccept, MainQos, MainSkip, MainInfer,
                  MainClear, MainSpawn, Running
<1>1. CASE MainPark
  BY <1>0, <1>1 DEF MainPark
<1>2. CASE MainDrop
  BY <1>0, <1>2 DEF MainDrop
<1>3. CASE MainAccept
  <2>1. Head(queue) \in Reading /\ Tail(queue) \in Seq(Reading \cup {Malformed})
    BY <1>3 DEF MainAccept
  <2> QED
    BY <1>0, <1>3, <2>1, ConstantsAssumption DEF MainAccept, Reading, ConstantsAssumption
<1>4. CASE MainQos
  BY <1>0, <1>4 DEF MainQos, MainGoesTo
<1>5. CASE MainSkip
  BY <1>0, <1>5 DEF MainSkip, MainGetsNext
<1>6. CASE MainInfer
  BY <1>0, <1>6 DEF MainInfer, MainGoesTo
<1>7. CASE MainClear
  <2>1. TaskOf(main.zone) \in SUBSET Ids
    BY <1>7 DEF MainClear, TaskOf
  <2>2. ready' \in Seq(Handles) /\ cancelled' \in SUBSET Ids
    BY <1>7, <2>1, CancelType DEF MainClear
  <2> QED
    BY <1>7, <2>2 DEF MainClear, MainGetsNext, DiscardVeto
<1>8. CASE MainSpawn
  <2>1. PICK s \in Answers \cup {FallbackScript}, i \in Ids :
          /\ script' = [script EXCEPT ![i] = s]
          /\ stage' = [stage EXCEPT ![i] = "new"]
          /\ interventions' = [interventions EXCEPT ![main.zone] = i]
          /\ ready' = Append(ready, Life(i))
    BY <1>8 DEF MainSpawn
  <2>2. s \in Script
    <3>1. main.zone \in Zones /\ Foreign \in SUBSET Zones
      BY <1>8, ConstantsAssumption DEF MainSpawn, ConstantsAssumption
    <3>2. CASE s \in Answers
      BY <3>1, <3>2 DEF Answers, Script
    <3>3. CASE s = FallbackScript
      <4>1. Critical(main.density) \in BOOLEAN
        BY DEF Critical
      <4> QED
        BY <3>1, <3>3, <4>1 DEF FallbackScript, Script
    <3> QED
      BY <3>2, <3>3
  <2>3. Life(i) \in Handles
    BY DEF Life, Handles
  <2> QED
    BY <1>8, <2>1, <2>2, <2>3 DEF MainSpawn, MainGetsNext, Stages
<1> QED
  BY <1>1, <1>2, <1>3, <1>4, <1>5, <1>6, <1>7, <1>8 DEF MainStep

(* Removing a zone's entries, finishing a task and leaving the loop keep types. *)
LEMMA CleanupType ==
    ASSUME TypeOK, NEW i \in Ids, script[i] \in Script, ready # <<>>, Cleanup(i)
    PROVE  /\ interventions' \in [Zones -> {NoTask} \cup Ids]
           /\ scripts' \in [Zones -> {NoTask} \cup Ids]
           /\ approved' \in SUBSET Zones
           /\ stage' \in [Ids -> Stages]
           /\ \A j \in Ids : stage'[j] # "absent" => j = i \/ stage[j] # "absent"
           /\ cancelled' \in SUBSET Ids
           /\ ready' \in Seq(Handles)
  BY RestType DEF TypeOK, Cleanup, Unregister, Finish, Stages, Script

(* Every step of a life-cycle task preserves the type invariant. *)
LEMMA LifeType == ASSUME TypeOK, NEW i \in Ids, LifeStep(i) PROVE TypeOK'
<1> USE DEF loopVars, safetyVars, taskVars, crowdVars, modeVars, inputVars
<1>0. /\ ready # <<>> /\ Tail(ready) \in Seq(Handles) /\ AfterBroadcast \in Seq(Handles)
      /\ stage[i] # "absent" /\ script[i] \in Script
  BY RestType DEF TypeOK, LifeStep, LifeStillborn, LifeAdvise, LifeStart, LifeLost, LifeSleep,
                  LifeExpire, LifeComplete, LifeVetoed, LifeYielded, LifeCleared, FirstStep,
                  Unwinds, Running
<1>1. CASE LifeStillborn(i)
  BY <1>0, <1>1 DEF LifeStillborn, Finish, TypeOK, Stages
<1>2. CASE LifeAdvise(i)
  <2>1. history' \in [Ids -> Seq(Events)]
    BY <1>2, RecordType DEF LifeAdvise, Events
  <2> QED
    BY <1>0, <1>2, <2>1 DEF LifeAdvise, Finish, TypeOK, Stages
<1>3. CASE LifeStart(i)
  <2>1. history' \in [Ids -> Seq(Events)]
    BY <1>3, RecordType DEF LifeStart, Events
  <2> QED
    BY <1>0, <1>3, <2>1 DEF LifeStart, TypeOK, Stages, Script
<1>4. CASE LifeLost(i)
  BY <1>0, <1>4 DEF LifeLost, Finish, TypeOK, Stages
<1>5. CASE LifeSleep(i)
  BY <1>0, <1>5 DEF LifeSleep, DiscardVeto, TypeOK, Stages
<1>6. CASE LifeExpire(i)
  <2>1. history' \in [Ids -> Seq(Events)]
    BY <1>6, RecordType DEF LifeExpire, Events
  <2> QED
    BY <1>0, <1>6, <2>1 DEF LifeExpire, TypeOK, Stages
<1>7. CASE LifeComplete(i)
  <2>1. history' \in [Ids -> Seq(Events)]
    BY <1>7, RecordType DEF LifeComplete, Events
  <2>2. Cleanup(i)
    BY <1>7 DEF LifeComplete
  <2> QED
    BY <1>0, <1>7, <2>1, <2>2, CleanupType DEF LifeComplete, TypeOK
<1>8. CASE LifeVetoed(i)
  <2>1. history' \in [Ids -> Seq(Events)]
    BY <1>8, RecordType DEF LifeVetoed, Events
  <2>2. Cleanup(i)
    BY <1>8 DEF LifeVetoed
  <2> QED
    BY <1>0, <1>8, <2>1, <2>2, CleanupType DEF LifeVetoed, TypeOK
<1>9. CASE LifeYielded(i)
  <2>1. Cleanup(i)
    BY <1>9 DEF LifeYielded
  <2> QED
    BY <1>0, <1>9, <2>1, CleanupType DEF LifeYielded, TypeOK
<1>10. CASE LifeCleared(i)
  <2>1. history' \in [Ids -> Seq(Events)]
    BY <1>10, RecordType DEF LifeCleared, Events
  <2>2. Cleanup(i)
    BY <1>10 DEF LifeCleared
  <2> QED
    BY <1>0, <1>10, <2>1, <2>2, CleanupType DEF LifeCleared, TypeOK
<1> QED
  BY <1>1, <1>2, <1>3, <1>4, <1>5, <1>6, <1>7, <1>8, <1>9, <1>10 DEF LifeStep

(* Every operator request preserves the type invariant. *)
LEMMA RequestType == TypeOK /\ RequestStep => TypeOK'
<1> SUFFICES ASSUME TypeOK, RequestStep PROVE TypeOK'
  OBVIOUS
<1> USE DEF loopVars, safetyVars, taskVars, crowdVars, modeVars, inputVars
<1>0. ready # <<>> /\ Tail(ready) \in Seq(Handles)
  BY RestType DEF RequestStep, RejectRequest, Panic, Calm, AcceptVeto, ApproveEarly,
                  AcceptApproval, AuditApproval, Configure, Running
<1>a. \A z \in Zones : TaskOf(z) \in SUBSET Ids
  BY DEF TaskOf, TypeOK
<1>1. CASE RejectRequest
  BY <1>0, <1>1 DEF RejectRequest, TypeOK
<1>2. CASE Panic
  <2>1. Registered \in SUBSET Ids
    BY DEF Registered, TypeOK
  <2>2. ready' \in Seq(Handles) /\ cancelled' \in SUBSET Ids
    BY <1>0, <1>2, <2>1, CancelType DEF Panic
  <2> QED
    BY <1>2, <2>2 DEF Panic, TypeOK
<1>3. CASE Calm
  BY <1>0, <1>3 DEF Calm, TypeOK
<1>4. ASSUME NEW z \in Zones, AcceptVeto(z) PROVE TypeOK'
  <2>1. ready' \in Seq(Handles) /\ cancelled' \in SUBSET Ids
    BY <1>0, <1>a, <1>4, CancelType DEF AcceptVeto
  <2>2. history' \in [Ids -> Seq(Events)]
    BY <1>4, RecordType DEF AcceptVeto, Events, TypeOK
  <2> QED
    BY <1>4, <2>1, <2>2 DEF AcceptVeto, TypeOK
<1>5. ASSUME NEW z \in Zones, ApproveEarly(z) PROVE TypeOK'
  <2>1. ready' \in Seq(Handles) /\ cancelled' \in SUBSET Ids
    BY <1>0, <1>a, <1>5, CancelType DEF ApproveEarly
  <2> QED
    BY <1>5, <2>1 DEF ApproveEarly, TypeOK
<1>6. ASSUME NEW z \in Zones, AcceptApproval(z) PROVE TypeOK'
  <2>1. ready' \in Seq(Handles) /\ cancelled' \in SUBSET Ids
    BY <1>0, <1>a, <1>6, CancelType DEF AcceptApproval
  <2>2. scripts[z] \in Ids
    BY <1>6 DEF AcceptApproval, TypeOK
  <2>3. history' \in [Ids -> Seq(Events)] /\ approvals' \in [Ids -> Nat]
    <3>1. CASE watched
      <4>1. history' \in [Ids -> Seq(Events)]
        <5>1. Record(scripts[z], "actuated_approved") /\ "actuated_approved" \in Events
          BY <1>6, <3>1 DEF AcceptApproval, Events
        <5> QED
          BY <2>2, <5>1, RecordType
      <4>2. approvals' = [approvals EXCEPT ![scripts[z]] = @ + 1]
        BY <1>6, <3>1 DEF AcceptApproval
      <4> QED
        BY <2>2, <4>1, <4>2 DEF TypeOK
    <3>2. CASE ~watched
      <4>1. <<"actuated_approved", "approved">> \in Seq(Events)
        BY DEF Events
      <4>2. history[scripts[z]] \o <<"actuated_approved", "approved">> \in Seq(Events)
        BY <2>2, <4>1 DEF TypeOK
      <4> QED
        BY <1>6, <2>2, <3>2, <4>2 DEF AcceptApproval, TypeOK
    <3> QED
      BY <3>1, <3>2
  <2> QED
    BY <1>6, <2>1, <2>3 DEF AcceptApproval, TypeOK
<1>7. ASSUME NEW i \in Ids, AuditApproval(i) PROVE TypeOK'
  <2>1. history' \in [Ids -> Seq(Events)]
    BY <1>7, RecordType DEF AuditApproval, Events
  <2> QED
    BY <1>0, <1>7, <2>1 DEF AuditApproval, TypeOK
<1>8. ASSUME NEW l \in Limits, Configure(l) PROVE TypeOK'
  BY <1>0, <1>8 DEF Configure, TypeOK
<1> QED
  BY <1>1, <1>2, <1>3, <1>4, <1>5, <1>6, <1>7, <1>8 DEF RequestStep

(* So does everything that completes or arrives from outside. *)
LEMMA OutsideType == TypeOK /\ (Completion \/ Arrival) => TypeOK'
<1> SUFFICES ASSUME TypeOK, Completion \/ Arrival PROVE TypeOK'
  OBVIOUS
<1> USE DEF loopVars, safetyVars, taskVars, crowdVars, modeVars, inputVars
<1>a. Main \in Handles /\ (\A i \in Ids : Life(i) \in Handles /\ Approved(i) \in Handles)
  BY DEF Main, Life, Approved, Handles
<1>1. CASE SlmReturns \/ MainBroadcastDone
  BY <1>1, <1>a, WakeType DEF SlmReturns, MainBroadcastDone, TypeOK
<1>2. ASSUME NEW i \in Ids, TimerFires(i) \/ LifeBroadcastDone(i) PROVE TypeOK'
  BY <1>2, <1>a, WakeType DEF TimerFires, LifeBroadcastDone, TypeOK
<1>3. ASSUME NEW i \in Ids, ApprovalBroadcastDone(i) PROVE TypeOK'
  <2>1. ready' \in Seq(Handles)
    BY <1>3, <1>a, WakeType DEF ApprovalBroadcastDone
  <2>2. approvals' \in [Ids -> Nat]
    BY <1>3 DEF ApprovalBroadcastDone, TypeOK
  <2> QED
    BY <1>3, <2>1, <2>2 DEF ApprovalBroadcastDone, TypeOK
<1>4. ASSUME NEW m \in Reading \cup {Malformed}, Ingest(m) PROVE TypeOK'
  <2>1. ready' \in Seq(Handles)
    BY <1>4, <1>a, WakeType DEF Ingest, TypeOK
  <2>2. sent' \in 0..MaxTelemetry
    BY <1>4, ConstantsAssumption DEF Ingest, TypeOK, ConstantsAssumption
  <2> QED
    BY <1>4, <2>1, <2>2 DEF Ingest, TypeOK
<1>5. ASSUME NEW q \in Requests, Ask(q) PROVE TypeOK'
  <2>1. ready' \in Seq(Handles)
    BY <1>5, WakeType DEF Ask, Handles
  <2>2. asked' \in 0..MaxRequests
    BY <1>5, ConstantsAssumption DEF Ask, TypeOK, ConstantsAssumption
  <2> QED
    BY <1>5, <2>1, <2>2 DEF Ask, TypeOK
<1>6. CASE Dashboards
  BY <1>6 DEF Dashboards, TypeOK
<1> QED
  BY <1>1, <1>2, <1>3, <1>4, <1>5, <1>6 DEF Completion, Arrival

LEMMA InitType == Init => TypeOK
<1> SUFFICES ASSUME Init PROVE TypeOK
  OBVIOUS
<1>1. ready \in Seq(Handles) /\ queue \in Seq(Reading \cup {Malformed})
  BY DEF Init
<1>2. history \in [Ids -> Seq(Events)] /\ stage \in [Ids -> Stages] /\ approvals \in [Ids -> Nat]
  BY DEF Init, Stages
<1>3. density \in [Zones -> Nat] /\ qos \in [Zones -> {0, 1}] /\ main \in [at : {"get"}]
  BY DEF Init
<1>4. sent \in 0..MaxTelemetry /\ asked \in 0..MaxRequests /\ limit \in Limits
  BY ConstantsAssumption DEF Init, ConstantsAssumption
<1> QED
  BY <1>1, <1>2, <1>3, <1>4 DEF Init, TypeOK

LEMMA TypeKeeps == ASSUME TypeOK, [Next]_vars PROVE TypeOK'
<1>1. CASE LoopStep
  BY <1>1, MainType, LifeType, RequestType DEF LoopStep
<1>2. CASE Completion \/ Arrival
  BY <1>2, OutsideType
<1>3. CASE UNCHANGED vars
  BY <1>3 DEF TypeOK, vars, loopVars, safetyVars, taskVars, crowdVars, modeVars, inputVars
<1> QED
  BY <1>1, <1>2, <1>3 DEF Next

(* Type correctness of the intervention life cycle. *)
THEOREM TypeCorrect == Safety => []TypeOK
<1>1. TypeOK /\ [Next]_vars => TypeOK'
  BY TypeKeeps
<1> QED
  BY <1>1, InitType, PTL DEF Safety

-----------------------------------------------------------------------------
(* Nobody else changes a density while main_loop evaluates it. *)
QosInv == /\ QosFollowsDensity
          /\ main.at = "qos" => density[main.zone] = main.density

(* A step that touches neither densities nor levels, and neither enters nor *)
(* leaves the backpressure step.                                            *)
LEMMA CrowdFrame ==
    ASSUME QosInv, UNCHANGED crowdVars, main' = main \/ (main.at # "qos" /\ main'.at # "qos")
    PROVE  QosInv'
  BY DEF QosInv, QosFollowsDensity, crowdVars

LEMMA QosStep == ASSUME TypeOK, QosInv, [Next]_vars PROVE QosInv'
<1>1. CASE MainAccept
  <2>1. PICK r : /\ density' = [density EXCEPT ![r.zone] = r.density]
                 /\ main' = [at |-> "qos", zone |-> r.zone, density |-> r.density]
                 /\ r \in Reading
    <3>1. Head(queue) \in Reading
      BY <1>1 DEF MainAccept, TypeOK
    <3> QED
      BY <1>1, <3>1 DEF MainAccept
  <2>2. r.zone \in Zones /\ \A z \in Zones : z # r.zone => density'[z] = density[z]
    BY <2>1 DEF TypeOK, Reading
  <2>3. density'[r.zone] = r.density
    BY <2>1, <2>2 DEF TypeOK
  <2> QED
    BY <1>1, <2>1, <2>2, <2>3 DEF MainAccept, QosInv, QosFollowsDensity
<1>2. CASE MainQos
  <2>1. /\ main.at = "qos" /\ main.zone \in Zones /\ main'.at = "safety"
        /\ density' = density /\ density[main.zone] \in Nat
        /\ density[main.zone] = main.density /\ qos[main.zone] \in {0, 1}
    BY <1>2 DEF MainQos, MainGoesTo, TypeOK, QosInv
  <2>2. \A z \in Zones : z # main.zone => qos'[z] = qos[z]
    BY <1>2 DEF MainQos, TypeOK
  <2>3. /\ qos'[main.zone] = 0 => density[main.zone] < 20
        /\ qos'[main.zone] = 1 => density[main.zone] >= 15
    BY <1>2, <2>1 DEF MainQos, Escalates, Deescalates, TypeOK
  <2> QED
    BY <2>1, <2>2, <2>3 DEF QosInv, QosFollowsDensity
<1>3. CASE ~MainAccept /\ ~MainQos
  <2>1. CASE MainInfer
    <3>1. main'.at = "slm"
      BY <2>1 DEF MainInfer, MainGoesTo, TypeOK
    <3> QED
      BY <2>1, <3>1, CrowdFrame DEF MainInfer
  <2>2. CASE ~MainInfer
    <3>1. CASE MainPark \/ MainDrop \/ MainSkip \/ MainClear \/ MainSpawn
      BY <3>1, CrowdFrame DEF MainPark, MainDrop, MainSkip, MainClear, MainSpawn, MainGetsNext
    <3>2. CASE RequestStep
      <4>1. UNCHANGED <<main, crowdVars>>
        BY <3>2 DEF RequestStep, RejectRequest, Panic, Calm, AcceptVeto, ApproveEarly,
           AcceptApproval, AuditApproval, Configure
      <4> QED
        BY <4>1, CrowdFrame
    <3>3. CASE \E i \in Ids : LifeStep(i)
      <4>1. UNCHANGED <<main, crowdVars>>
        BY <3>3 DEF LifeStep, LifeStillborn, LifeAdvise, LifeStart, LifeLost, LifeSleep,
           LifeExpire, LifeComplete, LifeVetoed, LifeYielded, LifeCleared
      <4> QED
        BY <4>1, CrowdFrame
    <3>4. CASE Completion \/ Arrival \/ UNCHANGED vars
      <4>1. UNCHANGED <<main, crowdVars>>
        BY <3>4 DEF Completion, Arrival, SlmReturns, MainBroadcastDone, TimerFires,
           LifeBroadcastDone, ApprovalBroadcastDone, Ingest, Ask, Dashboards, vars
      <4> QED
        BY <4>1, CrowdFrame
    <3> QED
      BY <1>3, <2>2, <3>1, <3>2, <3>3, <3>4 DEF Next, LoopStep, MainStep
  <2> QED
    BY <2>1, <2>2
<1> QED
  BY <1>1, <1>2, <1>3

LEMMA QosStarts == Init => QosInv
  BY DEF Init, QosInv, QosFollowsDensity

(* Past the backpressure step, every zone's QoS level agrees with the       *)
(* density last reported for it, with hysteresis between 1.5 and 2.0.       *)
THEOREM QosAgrees == Safety => []QosFollowsDensity
<1>1. Init => QosInv
  BY QosStarts
<1>2. TypeOK /\ QosInv /\ [Next]_vars => QosInv'
  BY QosStep
<1>3. QosInv => QosFollowsDensity
  BY DEF QosInv
<1> QED
  BY <1>1, <1>2, <1>3, TypeCorrect, PTL DEF Safety

-----------------------------------------------------------------------------
(* The veto gate. *)

(* What a task has recorded of itself, by where it stands.                 *)
PhaseFacts(i) ==
    /\ stage[i] \in {"absent", "new"} => ~Has(i, "started") /\ ~Has(i, "actuated")
    /\ stage[i] \in {"announce", "sleep"} => Has(i, "started") /\ ~Has(i, "actuated")
    /\ stage[i] = "acting" => Has(i, "started") /\ Has(i, "actuated")
    /\ i \in cancelled => stage[i] # "absent"

GateInv == /\ \A i \in Ids : PhaseFacts(i)
           /\ \A z \in Zones : interventions[z] # NoTask => stage[interventions[z]] # "absent"

GateStep == [Gate!Next]_([i \in Ids |-> Phase(i)])

(* What the gate sees of task i stays, or it is withdrawn. *)
SameEvents(i) == \A e \in {"started", "actuated"} : Has(i, e)' <=> Has(i, e)
SamePhase(i) == stage'[i] = stage[i] /\ (i \in cancelled' <=> i \in cancelled) /\ SameEvents(i)
IsCancelled(i) == stage'[i] = stage[i] /\ i \in cancelled' /\ SameEvents(i)

Occurs(h, event) == \E n \in DOMAIN h : h[n] = event

LEMMA AppendOccurs ==
    ASSUME NEW h \in Seq(Events), NEW e \in Events
    PROVE  /\ Append(h, e) \in Seq(Events)
           /\ \A x : Occurs(Append(h, e), x) <=> Occurs(h, x) \/ x = e
<1>1. /\ DOMAIN h = 1..Len(h) /\ DOMAIN Append(h, e) = 1..(Len(h) + 1) /\ Len(h) \in Nat
      /\ \A n \in 1..Len(h) : Append(h, e)[n] = h[n]
      /\ Append(h, e)[Len(h) + 1] = e
  OBVIOUS
<1> QED
  BY <1>1 DEF Occurs

LEMMA RecordHas ==
    ASSUME TypeOK, NEW i \in Ids, NEW e \in Events, Record(i, e)
    PROVE  /\ \A j \in Ids : j # i => history'[j] = history[j]
           /\ \A x : Has(i, x)' <=> Has(i, x) \/ x = e
<1>1. PICK h \in Seq(Events) : h = history[i]
  BY DEF TypeOK
<1>2. /\ history'[i] = Append(h, e)
      /\ \A j \in Ids : j # i => history'[j] = history[j]
  BY <1>1 DEF TypeOK, Record
<1>3. /\ \A x : Has(i, x) <=> Occurs(h, x)
      /\ \A x : Has(i, x)' <=> Occurs(Append(h, e), x)
  BY <1>1, <1>2 DEF Has, Occurs
<1> QED
  BY <1>2, <1>3, AppendOccurs

LEMMA SameHistory ==
    ASSUME NEW i, history'[i] = history[i] PROVE SameEvents(i)
  BY DEF SameEvents, Has

(* One step, seen through the phases. *)
LEMMA PhaseStays == ASSUME NEW i \in Ids, SamePhase(i) PROVE Phase(i)' = Phase(i)
  BY DEF SamePhase, SameEvents, Phase, Awaited, Outcome

LEMMA PhaseEnds ==
    ASSUME TypeOK, NEW i \in Ids, PhaseFacts(i), IsCancelled(i), stage[i] # "absent"
    PROVE  Phase(i)' = IF Phase(i) = "open" THEN "withdrawn"
                       ELSE IF Phase(i) = "pending" THEN "dropped" ELSE Phase(i)
  BY DEF IsCancelled, SameEvents, Phase, Awaited, Outcome, TypeOK, Stages

LEMMA GateStutters ==
    ASSUME \A i \in Ids : Phase(i)' = Phase(i) PROVE GateStep
  BY DEF GateStep

LEMMA GateMoves ==
    ASSUME NEW i \in Ids, \A j \in Ids : j # i => Phase(j)' = Phase(j),
           NEW from, NEW to, Phase(i) = from, Phase(i)' = to,
           <<from, to>> \in {<<"none", "pending">>, <<"pending", "open">>, <<"pending", "advised">>,
                             <<"open", "fired">>}
    PROVE  GateStep
<1>1. [j \in Ids |-> Phase(j)]' = [[j \in Ids |-> Phase(j)] EXCEPT ![i] = to]
  OBVIOUS
<1> QED
  BY <1>1 DEF GateStep, Gate!Next, Gate!Propose, Gate!Open, Gate!Advise, Gate!Fire, Gate!Move

(* Withdrawing some of the tasks ends their proposals, or changes nothing. *)
LEMMA GateEnds ==
    ASSUME NEW S \in SUBSET Ids,
           \A i \in Ids : Phase(i)' = IF i \notin S THEN Phase(i)
                                      ELSE IF Phase(i) = "open" THEN "withdrawn"
                                      ELSE IF Phase(i) = "pending" THEN "dropped" ELSE Phase(i)
    PROVE  GateStep
<1> DEFINE T == {i \in S : Phase(i) \in {"pending", "open"}}
<1>1. CASE T = {}
  BY <1>1, GateStutters
<1>2. CASE T # {}
  <2>1. [i \in Ids |-> Phase(i)]' = [i \in Ids |-> IF i \notin T THEN Phase(i)
                                      ELSE IF Phase(i) = "open" THEN "withdrawn" ELSE "dropped"]
    OBVIOUS
  <2>2. Gate!End(T)
    BY <1>2, <2>1 DEF Gate!End
  <2> QED
    BY <2>2 DEF GateStep, Gate!Next
<1> QED
  BY <1>1, <1>2

(* Steps that leave the proposals as they are. *)
LEMMA QuietGate ==
    ASSUME TypeOK, GateInv, UNCHANGED <<stage, cancelled>>, \A i \in Ids : SameEvents(i),
           \A z \in Zones : interventions'[z] \in {interventions[z], NoTask}
    PROVE  GateInv' /\ GateStep
<1>1. \A i \in Ids : SamePhase(i)
  BY DEF SamePhase
<1>2. GateStep
  BY <1>1, PhaseStays, GateStutters
<1>3. \A i \in Ids : PhaseFacts(i)'
  BY DEF GateInv, PhaseFacts, SameEvents
<1> QED
  BY <1>2, <1>3 DEF GateInv

(* Steps that cancel registered tasks. *)
LEMMA CancelGate ==
    ASSUME TypeOK, GateInv, NEW S \in SUBSET Registered, NEW rest, Cancel(S, rest),
           stage' = stage, \A i \in Ids : SameEvents(i),
           \A z \in Zones : interventions'[z] \in {interventions[z], NoTask}
    PROVE  GateInv' /\ GateStep
<1>1. /\ S \in SUBSET Ids /\ \A i \in S : stage[i] # "absent"
      /\ cancelled' = cancelled \cup Live(S)
  BY DEF Registered, TypeOK, GateInv, Cancel
<1>2. \A i \in Ids : IF i \in Live(S) THEN IsCancelled(i) ELSE SamePhase(i)
  BY <1>1 DEF IsCancelled, SamePhase
<1>3. \A i \in Ids : PhaseFacts(i)'
  BY <1>1, <1>2 DEF GateInv, PhaseFacts, SameEvents, Live
<1>4. GateStep
  <2>1. Live(S) \in SUBSET Ids
    BY <1>1 DEF Live
  <2>2. \A i \in Live(S) : PhaseFacts(i) /\ IsCancelled(i) /\ stage[i] # "absent" /\ i \in Ids
    BY <1>1, <1>2 DEF GateInv, Live
  <2>3. \A i \in Ids : i \notin Live(S) => Phase(i)' = Phase(i)
    BY <1>2, PhaseStays
  <2>4. \A i \in Live(S) :
          Phase(i)' = IF Phase(i) = "open" THEN "withdrawn"
                      ELSE IF Phase(i) = "pending" THEN "dropped" ELSE Phase(i)
    BY <2>2, PhaseEnds
  <2> HIDE DEF Live, Phase
  <2> QED
    BY <2>1, <2>3, <2>4, GateEnds
<1>5. \A z \in Zones : interventions'[z] # NoTask => stage'[interventions'[z]] # "absent"
  BY DEF GateInv
<1> QED
  BY <1>3, <1>4, <1>5 DEF GateInv

(* A proposal is made: its task is created. *)
LEMMA SpawnGate == ASSUME TypeOK, GateInv, MainSpawn PROVE GateInv' /\ GateStep
<1>1. PICK k \in Ids : /\ stage[k] = "absent"
                       /\ stage' = [stage EXCEPT ![k] = "new"]
                       /\ interventions' = [interventions EXCEPT ![main.zone] = k]
  BY DEF MainSpawn
<1>2. UNCHANGED <<cancelled, history>>
  BY DEF MainSpawn
<1>3. \A i \in Ids : SameEvents(i)
  BY <1>2, SameHistory
<1>4. \A i \in Ids : i # k => SamePhase(i)
  BY <1>1, <1>2, <1>3 DEF SamePhase, TypeOK
<1>5. stage'[k] = "new" /\ k \notin cancelled /\ ~(k \in cancelled')
  BY <1>1, <1>2 DEF TypeOK, GateInv, PhaseFacts
<1>6. Phase(k) = "none" /\ Phase(k)' = "pending"
  BY <1>1, <1>5 DEF Phase, Awaited, Outcome
<1>7. GateStep
  BY <1>4, <1>6, PhaseStays, GateMoves
<1>8. \A i \in Ids : PhaseFacts(i)'
  <2>1. ASSUME NEW i \in Ids, i # k PROVE PhaseFacts(i)'
    BY <1>4, <2>1 DEF GateInv, PhaseFacts, SamePhase, SameEvents
  <2>2. PhaseFacts(k)'
    BY <1>1, <1>3, <1>5 DEF GateInv, PhaseFacts, SameEvents
  <2> QED
    BY <2>1, <2>2
<1>9. \A z \in Zones : interventions'[z] # NoTask => stage'[interventions'[z]] # "absent"
  BY <1>1, <1>5 DEF GateInv, TypeOK
<1> QED
  BY <1>7, <1>8, <1>9 DEF GateInv

(* Steps of one task. *)
MovesOn(i) == \/ Phase(i)' = Phase(i)
              \/ Phase(i) = "pending" /\ Phase(i)' \in {"open", "advised", "dropped"}
              \/ Phase(i) = "open" /\ Phase(i)' \in {"fired", "withdrawn"}

LEMMA TaskGate ==
    ASSUME TypeOK, GateInv, NEW i \in Ids,
           \A j \in Ids : j # i => SamePhase(j),
           stage[i] # "absent", stage'[i] # "absent",
           \A z \in Zones : interventions'[z] \in {interventions[z], NoTask},
           PhaseFacts(i)', MovesOn(i)
    PROVE  GateInv' /\ GateStep
<1>1. \A j \in Ids : j # i => Phase(j)' = Phase(j)
  BY PhaseStays
<1>2. GateStep
  <2>1. CASE Phase(i)' = Phase(i)
    BY <1>1, <2>1, GateStutters
  <2>2. CASE \/ Phase(i) = "pending" /\ Phase(i)' \in {"open", "advised"}
             \/ Phase(i) = "open" /\ Phase(i)' = "fired"
    BY <1>1, <2>2, GateMoves
  <2>3. CASE \/ Phase(i) = "pending" /\ Phase(i)' = "dropped"
             \/ Phase(i) = "open" /\ Phase(i)' = "withdrawn"
    <3>1. \A j \in Ids : Phase(j)' = IF j \notin {i} THEN Phase(j)
                                     ELSE IF Phase(j) = "open" THEN "withdrawn"
                                     ELSE IF Phase(j) = "pending" THEN "dropped" ELSE Phase(j)
      BY <1>1, <2>3
    <3> QED
      BY <3>1, GateEnds
  <2> QED
    BY <2>1, <2>2, <2>3 DEF MovesOn
<1>3. \A j \in Ids : PhaseFacts(j)'
  <2>1. ASSUME NEW j \in Ids, j # i PROVE PhaseFacts(j)'
    BY <2>1 DEF GateInv, PhaseFacts, SamePhase, SameEvents
  <2> QED
    BY <2>1
<1>4. \A z \in Zones : interventions'[z] # NoTask => stage'[interventions'[z]] # "absent"
  <2>1. \A z \in Zones : interventions'[z] # NoTask => interventions[z] \in Ids
    BY DEF TypeOK
  <2> QED
    BY <2>1 DEF GateInv, SamePhase
<1> QED
  BY <1>2, <1>3, <1>4 DEF GateInv

LEMMA LifeGateFrame ==
    ASSUME TypeOK, NEW i \in Ids, LifeStep(i)
    PROVE  /\ \A j \in Ids : j # i => SamePhase(j)
           /\ stage[i] # "absent" /\ stage'[i] # "absent"
           /\ \A z \in Zones : interventions'[z] \in {interventions[z], NoTask}
<1> USE DEF LifeStep, LifeStillborn, LifeAdvise, LifeStart, LifeLost, LifeSleep, LifeExpire,
            LifeComplete, LifeVetoed, LifeYielded, LifeCleared, FirstStep, Unwinds, Cleanup, Finish,
            safetyVars
<1>1. \A j \in Ids : j # i => /\ stage'[j] = stage[j]
                              /\ j \in cancelled' <=> j \in cancelled
  BY DEF TypeOK
<1>2. \A j \in Ids : j # i => history'[j] = history[j]
  BY DEF Record, TypeOK
<1>3. stage[i] # "absent" /\ stage'[i] # "absent"
  BY DEF TypeOK
<1>4. \A z \in Zones : interventions'[z] \in {interventions[z], NoTask}
  <2>1. interventions' = interventions \/ interventions' = [interventions EXCEPT ![script[i].zone] = NoTask]
    BY DEF Unregister
  <2> QED
    BY <2>1 DEF TypeOK
<1> QED
  BY <1>1, <1>2, <1>3, <1>4, SameHistory DEF SamePhase

LEMMA LifeGate ==
    ASSUME TypeOK, GateInv, NEW i \in Ids, LifeStep(i) PROVE GateInv' /\ GateStep
<1>0. PhaseFacts(i) /\ i \in DOMAIN stage
  BY DEF GateInv, TypeOK
<1> SUFFICES PhaseFacts(i)' /\ MovesOn(i)
  BY LifeGateFrame, TaskGate
<1>1. ASSUME LifeStillborn(i) \/ LifeLost(i) \/ LifeYielded(i), stage[i] # "absent"
      PROVE  PhaseFacts(i)' /\ MovesOn(i)
  <2>1. /\ stage'[i] = "done" /\ i \in cancelled /\ ~(i \in cancelled')
        /\ stage[i] \in {"new", "announce", "sleep", "acting"} /\ history' = history
    BY <1>0, <1>1 DEF LifeStillborn, LifeLost, LifeYielded, Unwinds, Cleanup, Finish
  <2>2. SameEvents(i)
    BY <2>1, SameHistory
  <2> QED
    BY <1>0, <2>1, <2>2 DEF PhaseFacts, MovesOn, Phase, Awaited, Outcome, SameEvents
<1>2. CASE LifeAdvise(i)
  <2>1. /\ stage'[i] = "done" /\ i \notin cancelled /\ ~(i \in cancelled') /\ stage[i] = "new"
    BY <1>0, <1>2 DEF LifeAdvise, FirstStep, Finish
  <2>2. Has(i, "actuated")' /\ (Has(i, "started")' <=> Has(i, "started"))
    BY <1>2, RecordHas DEF LifeAdvise, Events
  <2> QED
    BY <1>0, <2>1, <2>2 DEF PhaseFacts, MovesOn, Phase, Awaited, Outcome
<1>3. CASE LifeStart(i)
  <2>1. /\ stage'[i] = "announce" /\ i \notin cancelled /\ ~(i \in cancelled') /\ stage[i] = "new"
    BY <1>0, <1>3 DEF LifeStart, FirstStep
  <2>2. Has(i, "started")' /\ (Has(i, "actuated")' <=> Has(i, "actuated"))
    BY <1>3, RecordHas DEF LifeStart, Events
  <2> QED
    BY <1>0, <2>1, <2>2 DEF PhaseFacts, MovesOn, Phase, Awaited, Outcome
<1>4. CASE LifeSleep(i)
  <2>1. /\ stage'[i] = "sleep" /\ i \notin cancelled /\ ~(i \in cancelled') /\ stage[i] = "announce"
        /\ history' = history
    BY <1>0, <1>4 DEF LifeSleep
  <2>2. SameEvents(i)
    BY <2>1, SameHistory
  <2> QED
    BY <1>0, <2>1, <2>2 DEF PhaseFacts, MovesOn, Phase, Awaited, Outcome, SameEvents
<1>5. CASE LifeExpire(i)
  <2>1. /\ stage'[i] = "acting" /\ i \notin cancelled /\ ~(i \in cancelled') /\ stage[i] = "sleep"
    BY <1>0, <1>5 DEF LifeExpire
  <2>2. Has(i, "actuated")' /\ (Has(i, "started")' <=> Has(i, "started"))
    BY <1>5, RecordHas DEF LifeExpire, Events
  <2> QED
    BY <1>0, <2>1, <2>2 DEF PhaseFacts, MovesOn, Phase, Awaited, Outcome
<1>6. CASE LifeComplete(i) \/ LifeVetoed(i) \/ LifeCleared(i)
  <2>1. /\ stage'[i] = "done" /\ ~(i \in cancelled')
        /\ stage[i] = "acting" \/ (stage[i] = "sleep" /\ i \in cancelled)
    BY <1>0, <1>6 DEF LifeComplete, LifeVetoed, LifeCleared, Unwinds, Cleanup, Finish
  <2>2. SameEvents(i)
    BY <1>6, RecordHas DEF LifeComplete, LifeVetoed, LifeCleared, Events, SameEvents
  <2> QED
    BY <1>0, <2>1, <2>2 DEF PhaseFacts, MovesOn, Phase, Awaited, Outcome, SameEvents
<1>7. stage[i] # "absent"
  BY LifeGateFrame
<1> QED
  BY <1>1, <1>2, <1>3, <1>4, <1>5, <1>6, <1>7 DEF LifeStep

(* Decisions of operators, and of the crowd. *)
LEMMA ApprovalEvents ==
    ASSUME TypeOK, NEW z \in Zones, AcceptApproval(z) PROVE \A i \in Ids : SameEvents(i)
<1>1. PICK k \in Ids : scripts[z] = k
  BY DEF AcceptApproval, TypeOK
<1>2. \A i \in Ids : i # k => history'[i] = history[i]
  BY <1>1 DEF AcceptApproval, Record, TypeOK
<1>3. SameEvents(k)
  <2>1. CASE Record(k, "actuated_approved")
    BY <2>1, RecordHas DEF SameEvents, Events
  <2>2. CASE history' = [history EXCEPT ![k] = @ \o <<"actuated_approved", "approved">>]
    <3>1. PICK h \in Seq(Events) : h = history[k]
      BY DEF TypeOK
    <3>2. PICK one : one = Append(h, "actuated_approved")
      OBVIOUS
    <3>3. PICK two : two = Append(one, "approved")
      OBVIOUS
    <3>4. history'[k] = two
      <4>1. h \o <<"actuated_approved", "approved">> = two
        BY <3>2, <3>3 DEF Events
      <4> QED
        BY <2>2, <3>1, <4>1 DEF TypeOK
    <3>5. /\ one \in Seq(Events)
          /\ \A x : Occurs(one, x) <=> Occurs(h, x) \/ x = "actuated_approved"
      BY <3>2, AppendOccurs DEF Events
    <3>6. \A x : Occurs(two, x) <=> Occurs(one, x) \/ x = "approved"
      BY <3>3, <3>5, AppendOccurs DEF Events
    <3> QED
      BY <3>1, <3>4, <3>5, <3>6 DEF SameEvents, Has, Occurs
  <2> QED
    BY <1>1, <2>1, <2>2 DEF AcceptApproval
<1> QED
  BY <1>2, <1>3, SameHistory

LEMMA DecisionGate ==
    ASSUME TypeOK, GateInv,
           MainClear \/ Panic \/ \E z \in Zones : AcceptVeto(z) \/ ApproveEarly(z) \/ AcceptApproval(z)
    PROVE  GateInv' /\ GateStep
<1>a. \A z \in Zones : TaskOf(z) \in SUBSET Registered
  BY DEF TaskOf, Registered
<1>1. CASE MainClear
  <2>1. /\ main.zone \in Zones /\ Cancel(TaskOf(main.zone), ready)
        /\ UNCHANGED <<stage, history, interventions>>
    BY <1>1 DEF MainClear, TypeOK
  <2>2. \A i \in Ids : SameEvents(i)
    BY <2>1, SameHistory
  <2> QED
    BY <1>a, <2>1, <2>2, CancelGate
<1>2. CASE Panic
  <2>1. /\ Cancel(Registered, Tail(ready)) /\ UNCHANGED <<stage, history>>
        /\ \A z \in Zones : interventions'[z] = NoTask
    BY <1>2 DEF Panic
  <2>2. \A i \in Ids : SameEvents(i)
    BY <2>1, SameHistory
  <2> QED
    BY <2>1, <2>2, CancelGate
<1>3. ASSUME NEW z \in Zones, AcceptVeto(z) \/ ApproveEarly(z) \/ AcceptApproval(z)
      PROVE  GateInv' /\ GateStep
  <2>1. Cancel(TaskOf(z), Tail(ready)) /\ UNCHANGED <<stage, interventions>>
    BY <1>3 DEF AcceptVeto, ApproveEarly, AcceptApproval, safetyVars
  <2>2. \A i \in Ids : SameEvents(i)
    <3>1. CASE AcceptVeto(z)
      <4>1. scripts[z] \in Ids /\ Record(scripts[z], "veto")
        BY <3>1 DEF AcceptVeto, TypeOK
      <4> QED
        BY <4>1, RecordHas, SameHistory DEF SameEvents, Events
    <3>2. CASE ApproveEarly(z)
      BY <3>2, SameHistory DEF ApproveEarly
    <3> QED
      BY <1>3, <3>1, <3>2, ApprovalEvents
  <2> QED
    BY <1>a, <2>1, <2>2, CancelGate
<1> QED
  BY <1>1, <1>2, <1>3

LEMMA OtherGate ==
    ASSUME TypeOK, GateInv,
           \/ MainPark \/ MainDrop \/ MainAccept \/ MainQos \/ MainSkip \/ MainInfer
           \/ RejectRequest \/ Calm \/ (\E l \in Limits : Configure(l))
           \/ (\E i \in Ids : AuditApproval(i))
           \/ Completion \/ Arrival \/ UNCHANGED vars
    PROVE  GateInv' /\ GateStep
<1>1. UNCHANGED <<stage, cancelled, interventions>>
  BY DEF MainPark, MainDrop, MainAccept, MainQos, MainSkip, MainInfer, RejectRequest, Calm,
         Configure, AuditApproval, Completion, SlmReturns, MainBroadcastDone, TimerFires,
         LifeBroadcastDone, ApprovalBroadcastDone, Arrival, Ingest, Ask, Dashboards, vars,
         safetyVars, taskVars
<1>2. \A i \in Ids : SameEvents(i)
  <2>1. ASSUME NEW k \in Ids, AuditApproval(k) PROVE \A i \in Ids : SameEvents(i)
    BY <2>1, RecordHas, SameHistory DEF AuditApproval, SameEvents, Events
  <2>2. CASE history' = history
    BY <2>2, SameHistory
  <2>3. history' = history \/ \E k \in Ids : AuditApproval(k)
    BY DEF MainPark, MainDrop, MainAccept, MainQos, MainSkip, MainInfer, RejectRequest, Calm,
           Configure, Completion, SlmReturns, MainBroadcastDone, TimerFires,
           LifeBroadcastDone, ApprovalBroadcastDone, Arrival, Ingest, Ask, Dashboards, vars, taskVars
  <2> QED
    BY <2>1, <2>2, <2>3
<1> QED
  BY <1>1, <1>2, QuietGate

LEMMA GateAdvances == ASSUME TypeOK, GateInv, [Next]_vars PROVE GateInv' /\ GateStep
<1>1. CASE MainStep
  BY <1>1, OtherGate, DecisionGate, SpawnGate DEF MainStep
<1>2. CASE RequestStep
  BY <1>2, OtherGate, DecisionGate DEF RequestStep
<1>3. CASE \E i \in Ids : LifeStep(i)
  BY <1>3, LifeGate
<1>4. CASE Completion \/ Arrival \/ UNCHANGED vars
  BY <1>4, OtherGate
<1> QED
  BY <1>1, <1>2, <1>3, <1>4 DEF Next, LoopStep

LEMMA GateStarts == Init => GateInv /\ Gate!Init
<1> SUFFICES ASSUME Init PROVE GateInv /\ Gate!Init
  OBVIOUS
<1>1. \A i \in Ids : stage[i] = "absent" /\ i \notin cancelled /\ DOMAIN history[i] = {}
  BY DEF Init
<1>2. \A i \in Ids : PhaseFacts(i) /\ Phase(i) = "none"
  BY <1>1 DEF PhaseFacts, Has, Phase, Awaited, Outcome
<1>3. \A z \in Zones : interventions[z] = NoTask
  BY DEF Init
<1> QED
  BY <1>2, <1>3 DEF GateInv, Gate!Init

(* Whatever the inference engine answers, every proposed script actuates by *)
(* itself at most once, out of a window that was opened for it or without   *)
(* one when it asks for none, and never after its window was withdrawn: a   *)
(* veto, an approval, clearing telemetry and panic mode withdraw it, also   *)
(* when its timer has fired already.                                        *)
THEOREM GateHolds == Safety => GateIsKept
<1>1. TypeOK /\ GateInv /\ [Next]_vars => GateInv' /\ GateStep
  BY GateAdvances
<1>2. Init => GateInv /\ Gate!Init
  BY GateStarts
<1> QED
  BY <1>1, <1>2, TypeCorrect, PTL DEF Safety, GateIsKept, Gate!Safety, GateStep

=============================================================================
