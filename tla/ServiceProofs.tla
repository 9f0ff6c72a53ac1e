--------------------------- MODULE ServiceProofs ---------------------------
(***************************************************************************)
(* The service with its surroundings, for every set of zones and every     *)
(* bound: the registries of the life cycle, the veto gate, the decisions   *)
(* of operators, QoS and wakeups survive a write_audit_log that may raise  *)
(* wherever it is called, the MQTT side is that of MqttLink, and no zone   *)
(* keeps a QoS 1 subscription past its surge.                              *)
(***************************************************************************)
EXTENDS Service, DecisionProofs, LinkProofs

serviceAll == <<vars, serviceVars>>

LEMMA SendingType ==
    ASSUME ServiceTypeOK, NEW n \in DOMAIN sending
    PROVE  sending[n].by \in Ids /\ sending[n].state \in Displays
<1>1. sending \in Seq([by : Ids, state : Displays])
  BY DEF ServiceTypeOK
<1>2. \A S : \A s \in Seq(S) : \A m \in DOMAIN s : s[m] \in S
  OBVIOUS
<1>3. sending[n] \in [by : Ids, state : Displays]
  BY <1>1, <1>2
<1> QED
  BY <1>3

(* Every step is one of Interventions, leaves its state alone, or is a      *)
(* coroutine that ends at a failing write.                                  *)
LEMMA ServiceSteps ==
    ASSUME ServiceTypeOK, ServiceNext, ~WriteFails PROVE [Next]_vars
<1> USE DEF Next, LoopStep, MainStep, RequestStep, LifeStep, Completion, Arrival
<1>1. CASE TestClient \/ RunBroadcast \/ MqttThread
  BY <1>1 DEF TestClient, RunBroadcast, MqttThread
<1>2. CASE SwitchQos \/ KeepQos \/ Propose \/ Clear
  BY <1>2 DEF SwitchQos, KeepQos, Propose, Clear
<1>3. CASE QuietStep
  BY <1>3 DEF QuietStep
<1>4. ASSUME NEW i \in Ids, Announce(i) \/ Advise(i) PROVE [Next]_vars
  BY <1>4 DEF Announce, Advise
<1>5. CASE ShowingStep
  BY <1>5 DEF ShowingStep
<1>6. CASE Outside
  BY <1>6 DEF Outside
<1>7. ASSUME NEW n \in DOMAIN sending, Delivered(n) PROVE [Next]_vars
  <2>1. sending[n].by \in Ids
    BY SendingType
  <2> QED
    BY <1>7, <2>1 DEF Delivered
<1>8. CASE DashboardJoins \/ LastDashboardLeaves
  BY <1>8 DEF DashboardJoins, LastDashboardLeaves
<1> QED
  BY <1>1, <1>2, <1>3, <1>4, <1>5, <1>6, <1>7, <1>8 DEF ServiceNext
-----------------------------------------------------------------------------
(* Failing writes. *)

LEMMA WriteFailsType == ASSUME TypeOK, WriteFails PROVE TypeOK'
<1> USE DEF loopVars, safetyVars, taskVars, crowdVars, modeVars, inputVars
<1>a. ready # <<>> /\ Tail(ready) \in Seq(Handles)
  BY RestType DEF WriteFails, FirstWriteFails, LaterWriteFails, ApprovalWriteFails,
     ActuationWriteFails, QosWriteFails, InferenceWriteFails, ModeWriteFails, Switches, FirstStep,
     Running
<1>1. ASSUME NEW i \in Ids, FirstWriteFails(i) PROVE TypeOK'
  BY <1>a, <1>1 DEF FirstWriteFails, FirstStep, Finish, TypeOK, Stages
<1>2. ASSUME NEW i \in Ids, LaterWriteFails(i) PROVE TypeOK'
  <2>1. Cleanup(i) /\ script[i] \in Script
    BY <1>2 DEF LaterWriteFails, FinallyBlock, TypeOK
  <2> QED
    BY <1>a, <1>2, <2>1, CleanupType DEF LaterWriteFails, TypeOK
<1>3. ASSUME NEW i \in Ids, ApprovalWriteFails(i) PROVE TypeOK'
  BY <1>a, <1>3 DEF ApprovalWriteFails, TypeOK
<1>4. ASSUME NEW z \in Zones, ActuationWriteFails(z) PROVE TypeOK'
  <2>1. TaskOf(z) \in SUBSET Ids
    BY DEF TaskOf, TypeOK
  <2>2. ready' \in Seq(Handles) /\ cancelled' \in SUBSET Ids
    BY <1>a, <1>4, <2>1, CancelType DEF ActuationWriteFails
  <2> QED
    BY <1>4, <2>2 DEF ActuationWriteFails, TypeOK
<1>5. CASE QosWriteFails
  BY <1>5 DEF QosWriteFails, Switches, MainGetsNext, TypeOK
<1>6. CASE InferenceWriteFails
  BY <1>6 DEF InferenceWriteFails, MainGetsNext, TypeOK
<1>7. ASSUME NEW mode \in BOOLEAN, ModeWriteFails(mode) PROVE TypeOK'
  BY <1>a, <1>7 DEF ModeWriteFails, TypeOK
<1> QED
  BY <1>1, <1>2, <1>3, <1>4, <1>5, <1>6, <1>7 DEF WriteFails

(* A failing write that touches neither registries nor tasks. *)
LEMMA HarmlessFailure ==
    ASSUME TypeOK, RegistryInv,
           \/ QosWriteFails \/ InferenceWriteFails
           \/ \E i \in Ids : ApprovalWriteFails(i)
           \/ \E mode \in BOOLEAN : ModeWriteFails(mode)
    PROVE  RegistryInv'
<1>1. PICK h : Running(h) /\ (\A i \in Ids : Life(i) # h)
  <2>1. CASE QosWriteFails \/ InferenceWriteFails
    BY <2>1, HandlesDiffer DEF QosWriteFails, InferenceWriteFails, Switches
  <2>2. CASE \E i \in Ids : ApprovalWriteFails(i)
    BY <2>2, HandlesDiffer DEF ApprovalWriteFails
  <2>3. ASSUME NEW mode \in BOOLEAN, ModeWriteFails(mode)
        PROVE  \E h : Running(h) /\ (\A i \in Ids : Life(i) # h)
    <3>1. \A i \in Ids : Life(i) # [run |-> "panic"] /\ Life(i) # [run |-> "calm"]
      <4>1. \A i \in Ids : Life(i).run = "life"
        BY DEF Life
      <4>2. [run |-> "panic"].run = "panic" /\ [run |-> "calm"].run = "calm"
        OBVIOUS
      <4> QED
        BY <4>1, <4>2
    <3>2. CASE mode
      BY <2>3, <3>1, <3>2 DEF ModeWriteFails
    <3>3. CASE ~mode
      BY <2>3, <3>1, <3>3 DEF ModeWriteFails
    <3> QED
      BY <2>3, <3>2, <3>3
  <2> QED
    BY <2>1, <2>2, <2>3
<1>2. (ready' = ready \/ ready' = Tail(ready)) /\ (main' = main \/ main'.at # "slm")
  <2>1. CASE QosWriteFails \/ InferenceWriteFails
    BY <2>1 DEF QosWriteFails, InferenceWriteFails, MainGetsNext, loopVars
  <2>2. CASE \E i \in Ids : ApprovalWriteFails(i)
    BY <2>2 DEF ApprovalWriteFails
  <2>3. ASSUME NEW mode \in BOOLEAN, ModeWriteFails(mode)
        PROVE  ready' = Tail(ready) /\ main' = main
    BY <2>3 DEF ModeWriteFails
  <2> QED
    BY <2>1, <2>2, <2>3
<1>3. MainOnce' /\ \A i \in cancelled : Keeps(Life(i))
  BY <1>1, <1>2, ConsumeKeeps DEF RegistryInv, TypeOK
<1>4. UNCHANGED <<interventions, scripts, script, stage, cancelled>>
  BY DEF QosWriteFails, InferenceWriteFails, ApprovalWriteFails, ModeWriteFails, safetyVars,
         taskVars
<1> QED
  BY <1>2, <1>3, <1>4, Frame

LEMMA ActuationFailure ==
    ASSUME TypeOK, RegistryInv, NEW z \in Zones, ActuationWriteFails(z) PROVE RegistryInv'
<1>1. TaskOf(z) \in SUBSET Registered
  BY DEF TaskOf, Registered
<1>2. Running(Approve(z)) /\ \A i \in Ids : Life(i) # Approve(z)
  BY DEF ActuationWriteFails, Approve, Life
<1>3. /\ Cancel(TaskOf(z), Tail(ready)) /\ main' = main
      /\ UNCHANGED <<interventions, scripts, script, stage>>
  BY DEF ActuationWriteFails
<1> QED
  BY <1>1, <1>2, <1>3, CancelRegistered

(* Before the try block: the zone stays registered, under a finished task. *)
LEMMA FirstFailure ==
    ASSUME TypeOK, RegistryInv, NEW i \in Ids, FirstWriteFails(i) PROVE RegistryInv'
<1>1. /\ Running(Life(i)) /\ ready' = Tail(ready)
      /\ UNCHANGED <<main, script, interventions, scripts>> /\ cancelled' = cancelled \ {i}
      /\ \A j \in Ids : j # i => stage'[j] = stage[j]
      /\ stage'[i] = "done" /\ stage[i] = "new"
  BY DEF FirstWriteFails, FirstStep, Finish, safetyVars, TypeOK
<1> QED
  BY <1>1, TaskMoves

(* Inside it, or in its handler. *)
LEMMA LaterFailure ==
    ASSUME TypeOK, RegistryInv, NEW i \in Ids, LaterWriteFails(i) PROVE RegistryInv'
<1>1. /\ Running(Life(i)) /\ stage[i] \in {"sleep", "acting"} /\ Cleanup(i)
      /\ UNCHANGED <<main, script>>
  BY DEF LaterWriteFails, FinallyBlock
<1> QED
  BY <1>1, CleanupKeeps

LEMMA FailureKeeps == ASSUME TypeOK, RegistryInv, WriteFails PROVE RegistryInv'
  BY HarmlessFailure, ActuationFailure, FirstFailure, LaterFailure DEF WriteFails

-----------------------------------------------------------------------------
(* Types. *)

LEMMA ServiceStarts == ServiceInit => ServiceTypeOK /\ RegistryInv /\ LinkInv
<1> SUFFICES ASSUME ServiceInit PROVE ServiceTypeOK /\ RegistryInv /\ LinkInv
  OBVIOUS
<1>1. TypeOK /\ RegistryInv /\ LinkTypeOK /\ LinkInv
  BY InitType, RegistryInit, LinkStarts DEF ServiceInit
<1>2. sending \in Seq([by : Ids, state : Displays]) /\ shown \subseteq Displays
  BY DEF ServiceInit
<1> QED
  BY <1>1, <1>2 DEF ServiceInit, ServiceTypeOK

(* The MQTT side takes steps of MqttLink only. *)
LEMMA LinkSteps ==
    ASSUME TypeOK, [ServiceNext]_serviceAll PROVE [LinkNext]_linkVars
<1> USE DEF LinkNext, OffLink
<1>1. CASE MqttThread
  BY <1>1 DEF MqttThread
<1>2. CASE RunBroadcast
  BY <1>2 DEF RunBroadcast
<1>3. ASSUME RequestSubscription, main.at = "qos" PROVE [LinkNext]_linkVars
  <2>1. main.zone \in ZoneTopics
    BY <1>3, TopicAssumption DEF TypeOK
  <2>2. \/ UNCHANGED linkVars
        \/ Subscribe(main.zone) \/ Unsubscribe(main.zone)
    BY <1>3 DEF RequestSubscription, linkVars
  <2>3. UNCHANGED <<link, handler, connected, client, tells, attempts>>
    BY <1>3 DEF RequestSubscription
  <2> QED
    BY <2>1, <2>2, <2>3 DEF LoopRequest
<1>4. CASE SwitchQos \/ QosWriteFails
  <2>1. RequestSubscription /\ main.at = "qos"
    BY <1>4 DEF SwitchQos, MainQos, QosWriteFails, Switches
  <2> QED
    BY <1>3, <2>1
<1>5. CASE ~(MqttThread \/ RunBroadcast \/ SwitchQos \/ QosWriteFails)
  <2>1. CASE TestClient \/ KeepQos \/ Propose \/ Clear \/ QuietStep \/ ShowingStep \/ Outside
             \/ DashboardJoins \/ LastDashboardLeaves
    BY <2>1 DEF TestClient, KeepQos, Propose, Clear, QuietStep, ShowingStep, Outside,
       DashboardJoins, LastDashboardLeaves
  <2>2. CASE \E i \in Ids : Announce(i) \/ Advise(i)
    BY <2>2 DEF Announce, Advise
  <2>3. CASE WriteFails
    BY <1>5, <2>3 DEF WriteFails, FirstWriteFails, LaterWriteFails, ApprovalWriteFails,
       ActuationWriteFails, InferenceWriteFails, ModeWriteFails, Loses
  <2>4. CASE \E n \in DOMAIN sending : Delivered(n)
    BY <2>4 DEF Delivered
  <2>5. CASE UNCHANGED serviceAll
    BY <2>5 DEF serviceAll, serviceVars
  <2> QED
    BY <1>5, <2>1, <2>2, <2>3, <2>4, <2>5 DEF ServiceNext
<1> QED
  BY <1>1, <1>2, <1>4, <1>5

(* What the dashboards get is always a display. *)
ScreenType ==
    /\ shown \subseteq Displays
    /\ sending \in Seq([by : Ids, state : Displays])

LEMMA ScreenSteps ==
    ASSUME ServiceTypeOK, TypeOK', LinkTypeOK', llm' \in BOOLEAN, [ServiceNext]_serviceAll
    PROVE  ScreenType'
<1> USE DEF ScreenType
<1>1. Display' \in Displays
  BY DEF Display, Displays, TypeOK, LinkTypeOK
<1>2. /\ shown \subseteq Displays /\ sending \in Seq([by : Ids, state : Displays])
      /\ <<>> \in Seq([by : Ids, state : Displays])
  BY DEF ServiceTypeOK
<1>3. CASE Broadcast
  BY <1>1, <1>2, <1>3 DEF Broadcast
<1>4. ASSUME NEW i \in Ids, TaskBroadcast(i) PROVE ScreenType'
  <2>1. [by |-> i, state |-> Display'] \in [by : Ids, state : Displays]
    BY <1>1
  <2>2. \A S : \A s \in Seq(S) : \A e \in S : Append(s, e) \in Seq(S)
    OBVIOUS
  <2>3. sending' \in Seq([by : Ids, state : Displays])
    BY <1>2, <1>4, <2>1, <2>2 DEF TaskBroadcast, Sends
  <2>4. shown' \subseteq Displays
    BY <1>2, <1>4 DEF TaskBroadcast, Sends
  <2> QED
    BY <2>3, <2>4
<1>5. CASE UNCHANGED <<shown, sending>>
  BY <1>2, <1>5
<1>6. ASSUME NEW n \in DOMAIN sending,
             shown' = shown \/ shown' = {sending[n].state},
             sending' = Later(n) \/ sending' = SubSeq(sending, 1, n - 1) \o Later(n)
      PROVE  ScreenType'
  <2>1. \A S : \A s \in Seq(S) : \A m \in DOMAIN s :
          /\ SubSeq(s, m + 1, Len(s)) \in Seq(S)
          /\ SubSeq(s, 1, m - 1) \in Seq(S)
          /\ SubSeq(s, 1, m - 1) \o SubSeq(s, m + 1, Len(s)) \in Seq(S)
    OBVIOUS
  <2>2. sending' \in Seq([by : Ids, state : Displays])
    BY <1>2, <1>6, <2>1 DEF Later
  <2>3. shown' \subseteq Displays
    BY <1>2, <1>6, SendingType
  <2> QED
    BY <2>2, <2>3
<1>7. ASSUME NEW S, NEW otherwise \in BOOLEAN, Withdraws(S, otherwise),
             otherwise => UNCHANGED <<shown, sending>>
      PROVE  ScreenType'
  BY <1>5, <1>6, <1>7 DEF Withdraws, CutShort, Arrives
<1>8. CASE LastDashboardLeaves
  BY <1>2, <1>8 DEF LastDashboardLeaves
<1>9. CASE SwitchQos \/ ShowingStep \/ RunBroadcast \/ DashboardJoins
  BY <1>3, <1>9 DEF SwitchQos, ShowingStep, RunBroadcast, DashboardJoins
<1>10. CASE TestClient \/ KeepQos \/ Propose \/ QuietStep \/ Outside \/ MqttThread
  BY <1>5, <1>10 DEF TestClient, KeepQos, Propose, QuietStep, Outside, MqttThread, Silent, shownVars
<1>11. CASE Clear
  BY <1>7, <1>11 DEF Clear, Silent, shownVars
<1>12. ASSUME NEW i \in Ids, Announce(i) \/ Advise(i) PROVE ScreenType'
  BY <1>4, <1>12 DEF Announce, Advise
<1>13. CASE WriteFails
  <2>1. ASSUME NEW z \in Zones, ActuationWriteFails(z) PROVE ScreenType'
    BY <1>7, <2>1 DEF ActuationWriteFails, Excuses
  <2>2. ASSUME NEW i \in Ids, LaterWriteFails(i) PROVE ScreenType'
    BY <1>3, <2>2 DEF LaterWriteFails
  <2>3. CASE \/ QosWriteFails \/ InferenceWriteFails
             \/ \E i \in Ids : FirstWriteFails(i) \/ ApprovalWriteFails(i)
             \/ \E mode \in BOOLEAN : ModeWriteFails(mode)
    BY <1>5, <2>3 DEF QosWriteFails, InferenceWriteFails, FirstWriteFails, ApprovalWriteFails,
       ModeWriteFails, Loses, Excuses
  <2> QED
    BY <1>13, <2>1, <2>2, <2>3 DEF WriteFails
<1>14. ASSUME NEW n \in DOMAIN sending, Delivered(n) PROVE ScreenType'
  BY <1>6, <1>14 DEF Delivered, Arrives
<1>15. CASE UNCHANGED serviceAll
  BY <1>5, <1>15 DEF serviceAll, serviceVars, shownVars
<1> QED
  BY <1>8, <1>9, <1>10, <1>11, <1>12, <1>13, <1>14, <1>15 DEF ServiceNext

LEMMA ServiceStep ==
    ASSUME ServiceTypeOK, [ServiceNext]_serviceAll PROVE ServiceTypeOK'
<1>1. TypeOK /\ LinkTypeOK
  BY DEF ServiceTypeOK
<1>2. TypeOK'
  <2>1. CASE UNCHANGED serviceAll
    BY <1>1, <2>1, TypeKeeps DEF serviceAll
  <2>2. CASE ServiceNext /\ ~WriteFails
    BY <1>1, <2>2, ServiceSteps, TypeKeeps
  <2>3. CASE WriteFails
    BY <1>1, <2>3, WriteFailsType
  <2> QED
    BY <2>1, <2>2, <2>3
<1>3. LinkTypeOK'
  BY <1>1, LinkSteps, LinkTypeKeeps
<1>4. request' \in {"none", "made", "skipped"} /\ llm' \in BOOLEAN /\ excused' \in BOOLEAN
  <2> USE DEF ServiceTypeOK, OffLink, Silent, shownVars, Broadcast, Loses, Excuses
  <2>1. CASE TestClient \/ SwitchQos \/ KeepQos \/ Propose \/ QuietStep
    BY <2>1 DEF TestClient, SwitchQos, RequestSubscription, KeepQos, Propose, QuietStep
  <2>2. CASE Clear
    BY <2>2 DEF Clear, Withdraws, CutShort
  <2>3. CASE \E i \in Ids : Announce(i) \/ Advise(i)
    BY <2>3 DEF Announce, Advise, TaskBroadcast, Sends
  <2>4. CASE ShowingStep \/ RunBroadcast
    BY <2>4 DEF ShowingStep, RunBroadcast
  <2>5. CASE WriteFails
    BY <2>5 DEF WriteFails, FirstWriteFails, LaterWriteFails, ApprovalWriteFails,
       ActuationWriteFails, Withdraws, CutShort, QosWriteFails, RequestSubscription,
       InferenceWriteFails, ModeWriteFails
  <2>6. CASE Outside \/ DashboardJoins \/ LastDashboardLeaves \/ MqttThread
    BY <2>6 DEF Outside, DashboardJoins, LastDashboardLeaves, MqttThread
  <2>7. CASE \E n \in DOMAIN sending : Delivered(n)
    BY <2>7 DEF Delivered
  <2>8. CASE UNCHANGED serviceAll
    BY <2>8 DEF serviceAll, serviceVars
  <2> QED
    BY <2>1, <2>2, <2>3, <2>4, <2>5, <2>6, <2>7, <2>8 DEF ServiceNext
<1>5. ScreenType'
  BY <1>2, <1>3, <1>4, ScreenSteps
<1> QED
  BY <1>2, <1>3, <1>4, <1>5 DEF ServiceTypeOK, ScreenType

(* Type correctness of the service. *)
THEOREM ServiceTypeCorrect == ServiceSafety => []ServiceTypeOK
<1>1. ServiceTypeOK /\ [ServiceNext]_serviceAll => ServiceTypeOK'
  BY ServiceStep
<1> QED
  BY <1>1, ServiceStarts, PTL DEF ServiceSafety, serviceAll

-----------------------------------------------------------------------------
(* The life cycle and the link, within the service. *)

LEMMA ServiceRegistry == Foreign = {} /\ ServiceSafety => []RegistryInv
<1> SUFFICES ASSUME Foreign = {} PROVE ServiceSafety => []RegistryInv
  OBVIOUS
<1>1. ASSUME ServiceTypeOK, RegistryInv, [ServiceNext]_serviceAll PROVE RegistryInv'
  <2>1. TypeOK
    BY <1>1 DEF ServiceTypeOK
  <2>2. CASE UNCHANGED serviceAll
    BY <1>1, <2>1, <2>2, RegistryStep DEF serviceAll
  <2>3. CASE ServiceNext /\ ~WriteFails
    BY <1>1, <2>1, <2>3, ServiceSteps, RegistryStep
  <2>4. CASE WriteFails
    BY <1>1, <2>1, <2>4, FailureKeeps
  <2> QED
    BY <1>1, <2>2, <2>3, <2>4
<1>2. ServiceTypeOK /\ RegistryInv /\ [ServiceNext]_serviceAll => RegistryInv'
  BY <1>1
<1> QED
  BY <1>2, ServiceStarts, ServiceTypeCorrect, PTL DEF ServiceSafety, serviceAll

(* No audit write that fails, wherever it is made, leaves a countdown that *)
(* the operators cannot see and their decisions cannot cancel.             *)
THEOREM FailuresHideNoCountdown == Foreign = {} /\ ServiceSafety => []NoHiddenCountdown
<1>1. RegistryInv => NoHiddenCountdown
  BY DEF RegistryInv, PendingRegistered, NoHiddenCountdown, Pending, Counting, ZoneOf
<1> QED
  BY <1>1, ServiceRegistry, PTL

(* Nor does it separate the script on display from its task. *)
THEOREM FailuresKeepDisplay == Foreign = {} /\ ServiceSafety => []ScriptHasItsTask
<1>1. RegistryInv => ScriptHasItsTask
  BY DEF RegistryInv, ShownMatches, ScriptHasItsTask
<1> QED
  BY <1>1, ServiceRegistry, PTL

(* Nor does it replace one script on display by another. *)
THEOREM FailuresReplaceNoScript == Foreign = {} /\ ServiceSafety => NoScriptOverwritten
<1>1. ASSUME TypeOK, NEW z \in Zones, WriteFails PROVE scripts'[z] \in {scripts[z], NoTask}
  <2>1. scripts' = scripts \/ \E i \in Ids : Cleanup(i)
    BY <1>1 DEF WriteFails, FirstWriteFails, LaterWriteFails, FinallyBlock, ApprovalWriteFails,
       ActuationWriteFails, QosWriteFails, InferenceWriteFails, ModeWriteFails, safetyVars
  <2> QED
    BY <1>1, <2>1 DEF Cleanup, Unregister, TypeOK
<1>2. ASSUME ServiceTypeOK, RegistryInv, [ServiceNext]_serviceAll
      PROVE  [\A z \in Zones : scripts[z] # NoTask => scripts'[z] \in {scripts[z], NoTask}]_vars
  <2>1. TypeOK
    BY <1>2 DEF ServiceTypeOK
  <2>2. CASE UNCHANGED serviceAll
    BY <2>2 DEF serviceAll
  <2>3. CASE ServiceNext /\ ~WriteFails
    BY <1>2, <2>1, <2>3, ServiceSteps, DisplayStep
  <2>4. CASE WriteFails
    BY <1>1, <2>1, <2>4
  <2> QED
    BY <1>2, <2>2, <2>3, <2>4
<1>3. ServiceTypeOK /\ RegistryInv /\ [ServiceNext]_serviceAll
        => [\A z \in Zones : scripts[z] # NoTask => scripts'[z] \in {scripts[z], NoTask}]_vars
  BY <1>2
<1> QED
  BY <1>3, ServiceTypeCorrect, ServiceRegistry, PTL DEF ServiceSafety, serviceAll, NoScriptOverwritten

-----------------------------------------------------------------------------
(* The gate and the decisions, when writes fail. *)

(* A write that fails records nothing. *)
LEMMA FailureRecordsNothing ==
    ASSUME TypeOK, WriteFails
    PROVE  /\ UNCHANGED <<history, script, approvals>> /\ vetoed' = vetoed
           /\ \A i \in Ids : SameEvents(i)
           /\ \A z \in Zones : interventions'[z] \in {interventions[z], NoTask}
<1>1. UNCHANGED <<history, script, approvals>> /\ vetoed' = vetoed
  BY DEF WriteFails, FirstWriteFails, LaterWriteFails, ApprovalWriteFails,
     ActuationWriteFails, QosWriteFails, InferenceWriteFails, ModeWriteFails, safetyVars, taskVars
<1>2. interventions' = interventions \/ \E i \in Ids : Cleanup(i)
  BY DEF WriteFails, FirstWriteFails, LaterWriteFails, FinallyBlock, ApprovalWriteFails,
     ActuationWriteFails, QosWriteFails, InferenceWriteFails, ModeWriteFails, safetyVars
<1>3. \A z \in Zones : interventions'[z] \in {interventions[z], NoTask}
  BY <1>2 DEF Cleanup, Unregister, TypeOK
<1> QED
  BY <1>1, <1>3, SameHistory

(* It may end a task, which ends its window with it. *)
LEMMA EndedTask ==
    ASSUME TypeOK, NEW i \in Ids, FirstWriteFails(i) \/ LaterWriteFails(i)
    PROVE  /\ Running(Life(i)) /\ ready' = Tail(ready) /\ main' = main
           /\ stage' = [stage EXCEPT ![i] = "done"] /\ cancelled' = cancelled \ {i}
           /\ (stage[i] = "new" /\ i \notin cancelled) \/ stage[i] \in {"sleep", "acting"}
  BY DEF FirstWriteFails, LaterWriteFails, FirstStep, FinallyBlock, Cleanup, Finish

LEMMA FailureGate == ASSUME TypeOK, GateInv, WriteFails PROVE GateInv' /\ GateStep
<1>0. /\ \A i \in Ids : SameEvents(i)
      /\ \A z \in Zones : interventions'[z] \in {interventions[z], NoTask}
  BY FailureRecordsNothing
<1>1. ASSUME NEW i \in Ids, FirstWriteFails(i) \/ LaterWriteFails(i) PROVE GateInv' /\ GateStep
  <2>1. /\ stage' = [stage EXCEPT ![i] = "done"] /\ cancelled' = cancelled \ {i}
        /\ (stage[i] = "new" /\ i \notin cancelled) \/ stage[i] \in {"sleep", "acting"}
    BY <1>1, EndedTask
  <2>2. stage'[i] = "done" /\ ~(i \in cancelled')
    BY <2>1 DEF TypeOK
  <2>3. \A j \in Ids : j # i => SamePhase(j)
    BY <1>0, <2>1 DEF SamePhase, TypeOK
  <2>4. PhaseFacts(i) /\ SameEvents(i)
    BY <1>0 DEF GateInv
  <2>5. PhaseFacts(i)' /\ MovesOn(i)
    BY <2>1, <2>2, <2>4 DEF PhaseFacts, MovesOn, Phase, Awaited, Outcome, SameEvents
  <2>6. stage[i] # "absent" /\ stage'[i] # "absent"
    BY <2>1, <2>2
  <2> QED
    BY <1>0, <2>3, <2>5, <2>6, TaskGate
<1>2. ASSUME NEW z \in Zones, ActuationWriteFails(z) PROVE GateInv' /\ GateStep
  <2>1. /\ Cancel(TaskOf(z), Tail(ready)) /\ stage' = stage /\ TaskOf(z) \in SUBSET Registered
    BY <1>2 DEF ActuationWriteFails, TaskOf, Registered
  <2> QED
    BY <1>0, <2>1, CancelGate
<1>3. ASSUME \/ QosWriteFails \/ InferenceWriteFails \/ \E i \in Ids : ApprovalWriteFails(i)
             \/ \E mode \in BOOLEAN : ModeWriteFails(mode)
      PROVE  GateInv' /\ GateStep
  <2>1. UNCHANGED <<stage, cancelled>>
    BY <1>3 DEF QosWriteFails, InferenceWriteFails, ApprovalWriteFails, ModeWriteFails, taskVars
  <2> QED
    BY <1>0, <2>1, QuietGate
<1> QED
  BY <1>1, <1>2, <1>3 DEF WriteFails

LEMMA FailureDecides ==
    ASSUME TypeOK, RegistryInv, DecisionInv, WriteFails PROVE DecisionInv'
<1>0. UNCHANGED <<history, script, approvals>> /\ vetoed' = vetoed
  BY FailureRecordsNothing
<1>1. ASSUME NEW i \in Ids, FirstWriteFails(i) \/ LaterWriteFails(i), NEW j \in Ids PROVE Sound(j)'
  <2>1. /\ Running(Life(i)) /\ ready' = Tail(ready)
        /\ stage' = [stage EXCEPT ![i] = "done"] /\ cancelled' = cancelled \ {i}
    BY <1>1, EndedTask
  <2>2. IsReady(Approved(j))' => IsReady(Approved(j))
    BY <2>1, ConsumeApproved
  <2>3. /\ Sound(j) /\ history'[j] = history[j] /\ (Decided(j) => Decided(j)')
        /\ (Decided(j)' <=> Decided(j) \/ j = i) /\ (MarkSeen(j)' => MarkSeen(j))
        /\ j # i => stage'[j] = stage[j]
    BY <1>0, <2>1 DEF DecisionInv, Decided, MarkSeen, ZoneOf, TypeOK
  <2>4. ~Decided(j)' => /\ approvals'[j] = 0 /\ ~IsReady(Approved(j))'
                        /\ stage[j] = "acting" => stage'[j] = "acting"
    BY <1>0, <2>2, <2>3 DEF Sound, Untouched
  <2> QED
    BY <2>3, <2>4, SoundFrame
<1>2. ASSUME NEW z \in Zones, ActuationWriteFails(z) PROVE DecisionInv'
  <2>1. /\ Running(Approve(z)) /\ Cancel(TaskOf(z), Tail(ready)) /\ stage' = stage
        /\ TaskOf(z) \in SUBSET Ids
    BY <1>2 DEF ActuationWriteFails, TaskOf, TypeOK
  <2> QED
    BY <1>0, <2>1, CancelFrame DEF DecisionInv
<1>3. ASSUME \/ QosWriteFails \/ InferenceWriteFails \/ \E i \in Ids : ApprovalWriteFails(i)
             \/ \E mode \in BOOLEAN : ModeWriteFails(mode)
      PROVE  DecisionInv'
  <2>1. UNCHANGED <<stage, cancelled>>
    BY <1>3 DEF QosWriteFails, InferenceWriteFails, ApprovalWriteFails, ModeWriteFails, taskVars
  <2>2. (\E h : Running(h)) /\ (ready' = ready \/ ready' = Tail(ready))
    BY <1>3 DEF QosWriteFails, Switches, InferenceWriteFails, ApprovalWriteFails, ModeWriteFails,
       loopVars
  <2> QED
    BY <1>0, <2>1, <2>2, ConsumeApproved, QuietFrame
<1> QED
  BY <1>1, <1>2, <1>3 DEF WriteFails, DecisionInv

LEMMA FailureQos == ASSUME TypeOK, QosInv, WriteFails PROVE QosInv'
<1>1. CASE QosWriteFails
  <2>1. /\ main.at = "qos" /\ main.zone \in Zones /\ main'.at = "get"
        /\ density' = density /\ density[main.zone] \in Nat
        /\ density[main.zone] = main.density /\ qos[main.zone] \in {0, 1}
    BY <1>1 DEF QosWriteFails, Switches, MainGetsNext, TypeOK, QosInv
  <2>2. \A z \in Zones : z # main.zone => qos'[z] = qos[z]
    BY <1>1 DEF QosWriteFails, TypeOK
  <2>3. /\ qos'[main.zone] = 0 => density[main.zone] < 20
        /\ qos'[main.zone] = 1 => density[main.zone] >= 15
    BY <1>1, <2>1 DEF QosWriteFails, Switches, Escalates, Deescalates, TypeOK
  <2> QED
    BY <2>1, <2>2, <2>3 DEF QosInv, QosFollowsDensity
<1>2. CASE InferenceWriteFails
  BY <1>2, CrowdFrame DEF InferenceWriteFails, MainGetsNext
<1>3. CASE ~QosWriteFails /\ ~InferenceWriteFails
  <2>1. UNCHANGED <<main, crowdVars>>
    BY <1>3 DEF WriteFails, FirstWriteFails, LaterWriteFails, ApprovalWriteFails,
       ActuationWriteFails, ModeWriteFails
  <2> QED
    BY <2>1, CrowdFrame
<1> QED
  BY <1>1, <1>2, <1>3

LEMMA FailureWakes == ASSUME TypeOK, WakeInv, WriteFails PROVE WakeInv'
<1>1. ASSUME NEW i \in Ids, FirstWriteFails(i) \/ LaterWriteFails(i) PROVE WakeInv'
  <2>1. /\ Running(Life(i)) /\ ready' = Tail(ready) /\ UNCHANGED <<main, queue>>
        /\ cancelled' = cancelled \ {i} /\ stage' = [stage EXCEPT ![i] = "done"]
    BY <1>1, EndedTask DEF FirstWriteFails, LaterWriteFails
  <2>2. MainOnce' /\ \A g : g # Life(i) => Keeps(g)
    BY <2>1, ConsumeKeeps DEF WakeInv
  <2>3. Life(i) # Main /\ \A j \in Ids : j # i => Life(j) # Life(i)
    BY HandlesDiffer
  <2>4. i \notin cancelled' /\ stage'[i] # "new" /\ cancelled' \subseteq cancelled
        /\ \A j \in Ids : j # i => stage'[j] = stage[j]
    BY <2>1 DEF TypeOK
  <2> QED
    BY <2>1, <2>2, <2>3, <2>4, RunsAndWakes
<1>2. ASSUME NEW z \in Zones, ActuationWriteFails(z) PROVE WakeInv'
  <2>1. TaskOf(z) \in SUBSET Ids
    BY DEF TaskOf, TypeOK
  <2>2. Running(Approve(z)) /\ Cancel(TaskOf(z), Tail(ready)) /\ UNCHANGED <<main, queue, stage>>
    BY <1>2 DEF ActuationWriteFails
  <2>3. Approve(z) # Main /\ \A i \in Ids : Life(i) # Approve(z)
    BY DEF Approve, Main, Life
  <2> QED
    BY <2>1, <2>2, <2>3, RequestEnds
<1>3. ASSUME NEW i \in Ids, ApprovalWriteFails(i) PROVE WakeInv'
  BY <1>3, RequestEnds, HandlesDiffer DEF ApprovalWriteFails, taskVars
<1>4. ASSUME NEW mode \in BOOLEAN, ModeWriteFails(mode) PROVE WakeInv'
  BY <1>4, RequestEnds DEF ModeWriteFails, Main, Life, taskVars
<1>5. CASE QosWriteFails \/ InferenceWriteFails
  <2>1. Running(Main) /\ UNCHANGED <<ready, stage, cancelled>>
    BY <1>5 DEF QosWriteFails, InferenceWriteFails, Switches, loopVars, taskVars
  <2>2. MainOnce' /\ \A g : Keeps(g)
    BY <2>1 DEF WakeInv, MainOnce, Keeps, IsReady, Ahead
  <2>3. IsReady(Main)'
    <3>1. 1 \in DOMAIN ready /\ ready[1] = Main
      BY <2>1 DEF Running, TypeOK
    <3> QED
      BY <2>1, <3>1 DEF IsReady
  <2>4. \A i \in Ids : Life(i) # Main /\ (i \in cancelled' => i \in cancelled)
                                     /\ (stage'[i] = "new" => stage[i] = "new")
    BY <2>1, HandlesDiffer
  <2> QED
    BY <2>2, <2>3, <2>4, RunsAndWakes
<1> QED
  BY <1>1, <1>2, <1>3, <1>4, <1>5 DEF WriteFails

(* What holds of the event loop by itself and survives a failing write      *)
(* holds of the service.                                                    *)
LEMMA ServiceLoop ==
    ASSUME ServiceTypeOK, [ServiceNext]_serviceAll
    PROVE  TypeOK /\ ([Next]_vars \/ WriteFails)
<1>1. CASE UNCHANGED serviceAll
  BY <1>1 DEF serviceAll, ServiceTypeOK
<1>2. CASE ServiceNext
  BY <1>2, ServiceSteps DEF ServiceTypeOK
<1> QED
  BY <1>1, <1>2

LEMMA ServiceDecides == Foreign = {} /\ ServiceSafety => []DecisionInv
<1>1. ServiceTypeOK /\ RegistryInv /\ DecisionInv /\ [ServiceNext]_serviceAll => DecisionInv'
  BY ServiceLoop, DecisionStep, FailureDecides
<1>2. ServiceInit => DecisionInv
  BY DecisionInit DEF ServiceInit
<1> QED
  BY <1>1, <1>2, ServiceTypeCorrect, ServiceRegistry, PTL DEF ServiceSafety, serviceAll

(* Wherever an audit write fails, the gate is kept: the script whose entry  *)
(* could not be written is dropped or has been actuated once, and no window *)
(* reopens.                                                                 *)
THEOREM FailuresKeepGate == ServiceSafety => GateIsKept
<1>1. ServiceTypeOK /\ GateInv /\ [ServiceNext]_serviceAll => GateInv' /\ GateStep
  BY ServiceLoop, GateAdvances, FailureGate
<1>2. ServiceInit => GateInv /\ Gate!Init
  BY GateStarts DEF ServiceInit
<1> QED
  BY <1>1, <1>2, ServiceTypeCorrect, PTL
     DEF ServiceSafety, serviceAll, GateIsKept, Gate!Safety, GateStep

(* An accepted veto still stops its countdown, the timer still overrules no *)
(* decision, and what is audited as vetoed was vetoed.                      *)
THEOREM FailuresKeepDecisions ==
    Foreign = {} /\ ServiceSafety => [](VetoStopsCountdown /\ TimerNeverOverrules /\ VetoedMeansVetoed)
<1>1. DecisionInv => VetoStopsCountdown /\ TimerNeverOverrules /\ VetoedMeansVetoed
  BY DecisionsHold
<1> QED
  BY <1>1, ServiceDecides, PTL

(* And the QoS of a zone follows its density, although the entry of its     *)
(* switch may fail.                                                         *)
THEOREM FailuresKeepQos == ServiceSafety => []QosFollowsDensity
<1>1. ServiceTypeOK /\ QosInv /\ [ServiceNext]_serviceAll => QosInv'
  BY ServiceLoop, QosStep, FailureQos
<1>2. ServiceInit => QosInv
  BY QosStarts DEF ServiceInit
<1>3. QosInv => QosFollowsDensity
  BY DEF QosInv
<1> QED
  BY <1>1, <1>2, <1>3, ServiceTypeCorrect, PTL DEF ServiceSafety, serviceAll

(* A write that fails ends a coroutine, and leaves nobody unwoken: main_loop *)
(* catches the exception and goes on, and the task that ends was not to be  *)
(* told of anything any more.                                               *)
THEOREM FailuresLoseNoWakeup == ServiceSafety => []NoWakeupLost
<1>1. ServiceTypeOK /\ WakeInv /\ [ServiceNext]_serviceAll => WakeInv'
  BY ServiceLoop, WakeStep, FailureWakes
<1>2. ServiceInit => WakeInv
  BY WakeStarts DEF ServiceInit
<1>3. WakeInv => NoWakeupLost
  BY DEF WakeInv
<1> QED
  BY <1>1, <1>2, <1>3, ServiceTypeCorrect, PTL DEF ServiceSafety, serviceAll

-----------------------------------------------------------------------------
(* The link, within the service. *)

(* Composed with the event loop, the MQTT side is the one MqttLink         *)
(* specifies: the loop's requests do not disturb what the callbacks do.    *)
THEOREM ServiceImplementsLink == ServiceSafety => LinkSpec
<1>1. ServiceInit => LinkInit
  BY DEF ServiceInit
<1>2. ServiceTypeOK /\ [ServiceNext]_serviceAll => [LinkNext]_linkVars
  BY LinkSteps DEF ServiceTypeOK
<1> QED
  BY <1>1, <1>2, ServiceTypeCorrect, PTL DEF ServiceSafety, serviceAll, LinkSpec

(* So telemetry and vetoes are heard, and the dashboards are told how the  *)
(* link stands, while the loop subscribes and unsubscribes zones.          *)
THEOREM ServiceListens == ServiceSafety => [](ListensWhenUp /\ FlagsTellLink)
  BY ServiceImplementsLink, VetoTopicIsHeard, FlagsAreRight, PTL

-----------------------------------------------------------------------------
(* A zone leaves QoS 1 in two steps of the event loop: the client is tested *)
(* in the first and asked to unsubscribe in the second.  If there is none   *)
(* at either, the callback that cleared it found the link down, and nothing *)
(* has been subscribed for a zone since: only the loop does that.           *)
Unheard == \A z \in Zones : z \notin subs

LeakInv ==
    /\ link # "up" => subs = {}
    /\ ~client \/ request = "skipped" => Unheard
    /\ NoLeakedSubscription

LEMMA LeakStarts == ServiceInit => LeakInv
  BY DEF ServiceInit, LinkInit, LeakInv, Unheard, NoLeakedSubscription

(* What the callbacks do, and what the network does to them. *)
LEMMA LeakLink == ASSUME LinkInv, LeakInv, MqttThread PROVE LeakInv'
<1>1. qos' = qos /\ request' = request
  BY DEF MqttThread, vars, crowdVars
<1>2. "+" \notin Zones /\ "veto" \notin Zones
  BY LinkAssumption, TopicAssumption
<1>3. /\ link' # "up" => subs' = {}
      /\ Unheard => Unheard'
      /\ NoLeakedSubscription => NoLeakedSubscription'
  <2> USE <1>1, <1>2 DEF Unheard, NoLeakedSubscription, LeakInv
  <2>1. CASE Accepted \/ Refused \/ Drop \/ Noticed
    BY <2>1 DEF Accepted, Refused, Attempt, Drop, Noticed
  <2>2. CASE SetConnected \/ SetClient \/ ScheduleBroadcast
    BY <2>2 DEF SetConnected, SetClient, ScheduleBroadcast
  <2>3. CASE SubscribeAll \/ SubscribeVeto
    BY <2>3 DEF SubscribeAll, SubscribeVeto, Subscribe
  <2> QED
    BY <2>1, <2>2, <2>3 DEF MqttThread, LinkStep, Callback
<1>4. ~client' => ~client \/ subs' = {}
  <2>1. CASE SetClient
    <3>1. PICK set \in BOOLEAN :
            /\ Executes(IF set THEN "setClient" ELSE "clearClient")
            /\ client' = set /\ link' = link /\ subs' = subs
      BY <2>1 DEF SetClient
    <3>2. CASE set
      BY <3>1, <3>2
    <3>3. CASE ~set
      <4>1. handler = Disconnect2
        BY <3>1, <3>3, Positions, PositionsDiffer
        DEF Executes, LinkInv, Connecting, Disconnecting
      <4>2. link # "up"
        BY <4>1 DEF LinkInv, Disconnecting
      <4> QED
        BY <3>1, <4>2 DEF LeakInv
    <3> QED
      BY <3>2, <3>3
  <2>2. CASE ~SetClient
    BY <2>2 DEF MqttThread, LinkStep, Callback, Accepted, Refused, Drop, Noticed, SetConnected,
       SubscribeAll, SubscribeVeto, ScheduleBroadcast
  <2> QED
    BY <2>1, <2>2
<1> QED
  BY <1>1, <1>3, <1>4 DEF LeakInv, Unheard

(* The loop's request, with the change of the zone's QoS. *)
LEMMA LeakRequest ==
    ASSUME TypeOK, LeakInv, RequestSubscription, main.zone \in Zones,
           IF Escalates \/ Deescalates
             THEN qos' = [qos EXCEPT ![main.zone] = IF Escalates THEN 1 ELSE 0]
             ELSE qos' = qos,
           request # "none", request \in {"none", "made", "skipped"}
    PROVE  LeakInv'
<1>1. UNCHANGED <<link, client>> /\ request' = "none"
  BY DEF RequestSubscription
<1>2. \A z \in Zones : z # main.zone => qos'[z] = qos[z] /\ (z \in subs' => z \in subs)
  BY DEF RequestSubscription, Subscribe, Unsubscribe, TypeOK
<1>3. link # "up" => subs' = {}
  BY DEF RequestSubscription, Subscribe, Unsubscribe, LeakInv
<1>4. ~client => Unheard'
  BY DEF RequestSubscription, LeakInv, Unheard
<1>5. main.zone \in subs' => qos'[main.zone] = 1
  <2>1. CASE Escalates
    BY <2>1 DEF TypeOK
  <2>2. CASE ~Escalates
    <3>1. main.zone \notin subs'
      BY <2>2 DEF RequestSubscription, Unsubscribe, LeakInv, Unheard
    <3> QED
      BY <3>1
  <2> QED
    BY <2>1, <2>2
<1>6. NoLeakedSubscription'
  BY <1>2, <1>5 DEF LeakInv, NoLeakedSubscription
<1> QED
  BY <1>1, <1>3, <1>4, <1>6 DEF LeakInv

LEMMA LeakStep ==
    ASSUME ServiceTypeOK, LinkInv, LeakInv, [ServiceNext]_serviceAll PROVE LeakInv'
<1>a. TypeOK
  BY DEF ServiceTypeOK
<1>f. ASSUME UNCHANGED <<link, subs, client, request, qos>> PROVE LeakInv'
  BY <1>f DEF LeakInv, Unheard, NoLeakedSubscription
<1>1. CASE MqttThread
  BY <1>1, LeakLink
<1>2. CASE TestClient
  <2>1. UNCHANGED <<link, subs, client, qos>> /\ request' = IF client THEN "made" ELSE "skipped"
    BY <1>2 DEF TestClient, linkVars, vars, crowdVars
  <2> QED
    BY <2>1 DEF LeakInv, Unheard, NoLeakedSubscription
<1>3. CASE SwitchQos
  <2>1. /\ RequestSubscription /\ main.zone \in Zones /\ request # "none"
        /\ IF Escalates \/ Deescalates
             THEN qos' = [qos EXCEPT ![main.zone] = IF Escalates THEN 1 ELSE 0]
             ELSE qos' = qos
    BY <1>a, <1>3 DEF SwitchQos, MainQos, TypeOK
  <2> QED
    BY <1>a, <2>1, LeakRequest DEF ServiceTypeOK
<1>4. CASE QosWriteFails
  <2>1. /\ RequestSubscription /\ main.zone \in Zones /\ request # "none"
        /\ Escalates \/ Deescalates
        /\ qos' = [qos EXCEPT ![main.zone] = IF Escalates THEN 1 ELSE 0]
    BY <1>a, <1>4 DEF QosWriteFails, Switches, TypeOK
  <2> QED
    BY <1>a, <2>1, LeakRequest DEF ServiceTypeOK
<1>5. CASE KeepQos
  BY <1>f, <1>5 DEF KeepQos, MainQos, Switches, OffLink, linkVars
<1>6. CASE WriteFails /\ ~QosWriteFails
  BY <1>f, <1>6 DEF WriteFails, FirstWriteFails, LaterWriteFails, ApprovalWriteFails,
     ActuationWriteFails, InferenceWriteFails, ModeWriteFails, Loses, OffLink, linkVars, crowdVars
<1>7. CASE UNCHANGED serviceAll
  BY <1>f, <1>7 DEF serviceAll, serviceVars, linkVars, vars, crowdVars
<1>8. CASE ~(WriteFails \/ MqttThread \/ TestClient \/ SwitchQos \/ KeepQos) /\ ServiceNext
  <2> SUFFICES UNCHANGED <<link, subs, client, request, qos>>
    BY <1>f
  <2> USE DEF OffLink, linkVars, crowdVars
  <2>1. CASE Propose \/ Clear
    BY <2>1 DEF Propose, MainSpawn, Clear, MainClear
  <2>2. CASE QuietStep
    BY <2>2 DEF QuietStep, MainPark, MainDrop, MainSkip, MainInfer, RejectRequest, LifeStillborn,
       LifeLost, LifeSleep
  <2>3. CASE \E i \in Ids : Announce(i) \/ Advise(i)
    BY <2>3 DEF Announce, LifeStart, Advise, LifeAdvise
  <2>4. CASE ShowingStep
    BY <2>4 DEF ShowingStep, MainAccept, LifeExpire, LifeComplete, LifeVetoed, LifeYielded,
       LifeCleared, AuditApproval, AcceptVeto, ApproveEarly, AcceptApproval, Panic, Calm, Configure
  <2>5. CASE RunBroadcast
    BY <2>5 DEF RunBroadcast, BroadcastRuns, vars
  <2>6. CASE Outside
    BY <2>6 DEF Outside, Ingest, Ask, SlmReturns, MainBroadcastDone, TimerFires,
       ApprovalBroadcastDone, LifeBroadcastDone
  <2>7. CASE DashboardJoins \/ LastDashboardLeaves
    BY <2>7 DEF DashboardJoins, LastDashboardLeaves, Dashboards, vars
  <2>8. CASE \E n \in DOMAIN sending : Delivered(n)
    BY <2>8 DEF Delivered, LifeBroadcastDone, vars
  <2> QED
    BY <1>8, <2>1, <2>2, <2>3, <2>4, <2>5, <2>6, <2>7, <2>8 DEF ServiceNext
<1> QED
  BY <1>1, <1>2, <1>3, <1>4, <1>5, <1>6, <1>7, <1>8

(* A zone's own subscription, which asks the broker to deliver each reading *)
(* at least once, ends with its surge, wherever the client is lost between  *)
(* the test, the request and the callbacks, and whichever audit write fails.*)
THEOREM NoSubscriptionLeaks == ServiceSafety => []NoLeakedSubscription
<1>1. ServiceTypeOK /\ LinkInv /\ LeakInv /\ [ServiceNext]_serviceAll => LeakInv'
  BY LeakStep
<1>2. LeakInv => NoLeakedSubscription
  BY DEF LeakInv
<1> QED
  BY <1>1, <1>2, LeakStarts, ServiceTypeCorrect, ServiceImplementsLink, LinkInvHolds, PTL
  DEF ServiceSafety, serviceAll
=============================================================================
