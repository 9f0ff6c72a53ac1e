------------------------------ MODULE Service ------------------------------
(***************************************************************************)
(* The orchestrator with its surroundings: the event loop of Interventions,*)
(* the MQTT thread of MqttLink, the dashboards, and an audit file that     *)
(* cannot always be written.                                               *)
(*                                                                         *)
(* Every loop step is one of Interventions, with what it sends to the      *)
(* dashboards, or one cut short by an exception of write_audit_log.  A     *)
(* request of the loop to the MQTT client is made between two steps of the *)
(* MQTT thread, and so is the test that precedes it.  A broadcast takes    *)
(* its snapshot when it is called; snapshots reach the dashboards in that  *)
(* order unless the sending task is cancelled first.                       *)
(***************************************************************************)
EXTENDS Interventions, MqttLink

(* stadium/<zone>/telemetry *)
ASSUME TopicAssumption == ZoneTopics = Zones

VARIABLES
    request,    \* the loop's request to the client: "none", "made" or "skipped"
    llm,        \* last_llm_status
    shown,      \* the last snapshot the dashboards get: {} or {state}
    sending,    \* those that tasks are still sending, in order: [by, state]
    excused     \* since the last broadcast a write failed or one was cut short

shownVars == <<shown, sending, excused>>
serviceVars == <<linkVars, request, llm, shownVars>>

(* broadcast_state: what the dashboards are shown. *)
Display == [panic |-> panic, density |-> density, qos |-> qos, limit |-> limit,
            scripts |-> scripts, connected |-> connected, llm |-> llm]

Displays == [panic : BOOLEAN, density : [Zones -> Nat], qos : [Zones -> {0, 1}], limit : Limits,
             scripts : [Zones -> {NoTask} \cup Ids], connected : BOOLEAN, llm : BOOLEAN]

ServiceTypeOK ==
    /\ TypeOK
    /\ LinkTypeOK
    /\ request \in {"none", "made", "skipped"}
    /\ llm \in BOOLEAN
    /\ shown \subseteq Displays
    /\ sending \in Seq([by : Ids, state : Displays])
    /\ excused \in BOOLEAN

ServiceInit ==
    /\ Init
    /\ LinkInit
    /\ request = "none"
    /\ llm = TRUE
    /\ shown = {}
    /\ sending = <<>>
    /\ excused = FALSE

-----------------------------------------------------------------------------
(* Dashboards. *)

(* When a snapshot has been sent, so have those taken before it. *)
Broadcast ==
    /\ shown' = IF watched' THEN {Display'} ELSE {}
    /\ sending' = <<>>
    /\ excused' = FALSE

(* A broadcast of a life-cycle task can be cancelled with the task. *)
Sends(i, state) ==
    /\ sending' = IF watched' THEN Append(sending, [by |-> i, state |-> state]) ELSE <<>>
    /\ excused' = FALSE
    /\ UNCHANGED shown

(* Fault: a script is announced before it is registered. *)
TaskBroadcast_TooEarly(i) == Sends(i, [Display' EXCEPT !.scripts = scripts])

TaskBroadcast(i) == Sends(i, Display')

Silent == UNCHANGED shownVars

Excuses == excused' = TRUE /\ UNCHANGED <<shown, sending>>

(* The tasks with a snapshot still to be sent. *)
Senders == {sending[n].by : n \in DOMAIN sending}

Later(n) == SubSeq(sending, n + 1, Len(sending))
Arrives(n) == shown' = {sending[n].state} /\ sending' = Later(n)

(* The sends not made yet are cancelled with the task that awaits them:    *)
(* all of them, or those to some of the dashboards.                        *)
CutShort(n) ==
    /\ \/ Arrives(n)
       \/ UNCHANGED shown /\ sending' = SubSeq(sending, 1, n - 1) \o Later(n)
    /\ excused' = TRUE

Withdraws(S, otherwise) ==
    IF Senders \cap S = {} THEN otherwise
    ELSE \E n \in DOMAIN sending : sending[n].by \in S /\ CutShort(n)

OffLink == UNCHANGED <<linkVars, request, llm>>

-----------------------------------------------------------------------------
(* Steps of the event loop. *)

(* The zone's own subscription follows its QoS.  The client is tested, and *)
(* used in a later step of this thread: it may be gone by then, which      *)
(* raises an exception that is caught.  zone_qos changes before the test   *)
(* in the code; no other thread reads it.                                  *)
Switches == Running(Main) /\ main.at = "qos" /\ (Escalates \/ Deescalates)

TestClient ==
    /\ Switches /\ request = "none"
    /\ request' = IF client THEN "made" ELSE "skipped"
    /\ UNCHANGED <<vars, linkVars, llm, shownVars>>

(* Fault: the QoS 1 subscription is kept when the zone has calmed. *)
RequestSubscription_Keeps ==
    /\ IF request = "made" /\ client /\ Escalates THEN Subscribe(main.zone) ELSE UNCHANGED subs
    /\ request' = "none"
    /\ UNCHANGED <<link, handler, connected, client, tells, attempts, llm>>

RequestSubscription ==
    /\ IF request = "made" /\ client
         THEN IF Escalates THEN Subscribe(main.zone) ELSE Unsubscribe(main.zone)
         ELSE UNCHANGED subs
    /\ request' = "none"
    /\ UNCHANGED <<link, handler, connected, client, tells, attempts, llm>>

SwitchQos == request # "none" /\ MainQos /\ RequestSubscription /\ Broadcast
KeepQos == ~Switches /\ MainQos /\ OffLink /\ Silent

(* The inference status is set on the way to the proposal: offline with    *)
(* the fallback rule.                                                      *)
Propose ==
    /\ MainSpawn
    /\ llm' \in BOOLEAN
    /\ ~llm' => \E i \in Ids : stage[i] = "absent" /\ script'[i] = FallbackScript
    /\ UNCHANGED <<linkVars, request>>
    /\ Silent

Clear ==
    /\ MainClear
    /\ OffLink
    /\ Withdraws(TaskOf(main.zone), Silent)

QuietStep ==
    /\ \/ MainPark \/ MainDrop \/ MainSkip \/ MainInfer \/ RejectRequest
       \/ \E i \in Ids : LifeStillborn(i) \/ LifeLost(i) \/ LifeSleep(i)
    /\ OffLink /\ Silent

Announce(i) == LifeStart(i) /\ OffLink /\ TaskBroadcast(i)

Advise(i) == LifeAdvise(i) /\ OffLink /\ TaskBroadcast(i)

ShowingStep ==
    /\ \/ MainAccept
       \/ \E i \in Ids : \/ LifeExpire(i) \/ LifeComplete(i) \/ LifeVetoed(i) \/ LifeYielded(i)
                         \/ LifeCleared(i) \/ AuditApproval(i)
       \/ \E z \in Zones : AcceptVeto(z) \/ ApproveEarly(z) \/ AcceptApproval(z)
       \/ Panic \/ Calm \/ \E l \in Limits : Configure(l)
    /\ OffLink
    /\ Broadcast

(* A broadcast scheduled by the MQTT thread. *)
RunBroadcast ==
    /\ request = "none"
    /\ BroadcastRuns
    /\ UNCHANGED <<vars, request, llm>>
    /\ Broadcast

-----------------------------------------------------------------------------
(* write_audit_log raises.  The exception ends the coroutine at the write, *)
(* except for what a handler or a finally block still does.                *)

Loses == OffLink /\ Excuses

(* Before a proposal is actuated or registered as a script. *)
FirstWriteFails(i) ==
    /\ FirstStep(i)
    /\ Finish(i)
    /\ ready' = Tail(ready)
    /\ UNCHANGED <<watched, queue, main, crowdVars, modeVars, safetyVars, script, approvals,
                   history, inputVars>>
    /\ Loses

(* Inside the try block, or in its handler: the finally block runs.        *)
(* Fault: it is given up after its first statement.                        *)
FinallyBlock_CutShort(i) ==
    /\ interventions' = [interventions EXCEPT ![script[i].zone] = NoTask]
    /\ Finish(i)
    /\ ready' = Tail(ready)
    /\ UNCHANGED <<scripts, approved>>

FinallyBlock(i) == Cleanup(i)

LaterWriteFails(i) ==
    /\ Running(Life(i)) /\ stage[i] \in {"sleep", "acting"}
    /\ i \in cancelled /\ script[i].zone \notin vetoed => script[i].zone \notin approved
    /\ FinallyBlock(i)
    /\ UNCHANGED <<watched, queue, main, crowdVars, modeVars, vetoed, script, approvals,
                   history, inputVars>>
    /\ OffLink
    /\ Broadcast

(* The approval is answered with an error; the countdown stays cancelled.  *)
ActuationWriteFails(z) ==
    /\ Running(Approve(z)) /\ interventions[z] # NoTask /\ scripts[z] # NoTask
    /\ approved' = approved \cup {z}
    /\ Cancel(TaskOf(z), Tail(ready))
    /\ UNCHANGED <<watched, queue, main, crowdVars, modeVars, interventions, scripts, vetoed,
                   script, stage, approvals, history, inputVars>>
    /\ OffLink
    /\ Withdraws(TaskOf(z), Excuses)

ApprovalWriteFails(i) ==
    /\ Running(Approved(i))
    /\ ready' = Tail(ready)
    /\ UNCHANGED <<watched, queue, main, crowdVars, modeVars, safetyVars, taskVars, inputVars>>
    /\ Loses

(* process_telemetry catches it: the reading is given up. *)
QosWriteFails ==
    /\ Switches /\ request # "none"
    /\ qos' = [qos EXCEPT ![main.zone] = IF Escalates THEN 1 ELSE 0]
    /\ MainGetsNext
    /\ UNCHANGED <<loopVars, queue, density, modeVars, safetyVars, taskVars, inputVars>>
    /\ RequestSubscription
    /\ Excuses

(* The entry of an answer is written in a try block whose handler writes   *)
(* again; when that fails too, nothing is proposed.                        *)
InferenceWriteFails ==
    /\ Running(Main) /\ main.at = "slm"
    /\ MainGetsNext
    /\ llm' = FALSE
    /\ UNCHANGED <<loopVars, queue, crowdVars, modeVars, safetyVars, taskVars, inputVars>>
    /\ UNCHANGED <<linkVars, request>>
    /\ Excuses

(* The mode is set first, and nothing else is done. *)
ModeWriteFails(mode) ==
    /\ Running([run |-> IF mode THEN "panic" ELSE "calm"])
    /\ panic' = mode
    /\ ready' = Tail(ready)
    /\ UNCHANGED <<watched, queue, main, crowdVars, limit, safetyVars, taskVars, inputVars>>
    /\ Loses

WriteFails ==
    \/ \E i \in Ids : FirstWriteFails(i) \/ LaterWriteFails(i) \/ ApprovalWriteFails(i)
    \/ \E z \in Zones : ActuationWriteFails(z)
    \/ QosWriteFails \/ InferenceWriteFails
    \/ \E mode \in BOOLEAN : ModeWriteFails(mode)

-----------------------------------------------------------------------------
(* What happens outside the loop's coroutines. *)

Outside ==
    /\ \/ \E m \in Reading \cup {Malformed} : Ingest(m)
       \/ \E q \in Requests : Ask(q)
       \/ SlmReturns \/ MainBroadcastDone
       \/ \E i \in Ids : \/ TimerFires(i) \/ ApprovalBroadcastDone(i)
                         \/ LifeBroadcastDone(i) /\ i \notin Senders
    /\ OffLink /\ Silent

(* Everyone was sent the snapshot of a task's broadcast, or given up on. *)
Delivered(n) ==
    /\ LET i == sending[n].by IN
         IF stage[i] = "done" THEN UNCHANGED vars ELSE LifeBroadcastDone(i)
    /\ OffLink
    /\ Arrives(n)
    /\ UNCHANGED excused

(* A dashboard that connects is registered and everyone is sent the state. *)
DashboardJoins ==
    /\ request = "none"
    /\ IF watched THEN UNCHANGED vars ELSE Dashboards
    /\ OffLink
    /\ Broadcast

LastDashboardLeaves ==
    /\ request = "none" /\ watched
    /\ Dashboards
    /\ OffLink
    /\ shown' = {} /\ sending' = <<>> /\ UNCHANGED excused

MqttThread ==
    /\ LinkStep
    /\ UNCHANGED <<vars, request, llm, shownVars>>

ServiceNext ==
    \/ TestClient \/ SwitchQos \/ KeepQos \/ Propose \/ Clear \/ QuietStep
    \/ \E i \in Ids : Announce(i) \/ Advise(i)
    \/ ShowingStep \/ RunBroadcast
    \/ WriteFails
    \/ Outside \/ (\E n \in DOMAIN sending : Delivered(n)) \/ DashboardJoins \/ LastDashboardLeaves \/ MqttThread

ServiceSafety == ServiceInit /\ [][ServiceNext]_<<vars, serviceVars>>

-----------------------------------------------------------------------------
(* Properties. *)

(* Whenever nothing is left to run, the dashboards show the state: every   *)
(* change of it, by whichever thread or task, is followed by a broadcast.  *)
(* Only a failed audit write, or the crowd clearing while a task's         *)
(* broadcast is being sent, leaves them behind, and until the next one.    *)
Settled == ready = <<>> /\ request = "none" /\ sending = <<>> /\ tells = 0 /\ handler = <<>>

DashboardsCurrent == Settled /\ watched /\ ~excused => shown = {Display}

(* No countdown runs out that the dashboards do not show: also those that  *)
(* connect, and however other broadcasts interleave.                       *)
CountdownIsOnScreen ==
    \A i \in Ids : watched /\ stage[i] = "sleep" /\ i \notin cancelled =>
        \E state \in shown : state.scripts[script[i].zone] = i

(* A zone's QoS 1 subscription ends with the surge, although the client    *)
(* may come and go between the test, the request and the callbacks.        *)
NoLeakedSubscription == \A z \in Zones : z \in subs => qos[z] = 1

=============================================================================
