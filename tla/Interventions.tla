--------------------------- MODULE Interventions ---------------------------
(***************************************************************************)
(* The intervention life cycle of SafePlayOrchestrator                     *)
(* (src/orchestrator.py): telemetry is taken from a queue by main_loop, a  *)
(* congested zone gets a proposed script, the script waits in a veto       *)
(* window, and the timer, an early approval, a veto, the crowd clearing or *)
(* panic mode ends it.                                                     *)
(*                                                                         *)
(* All of it runs on one asyncio event loop.  `ready' is the loop's FIFO   *)
(* queue of callbacks: a coroutine is at its head while it runs, leaves it *)
(* at an await that suspends, and is appended again when what it waits for *)
(* completes.  An await of broadcast_state suspends exactly when some      *)
(* dashboard is connected (`watched'), because ConnectionManager.broadcast *)
(* gathers over an empty list otherwise.  Task.cancel makes a suspended    *)
(* task ready at once and wins over a timer that fired but has not run.    *)
(* A broadcast at the very end of a coroutine is left out: nothing follows *)
(* it.  Densities are integers in tenths of a person per square metre.     *)
(***************************************************************************)
EXTENDS Naturals, Sequences

CONSTANTS
    Zones,          \* nodes of the spatial graph
    Densities,      \* crowd densities telemetry may report
    Limits,         \* values fallback_density_limit may take
    DefaultLimit,   \* config.FALLBACK_DENSITY_LIMIT
    Foreign,        \* zones a wrong SLM answer may name; {} for an honest one
    Kinds,          \* kinds of operator request in play
    MaxTelemetry,   \* bound: telemetry messages in a behaviour
    MaxRequests,    \* bound: operator requests in a behaviour
    Malformed,      \* a telemetry message that fails validation
    NoScript        \* the script of a proposal not made yet

Ids == 1..MaxTelemetry      \* the k-th proposal (each needs a message of its own)
NoTask == 0                 \* "zone not in active_interventions / active_scripts"

Reading == [zone : Zones, density : Densities]
Script == [zone : Zones, required : BOOLEAN]

ASSUME ConstantsAssumption ==
    /\ MaxTelemetry \in Nat
    /\ MaxRequests \in Nat
    /\ Densities \subseteq Nat
    /\ Limits \subseteq Nat
    /\ DefaultLimit \in Limits
    /\ Foreign \subseteq Zones
    /\ Kinds \subseteq {"veto", "approve", "panic", "calm", "config"}
    /\ Malformed \notin Reading
    /\ NoScript \notin Script

(* Handles of the ready queue. *)
Main == [run |-> "main"]
Life(i) == [run |-> "life", id |-> i]
Approved(i) == [run |-> "approved", id |-> i]

Requests == [run : {"veto", "approve"} \cap Kinds, zone : Zones]
            \cup [run : {"panic", "calm"} \cap Kinds]
            \cup [run : {"config"} \cap Kinds, limit : Limits]

Handles == {Main} \cup [run : {"life", "approved"}, id : Ids] \cup Requests

VARIABLES
    ready,          \* the event loop's FIFO of callbacks to run
    watched,        \* some dashboard WebSocket is connected
    queue,          \* telemetry_queue
    main,           \* where main_loop stands, and the reading it processes
    density,        \* current_density of the graph's nodes
    qos,            \* zone_qos
    limit,          \* fallback_density_limit
    panic,          \* panic_mode
    interventions,  \* active_interventions: zone |-> task
    scripts,        \* active_scripts (and active_intervention_metadata)
    approved,       \* zones whose metadata has operator_approved set
    vetoed,         \* vetoed_zones
    script,         \* the script of each life-cycle task
    stage,          \* where each life-cycle task stands
    cancelled,      \* tasks with a cancellation not yet delivered
    approvals,      \* early approvals awaiting their broadcast, per script
    sent, asked,    \* messages and requests so far, for the bounds
    history         \* what happened to each proposal, in order (auxiliary)

loopVars == <<ready, watched>>
safetyVars == <<interventions, scripts, approved, vetoed>>
taskVars == <<script, stage, cancelled, approvals, history>>
crowdVars == <<density, qos>>
modeVars == <<limit, panic>>
inputVars == <<sent, asked>>
vars == <<loopVars, queue, main, crowdVars, modeVars, safetyVars, taskVars, inputVars>>

Stages == {"absent", "new", "announce", "sleep", "acting", "done"}
Events == {"started", "actuated", "expired", "veto", "vetoed", "cleared",
           "actuated_approved", "approved"}

TypeOK ==
    /\ ready \in Seq(Handles)
    /\ watched \in BOOLEAN
    /\ queue \in Seq(Reading \cup {Malformed})
    /\ main \in [at : {"get"}]
                \cup [at : {"qos", "safety", "slm"}, zone : Zones, density : Densities]
    /\ density \in [Zones -> Nat]
    /\ qos \in [Zones -> {0, 1}]
    /\ limit \in Limits
    /\ panic \in BOOLEAN
    /\ interventions \in [Zones -> {NoTask} \cup Ids]
    /\ scripts \in [Zones -> {NoTask} \cup Ids]
    /\ approved \subseteq Zones
    /\ vetoed \subseteq Zones
    /\ script \in [Ids -> Script \cup {NoScript}]
    /\ stage \in [Ids -> Stages]
    /\ \A i \in Ids : stage[i] # "absent" => script[i] \in Script
    /\ cancelled \subseteq Ids
    /\ approvals \in [Ids -> Nat]
    /\ sent \in 0..MaxTelemetry
    /\ asked \in 0..MaxRequests
    /\ history \in [Ids -> Seq(Events)]

Init ==
    /\ ready = <<>>
    /\ watched = FALSE
    /\ queue = <<>>
    /\ main = [at |-> "get"]
    /\ density = [z \in Zones |-> 0]
    /\ qos = [z \in Zones |-> 0]
    /\ limit = DefaultLimit
    /\ panic = FALSE
    /\ interventions = [z \in Zones |-> NoTask]
    /\ scripts = [z \in Zones |-> NoTask]
    /\ approved = {}
    /\ vetoed = {}
    /\ script = [i \in Ids |-> NoScript]
    /\ stage = [i \in Ids |-> "absent"]
    /\ cancelled = {}
    /\ approvals = [i \in Ids |-> 0]
    /\ sent = 0
    /\ asked = 0
    /\ history = [i \in Ids |-> <<>>]

-----------------------------------------------------------------------------
(* The event loop. *)

Running(h) == ready # <<>> /\ Head(ready) = h
IsReady(h) == \E n \in DOMAIN ready : ready[n] = h
Suspended(h) == ~IsReady(h)

(* The ready queue after the running coroutine awaits broadcast_state. *)
AfterBroadcast == IF watched THEN Tail(ready) ELSE ready

(* Task.cancel on every task of S, lowest first (the insertion order of    *)
(* active_interventions); `rest' is the queue without the caller's wakes.  *)
Live(S) == {i \in S : stage[i] # "done"}
Asleep(S) == {i \in Live(S) : Suspended(Life(i))}

WakesInOrder(S, rest) ==
    \E n \in 0..MaxTelemetry : \E order \in [1..n -> S] :
        /\ \A a, b \in 1..n : a < b => order[a] < order[b]
        /\ \A i \in S : \E a \in 1..n : order[a] = i
        /\ ready' = rest \o [a \in 1..n |-> Life(order[a])]

Cancel(S, rest) ==
    /\ cancelled' = cancelled \cup Live(S)
    /\ WakesInOrder(Asleep(S), rest)

(* Fault: only a task already in its sleep is cancelled. *)
TaskOf_SleepingOnly(z) == {i \in Ids : i = interventions[z] /\ stage[i] = "sleep"}

TaskOf(z) == {interventions[z]} \ {NoTask}

(* Fault: the mark of an earlier veto is kept. *)
DiscardVeto_Keeps(z) == UNCHANGED vetoed

DiscardVeto(z) == vetoed' = vetoed \ {z}

Record(i, event) == history' = [history EXCEPT ![i] = Append(@, event)]

-----------------------------------------------------------------------------
(* Telemetry: main_loop and process_telemetry. *)

Elevated(d) == 2 * d >= limit           \* crowd_density >= limit * 0.5
Critical(d) == d >= limit

MainGoesTo(place) == main' = [main EXCEPT !.at = place]
(* Fault: the reading processed last is kept while waiting for the next. *)
MainGetsNext_Stale == main' = [main EXCEPT !.at = "get"]

MainGetsNext == main' = [at |-> "get"]

(* telemetry_queue.get on an empty queue parks main_loop. *)
MainPark ==
    /\ Running(Main) /\ main.at = "get" /\ queue = <<>>
    /\ ready' = Tail(ready)
    /\ UNCHANGED <<watched, queue, main, crowdVars, modeVars, safetyVars, taskVars, inputVars>>

(* In panic mode a message is taken and ignored; a malformed one is taken  *)
(* and only audited.                                                       *)
MainDrop ==
    /\ Running(Main) /\ main.at = "get" /\ queue # <<>>
    /\ panic \/ Head(queue) = Malformed
    /\ queue' = Tail(queue)
    /\ UNCHANGED <<loopVars, main, crowdVars, modeVars, safetyVars, taskVars, inputVars>>

MainAccept ==
    /\ Running(Main) /\ main.at = "get" /\ queue # <<>>
    /\ ~panic /\ Head(queue) # Malformed
    /\ queue' = Tail(queue)
    /\ LET r == Head(queue) IN
         /\ density' = [density EXCEPT ![r.zone] = r.density]
         /\ main' = [at |-> "qos", zone |-> r.zone, density |-> r.density]
    /\ ready' = AfterBroadcast
    /\ UNCHANGED <<watched, qos, modeVars, safetyVars, taskVars, inputVars>>

(* _evaluate_qos_backpressure: escalate at 2.0, de-escalate below 1.5. *)
(* Fault: strict comparison at the threshold. *)
Escalates_Strict == main.density > 20 /\ qos[main.zone] = 0

Escalates == main.density >= 20 /\ qos[main.zone] = 0
Deescalates == main.density < 15 /\ qos[main.zone] = 1

MainQos ==
    /\ Running(Main) /\ main.at = "qos"
    /\ MainGoesTo("safety")
    /\ IF Escalates \/ Deescalates
         THEN /\ qos' = [qos EXCEPT ![main.zone] = IF Escalates THEN 1 ELSE 0]
              /\ ready' = AfterBroadcast
         ELSE UNCHANGED <<qos, ready>>
    /\ UNCHANGED <<watched, queue, density, modeVars, safetyVars, taskVars, inputVars>>

(* _evaluate_crowd_safety, up to the inference request. *)
(* Faults: the task registered but not started is overlooked; a finished  *)
(* task is taken to leave its zone free.                                   *)
Busy_OnlyShown(z) == scripts[z] # NoTask
Busy_OnlyRunning(z) == interventions[z] # NoTask /\ stage[interventions[z]] # "done"

Busy(z) == interventions[z] # NoTask \/ scripts[z] # NoTask

MainSkip ==
    /\ Running(Main) /\ main.at = "safety"
    /\ Elevated(main.density) /\ Busy(main.zone)
    /\ MainGetsNext
    /\ UNCHANGED <<loopVars, queue, crowdVars, modeVars, safetyVars, taskVars, inputVars>>

MainInfer ==
    /\ Running(Main) /\ main.at = "safety"
    /\ Elevated(main.density) /\ ~Busy(main.zone)
    /\ MainGoesTo("slm")
    /\ ready' = Tail(ready)
    /\ UNCHANGED <<watched, queue, crowdVars, modeVars, safetyVars, taskVars, inputVars>>

MainClear ==
    /\ Running(Main) /\ main.at = "safety"
    /\ ~Elevated(main.density)
    /\ Cancel(TaskOf(main.zone), ready)
    /\ DiscardVeto(main.zone)
    /\ MainGetsNext
    /\ UNCHANGED <<watched, queue, crowdVars, modeVars, interventions, scripts, approved,
                   script, stage, approvals, history, inputVars>>

(* The answer: a script of the model's choosing, or none (timeout, error,  *)
(* invalid output), and then the static rule, which asks for a window only *)
(* at the critical density.  The limit is read after the await.            *)
Answers == [zone : {main.zone} \cup Foreign, required : BOOLEAN]
FallbackScript == [zone |-> main.zone, required |-> Critical(main.density)]

MainSpawn ==
    /\ Running(Main) /\ main.at = "slm"
    /\ \E s \in Answers \cup {FallbackScript}, i \in Ids :
         /\ stage[i] = "absent" /\ \A j \in Ids : j < i => stage[j] # "absent"
         /\ script' = [script EXCEPT ![i] = s]
         /\ stage' = [stage EXCEPT ![i] = "new"]
         /\ interventions' = [interventions EXCEPT ![main.zone] = i]
         /\ ready' = Append(ready, Life(i))
    /\ MainGetsNext
    /\ UNCHANGED <<watched, queue, crowdVars, modeVars, scripts, approved, vetoed,
                   cancelled, approvals, history, inputVars>>

-----------------------------------------------------------------------------
(* The life cycle of proposal i: run_intervention_lifecycle. *)

Finish(i) == stage' = [stage EXCEPT ![i] = "done"] /\ cancelled' = cancelled \ {i}

(* A task cancelled before its first step never runs its body. *)
LifeStillborn(i) ==
    /\ Running(Life(i)) /\ stage[i] = "new" /\ i \in cancelled
    /\ Finish(i)
    /\ ready' = Tail(ready)
    /\ UNCHANGED <<watched, queue, main, crowdVars, modeVars, safetyVars, script, approvals,
                   history, inputVars>>

(* Fault: a cancellation that precedes the first step is not seen by it. *)
FirstStep_IgnoresCancel(i) == Running(Life(i)) /\ stage[i] = "new"

FirstStep(i) == Running(Life(i)) /\ stage[i] = "new" /\ i \notin cancelled

(* A script that requires no action is actuated at once; it was never      *)
(* registered as a script, and its task stays in active_interventions.     *)
LifeAdvise(i) ==
    /\ FirstStep(i)
    /\ ~script[i].required
    /\ Record(i, "actuated")
    /\ Finish(i)
    /\ ready' = Tail(ready)
    /\ UNCHANGED <<watched, queue, main, crowdVars, modeVars, safetyVars, script, approvals,
                   inputVars>>

LifeStart(i) ==
    /\ FirstStep(i)
    /\ script[i].required
    /\ Record(i, "started")
    /\ scripts' = [scripts EXCEPT ![script[i].zone] = i]
    /\ approved' = approved \ {script[i].zone}
    /\ stage' = [stage EXCEPT ![i] = "announce"]
    /\ ready' = AfterBroadcast
    /\ UNCHANGED <<watched, queue, main, crowdVars, modeVars, interventions, vetoed, script,
                   cancelled, approvals, inputVars>>

(* The first broadcast lies outside the try block: a task cancelled there  *)
(* ends with no cleanup and no audit entry.                                *)
LifeLost(i) ==
    /\ Running(Life(i)) /\ stage[i] = "announce" /\ i \in cancelled
    /\ Finish(i)
    /\ ready' = Tail(ready)
    /\ UNCHANGED <<watched, queue, main, crowdVars, modeVars, safetyVars, script, approvals,
                   history, inputVars>>

LifeSleep(i) ==
    /\ Running(Life(i)) /\ stage[i] = "announce" /\ i \notin cancelled
    /\ DiscardVeto(script[i].zone)
    /\ stage' = [stage EXCEPT ![i] = "sleep"]
    /\ ready' = Tail(ready)
    /\ UNCHANGED <<watched, queue, main, crowdVars, modeVars, interventions, scripts, approved,
                   script, cancelled, approvals, history, inputVars>>

LifeExpire(i) ==
    /\ Running(Life(i)) /\ stage[i] = "sleep" /\ i \notin cancelled
    /\ Record(i, "actuated")
    /\ stage' = [stage EXCEPT ![i] = "acting"]
    /\ ready' = AfterBroadcast
    /\ UNCHANGED <<watched, queue, main, crowdVars, modeVars, safetyVars, script, cancelled,
                   approvals, inputVars>>

(* The finally block drops whatever is registered for the script's zone. *)
(* Fault: the displayed script is not removed. *)
Unregister_KeepsScript(z) ==
    /\ interventions' = [interventions EXCEPT ![z] = NoTask]
    /\ approved' = approved \ {z}
    /\ UNCHANGED scripts

Unregister(z) ==
    /\ interventions' = [interventions EXCEPT ![z] = NoTask]
    /\ scripts' = [scripts EXCEPT ![z] = NoTask]
    /\ approved' = approved \ {z}

Cleanup(i) ==
    /\ Unregister(script[i].zone)
    /\ Finish(i)
    /\ ready' = Tail(ready)

LifeComplete(i) ==
    /\ Running(Life(i)) /\ stage[i] = "acting" /\ i \notin cancelled
    /\ Record(i, "expired")
    /\ Cleanup(i)
    /\ UNCHANGED <<watched, queue, main, crowdVars, modeVars, vetoed, script, approvals,
                   inputVars>>

(* CancelledError inside the try block: the reason is read from the        *)
(* registries as they are now.                                             *)
Unwinds(i) == Running(Life(i)) /\ stage[i] \in {"sleep", "acting"} /\ i \in cancelled

LifeVetoed(i) ==
    /\ Unwinds(i) /\ script[i].zone \in vetoed
    /\ Record(i, "vetoed")
    /\ Cleanup(i)
    /\ UNCHANGED <<watched, queue, main, crowdVars, modeVars, vetoed, script, approvals,
                   inputVars>>

LifeYielded(i) ==
    /\ Unwinds(i) /\ script[i].zone \notin vetoed /\ script[i].zone \in approved
    /\ Cleanup(i)
    /\ UNCHANGED <<watched, queue, main, crowdVars, modeVars, vetoed, script, approvals,
                   history, inputVars>>

LifeCleared(i) ==
    /\ Unwinds(i) /\ script[i].zone \notin vetoed \cup approved
    /\ Record(i, "cleared")
    /\ Cleanup(i)
    /\ UNCHANGED <<watched, queue, main, crowdVars, modeVars, vetoed, script, approvals,
                   inputVars>>

LifeStep(i) ==
    \/ LifeStillborn(i) \/ LifeAdvise(i) \/ LifeStart(i) \/ LifeLost(i) \/ LifeSleep(i)
    \/ LifeExpire(i) \/ LifeComplete(i) \/ LifeVetoed(i) \/ LifeYielded(i) \/ LifeCleared(i)

-----------------------------------------------------------------------------
(* Operator requests. *)

Veto(z) == [run |-> "veto", zone |-> z]
Approve(z) == [run |-> "approve", zone |-> z]

(* A veto or an approval of nothing raises OperatorActionError. *)
RejectRequest ==
    /\ \E z \in Zones : \/ Running(Veto(z)) /\ scripts[z] = NoTask
                        \/ Running(Approve(z)) /\ interventions[z] = NoTask
    /\ ready' = Tail(ready)
    /\ UNCHANGED <<watched, queue, main, crowdVars, modeVars, safetyVars, taskVars, inputVars>>

(* reject_intervention_veto *)
AcceptVeto(z) ==
    /\ Running(Veto(z)) /\ scripts[z] # NoTask
    /\ vetoed' = vetoed \cup {z}
    /\ Cancel(TaskOf(z), Tail(ready))
    /\ Record(scripts[z], "veto")
    /\ UNCHANGED <<watched, queue, main, crowdVars, modeVars, interventions, scripts, approved,
                   script, stage, approvals, inputVars>>

(* approve_intervention_early with no script registered yet only cancels. *)
ApproveEarly(z) ==
    /\ Running(Approve(z)) /\ interventions[z] # NoTask /\ scripts[z] = NoTask
    /\ Cancel(TaskOf(z), Tail(ready))
    /\ UNCHANGED <<watched, queue, main, crowdVars, modeVars, safetyVars, script, stage,
                   approvals, history, inputVars>>

(* Otherwise it actuates by itself, and audits the approval after the      *)
(* broadcast of execute_intervention.                                      *)
AcceptApproval(z) ==
    /\ Running(Approve(z)) /\ interventions[z] # NoTask /\ scripts[z] # NoTask
    /\ approved' = approved \cup {z}
    /\ Cancel(TaskOf(z), Tail(ready))
    /\ IF watched
         THEN /\ approvals' = [approvals EXCEPT ![scripts[z]] = @ + 1]
              /\ Record(scripts[z], "actuated_approved")
         ELSE /\ history' = [history EXCEPT ![scripts[z]] =
                               @ \o <<"actuated_approved", "approved">>]
              /\ UNCHANGED approvals
    /\ UNCHANGED <<watched, queue, main, crowdVars, modeVars, interventions, scripts, vetoed,
                   script, stage, inputVars>>

AuditApproval(i) ==
    /\ Running(Approved(i))
    /\ Record(i, "approved")
    /\ ready' = Tail(ready)
    /\ UNCHANGED <<watched, queue, main, crowdVars, modeVars, safetyVars, script, stage,
                   cancelled, approvals, inputVars>>

(* trigger_panic_mode and clear_panic_mode *)
(* Fault: only the scripts on display are cancelled. *)
Registered_OnlyShown == {scripts[z] : z \in Zones} \ {NoTask}

Registered == {interventions[z] : z \in Zones} \ {NoTask}

Panic ==
    /\ Running([run |-> "panic"])
    /\ panic' = TRUE
    /\ Cancel(Registered, Tail(ready))
    /\ interventions' = [z \in Zones |-> NoTask]
    /\ scripts' = [z \in Zones |-> NoTask]
    /\ approved' = {}
    /\ UNCHANGED <<watched, queue, main, crowdVars, limit, vetoed, script, stage, approvals,
                   history, inputVars>>

Calm ==
    /\ Running([run |-> "calm"])
    /\ panic' = FALSE
    /\ ready' = Tail(ready)
    /\ UNCHANGED <<watched, queue, main, crowdVars, limit, safetyVars, taskVars, inputVars>>

(* POST /api/config *)
Configure(l) ==
    /\ Running([run |-> "config", limit |-> l])
    /\ limit' = l
    /\ ready' = Tail(ready)
    /\ UNCHANGED <<watched, queue, main, crowdVars, panic, safetyVars, taskVars, inputVars>>

RequestStep ==
    \/ RejectRequest \/ Panic \/ Calm
    \/ \E z \in Zones : AcceptVeto(z) \/ ApproveEarly(z) \/ AcceptApproval(z)
    \/ \E i \in Ids : AuditApproval(i)
    \/ \E l \in Limits : Configure(l)

-----------------------------------------------------------------------------
(* What completes outside the loop's coroutines. *)

Wake(h) == ready' = Append(ready, h)

(* A message arrives (MQTT thread, REST or simulator) and is put in the    *)
(* queue; a parked main_loop is woken.                                     *)
(* Fault: the MQTT thread puts the message itself, not by way of           *)
(* call_soon_threadsafe, and nothing tells the loop.                       *)
Ingest_FromThread(m) ==
    /\ sent < MaxTelemetry
    /\ sent' = sent + 1
    /\ queue' = Append(queue, m)
    /\ UNCHANGED <<loopVars, main, crowdVars, modeVars, safetyVars, taskVars, asked>>

Ingest(m) ==
    /\ sent < MaxTelemetry
    /\ sent' = sent + 1
    /\ queue' = Append(queue, m)
    /\ IF main.at = "get" /\ Suspended(Main) THEN Wake(Main) ELSE UNCHANGED ready
    /\ UNCHANGED <<watched, main, crowdVars, modeVars, safetyVars, taskVars, asked>>

Ask(q) ==
    /\ asked < MaxRequests
    /\ asked' = asked + 1
    /\ Wake(q)
    /\ UNCHANGED <<watched, queue, main, crowdVars, modeVars, safetyVars, taskVars, sent>>

(* Whatever the inference engine does, its request ends within a timeout. *)
SlmReturns ==
    /\ main.at = "slm" /\ Suspended(Main)
    /\ Wake(Main)
    /\ UNCHANGED <<watched, queue, main, crowdVars, modeVars, safetyVars, taskVars, inputVars>>

TimerFires(i) ==
    /\ stage[i] = "sleep" /\ Suspended(Life(i))
    /\ Wake(Life(i))
    /\ UNCHANGED <<watched, queue, main, crowdVars, modeVars, safetyVars, taskVars, inputVars>>

(* Every client was sent the state or given up on after one second. *)
MainBroadcastDone ==
    /\ main.at \in {"qos", "safety"} /\ Suspended(Main)
    /\ Wake(Main)
    /\ UNCHANGED <<watched, queue, main, crowdVars, modeVars, safetyVars, taskVars, inputVars>>

LifeBroadcastDone(i) ==
    /\ stage[i] \in {"announce", "acting"} /\ Suspended(Life(i))
    /\ Wake(Life(i))
    /\ UNCHANGED <<watched, queue, main, crowdVars, modeVars, safetyVars, taskVars, inputVars>>

ApprovalBroadcastDone(i) ==
    /\ approvals[i] > 0
    /\ approvals' = [approvals EXCEPT ![i] = @ - 1]
    /\ Wake(Approved(i))
    /\ UNCHANGED <<watched, queue, main, crowdVars, modeVars, safetyVars, script, stage,
                   cancelled, history, inputVars>>

(* The first dashboard connects, or the last one leaves. *)
Dashboards ==
    /\ watched' = ~watched
    /\ UNCHANGED <<ready, queue, main, crowdVars, modeVars, safetyVars, taskVars, inputVars>>

-----------------------------------------------------------------------------
MainStep == \/ MainPark \/ MainDrop \/ MainAccept \/ MainQos \/ MainSkip \/ MainInfer
            \/ MainClear \/ MainSpawn

LoopStep == MainStep \/ RequestStep \/ \E i \in Ids : LifeStep(i)

Completion == \/ SlmReturns \/ MainBroadcastDone
              \/ \E i \in Ids : TimerFires(i) \/ LifeBroadcastDone(i) \/ ApprovalBroadcastDone(i)

Arrival == \/ \E m \in Reading \cup {Malformed} : Ingest(m)
           \/ \E q \in Requests : Ask(q)
           \/ Dashboards

Next == LoopStep \/ Completion \/ Arrival

Safety == Init /\ [][Next]_vars

(* The inference client has a timeout.  Fault: it has none. *)
InferenceEnds_Never == TRUE
InferenceEnds == WF_vars(SlmReturns)

(* Every send of a broadcast is given up on after one second.  Fault: a    *)
(* dashboard may hang one for ever.                                        *)
BroadcastsEnd_Never == TRUE
BroadcastsEnd == /\ WF_vars(MainBroadcastDone)
                 /\ \A i \in Ids : /\ WF_vars(LifeBroadcastDone(i))
                                   /\ WF_vars(ApprovalBroadcastDone(i))

(* Besides, the event loop runs what is ready, and timers fire. *)
Fairness == /\ WF_vars(LoopStep)
            /\ InferenceEnds /\ BroadcastsEnd
            /\ \A i \in Ids : WF_vars(TimerFires(i))

Spec == Safety /\ Fairness

-----------------------------------------------------------------------------
(* Properties.  The first group is what the code achieves. *)

Has(i, event) == \E n \in DOMAIN history[i] : history[i][n] = event

Follows(i, event, earlier) ==
    \E m, n \in DOMAIN history[i] : m < n /\ history[i][m] = earlier /\ history[i][n] = event

Counting(i) == stage[i] \in {"announce", "sleep", "acting"} /\ i \notin cancelled

(* A countdown that can still actuate is the one shown to the operators    *)
(* and the one a veto, an approval, clearing telemetry or panic cancels:   *)
(* active_scripts and active_interventions both name it for its zone (so a *)
(* zone has at most one).                                                  *)
NoHiddenCountdown ==
    \A i \in Ids : Counting(i) => /\ scripts[script[i].zone] = i
                                  /\ interventions[script[i].zone] = i

(* The script an operator sees is the one the zone's task executes. *)
ScriptHasItsTask == \A z \in Zones : scripts[z] # NoTask => interventions[z] = scripts[z]

(* The timer actuates only a window in which nothing else happened: never  *)
(* after a veto, an approval or a cancellation was accepted for it, even   *)
(* when the timer had already fired.                                       *)
TimerNeverOverrules ==
    \A i \in Ids : \A e \in Events \ {"started"} : ~Follows(i, "actuated", e)

(* A window is audited as vetoed only if an operator vetoed that window,   *)
(* not an earlier one of the same zone (vetoed_zones outlives a window).   *)
VetoedMeansVetoed == \A i \in Ids : Has(i, "vetoed") => Has(i, "veto")

(* An accepted veto reaches the countdown it is about. *)
VetoStopsCountdown == \A i \in Ids : Has(i, "veto") => ~Counting(i)

(* Past the backpressure step, a zone's QoS agrees with its density, with  *)
(* hysteresis between 1.5 and 2.0.                                         *)
QosFollowsDensity ==
    \A z \in Zones : ~(main.at = "qos" /\ main.zone = z) =>
        /\ qos[z] = 0 => density[z] < 20
        /\ qos[z] = 1 => density[z] >= 15

(* A script awaiting a decision is never replaced by another under the     *)
(* operator's eyes: it is withdrawn first.                                 *)
NoScriptOverwritten ==
    [][\A z \in Zones : scripts[z] # NoTask => scripts'[z] \in {scripts[z], NoTask}]_vars

(* Entering panic mode withdraws every proposal, the ones whose task has   *)
(* not run yet included.                                                   *)
Pending(i) == stage[i] \notin {"absent", "done"} /\ i \notin cancelled

PanicWithdrawsAll == [][~panic /\ panic' => \A i \in Ids : ~Pending(i)']_vars

(* No wakeup is lost: a coroutine with something to do, a reading to take, *)
(* a cancellation to receive or its first step to make, is in the loop's   *)
(* queue; nothing else would put it there.                                 *)
NoWakeupLost ==
    /\ main.at = "get" /\ queue # <<>> => IsReady(Main)
    /\ \A i \in Ids : i \in cancelled \/ stage[i] = "new" => IsReady(Life(i))

(* Every window closes, whatever dashboards and operators do. *)
EveryWindowCloses == \A i \in Ids : Counting(i) ~> stage[i] = "done"

(* main_loop never stalls: what is queued is consumed. *)
TelemetryConsumed == queue # <<>> ~> queue = <<>>

(* The proposals implement the veto gate: the phase each one is in.        *)
Outcome(i) == IF Has(i, "started") THEN IF Has(i, "actuated") THEN "fired" ELSE "withdrawn"
              ELSE IF Has(i, "actuated") THEN "advised" ELSE "dropped"

Awaited(i) == IF stage[i] = "new" THEN IF i \in cancelled THEN "dropped" ELSE "pending"
              ELSE IF i \in cancelled THEN "withdrawn" ELSE "open"

Phase(i) == IF stage[i] \in {"new", "announce", "sleep"} THEN Awaited(i)
            ELSE IF stage[i] = "absent" THEN "none"
            ELSE IF stage[i] = "acting" THEN "fired" ELSE Outcome(i)

Gate == INSTANCE VetoGate WITH Proposals <- Ids, phase <- [i \in Ids |-> Phase(i)]

(* Nothing actuates by itself but out of its window, once, and never after *)
(* the window was withdrawn.                                               *)
GateIsKept == Gate!Safety

(* And no window stays open. *)
ImplementsGate == Gate!Spec

-----------------------------------------------------------------------------
(* The second group is what documents and comments of the repository say   *)
(* and the code does not do.                                               *)

(* docs/architecture.md, 4.2: a vetoed script aborts its actuation. *)
VetoIsFinal == \A i \in Ids : \A e \in {"actuated", "actuated_approved"} : ~Follows(i, e, "veto")

(* orchestrator.py:282: approval needs an active countdown, so a script is *)
(* actuated once.                                                          *)
ActuatedAtMostOnce ==
    \A i \in Ids : /\ ~Follows(i, "actuated_approved", "actuated_approved")
                   /\ ~Follows(i, "actuated_approved", "actuated")

(* orchestrator.py:558: a zone is skipped because a task is running or a   *)
(* script awaits veto for it.                                              *)
SkippedZoneIsAttended ==
    [][MainSkip => \E i \in Ids : stage[i] \notin {"absent", "done"} /\ script[i].zone = main.zone]_vars

(* Panic mode overrides the gates: no script is actuated in it. *)
NoActuationInPanic == [][panic /\ panic' => \A i \in Ids :
    Has(i, "actuated")' => Has(i, "actuated")]_vars

(* docs/architecture.md, 4.2: a veto is written to the audit log. *)
VetoIsAudited ==
    \A i \in Ids : Has(i, "veto") /\ stage[i] = "done" => Has(i, "vetoed")
=============================================================================
