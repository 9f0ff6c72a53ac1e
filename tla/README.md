# SafePlay: a TLA+ verification project

SafePlay watches the crowd in a stadium. Gate sensors report densities, an inference engine (or a
static rule when it is late or wrong) proposes a *safety script* for a congested zone, an operator
has two seconds to veto it, and then signs and gates are actuated. Everything is written to a
hash-chained audit log. The questions worth a model checker are what happens when the operator, the
timer, new telemetry and panic mode meet inside those two seconds; what operators see of it while the
MQTT link comes and goes and the disk may be full; what the audit log is worth after a crash; and
whether the routes proposed are safe.

Paths below are relative to `src/` of the checkout unless they name a `.tla` or `.cfg` file.

## 1. Inventory

| Component | Source | State | Operations |
|---|---|---|---|
| Intervention orchestrator | `src/orchestrator.py` | `telemetry_queue`, `active_interventions` (zone to task), `active_scripts`, `active_intervention_metadata`, `vetoed_zones`, `panic_mode`, `fallback_density_limit`, `zone_qos` | `main_loop`/`process_telemetry`; `run_intervention_lifecycle` (one task per proposal); `reject_intervention_veto`, `approve_intervention_early`, `trigger_panic_mode`, `clear_panic_mode`; `execute_intervention`, `broadcast_state` |
| Audit trail | `src/audit.py` | a JSON Lines file | `get_last_audit_hash`, `write_audit_log`, `verify_audit_trail` |
| Dashboard connections | `src/connection_manager.py` | list of WebSockets | `connect`, `disconnect`, `broadcast` (gather, one second per client) |
| MQTT handler | `src/mqtt_handler.py` | client, its subscriptions at the broker | `on_connect`, `on_message`, `run_mqtt_loop` (a thread) |
| Inference and fallback rule | `src/inference.py` | latency figures | `get_slm_recommendation`, `get_static_fallback_recommendation` |
| Spatial graph and routing | `src/models.py`, `src/routing.pyx` | nodes with densities, edges with flows | density and flow updates, two route searches |
| REST and WebSocket API | `src/web_api.py` | none of its own | telemetry, veto, approval, panic, configuration; read-only endpoints |
| Simulator | `src/simulator.py` | phase of each gate | publishes readings, reacts to vetoes and scripts |
| Copilot, configuration, exceptions, page | `src/copilot.py`, `config.py`, `exceptions.py`, `static/` | none | text, constants, presentation |

How they interact:

    MQTT thread --call_soon_threadsafe--> telemetry_queue --> main_loop --> graph, QoS (MQTT subscribe)
    REST / simulator ------------------------^                   |  await inference (HTTP, timeout)
                                                                 v
    operator (REST, MQTT) --> veto / approve / panic ---> task per proposal --> actuation
                                     |                           |
                                     +------> audit trail <------+      broadcast_state --> dashboards

**What is hard.** All coroutines share one asyncio loop, so nothing is preempted, but every `await`
that really suspends is a place where the world changes: the inference request, every broadcast
(only when a dashboard is connected), the two-second sleep. A cancellation is *requested* in one
callback and *delivered* in a later one; between the two, the registries still describe the old
world. Why a task was cancelled is not passed along: the task reads it from shared sets when it
unwinds. Panic mode clears those sets under the tasks' feet. In the audit trail the previous hash is
found by reading back the last 4096 bytes, so what a crash leaves there matters.

The MQTT client runs its callbacks on a thread of its own, which writes `mqtt_connected` and
`mqtt_client` between any two statements of the loop. Broadcasts of many coroutines overlap: each
takes its snapshot when it is called, and a task that is cancelled inside one takes its sends with it.
And `write_audit_log` is called everywhere in the middle of things, and raises `OSError` when the disk
is full; what is undone then depends on which `try` block, if any, surrounds the call.

**What makes each component correct.**

* Orchestrator: a countdown that can still actuate is the one operators see and can stop; a decision
  of an operator beats a timer that fired but has not run; no proposal is overwritten; every window
  closes; panic mode stops everything; readings keep being consumed; QoS follows density.
* Audit trail: an undisturbed trail verifies; a trail that verifies lost nothing; an altered one
  does not verify; every entry is chained to the one before.
* Dashboard connections: a broadcast ends; once nothing is left to run, the dashboards show the state;
  no countdown runs out that they do not show.
* MQTT handler: a link that is up delivers telemetry and vetoes, the flag and the client tell how it
  stands, and no zone keeps its own subscription past its surge, across losses and refusals.
* Inference: an answer or the fallback rule, always within the timeout.
* Routing: both implementations return the same; a path is a shortest route through zones with room,
  and `None` means that there is none.

`PROJECT.json` lists the components with their status and every hazard at the line where it bites.

## 2. Modules

| Module | What it is |
|---|---|
| `VetoGate.tla` | abstract specification: what the automatic path promises an operator for every proposal |
| `Interventions.tla` | the orchestrator with the event loop, as much of the API, MQTT, inference and connections as its life cycle sees |
| `MqttLink.tla` | the MQTT thread: paho's callbacks statement by statement, the network, the broker's clean session |
| `Service.tla` | composes `Interventions` and `MqttLink`, with the dashboards' screens and audit writes that may fail |
| `Routing.tla`, `RoutingMC.tla` | the two route searches as state machines; the graphs they are run on |
| `AuditLog.tla` | the audit file, `write_audit_log` (complete or cut half way), `get_last_audit_hash`, `verify_audit_trail` |
| `InterventionsProofs.tla` | type correctness of `Interventions`, QoS and density, the refinement of `VetoGate` step by step |
| `RegistryProofs.tla` | the registry invariant and the four properties that follow from it; no wakeup is lost |
| `DecisionProofs.tla` | what becomes of an operator's decision: the invariant on histories and three properties |
| `AuditLogProofs.tla` | the theorems about the audit trail |
| `RoutingProofs.tla` | the theorems about both route searches, on any finite graph |
| `LinkProofs.tla` | the theorems about the MQTT thread |
| `ServiceProofs.tla` | the service: types; registries, gate, decisions, QoS and wakeups under failing writes; `MqttLink` as a part of it, subscriptions |
| `ScreenProofs.tla` | that countdowns are on the dashboards' screens, and that the screens end up current |

    VetoGate <-- refined by -- Interventions --+
                                               +-- EXTENDS --> Service
                                   MqttLink ---+
    AuditLog, Routing: by themselves (both run without an await)

`EXTENDS` makes `Service` share the variables of the two it composes: each of its actions is one of
theirs, or a coroutine that ends at a failing write, conjoined with what becomes of the rest.

### Interventions

*The event loop.* `ready` is the loop's FIFO queue of callbacks. The handle at its head is running
(`Running(h)`); an action is the piece of a coroutine between two awaits that may suspend. A
coroutine that suspends leaves the head, and is appended again when what it waits for completes
(`SlmReturns`, `TimerFires`, `...BroadcastDone`, `Ingest` for `queue.get`). This keeps the order the
program really has: two requests that arrived before a task was woken are handled before it.

*Broadcasts.* `ConnectionManager.broadcast` gathers over the list of clients; with no client the
await does not suspend. `watched` says whether there is one, and `AfterBroadcast` is the queue
after such an await. A broadcast at the end of a coroutine is left out since nothing follows it.

*Cancellation.* `Cancel(S, rest)` is `Task.cancel` on the tasks of `S`: a suspended task is put in
the queue at once, one that is queued already (its timer fired) is not put there twice, and in both
cases its next step is the cancellation. The variable `cancelled` holds the tasks whose cancellation
was requested and not delivered. In the program the cancellation of a task inside a broadcast passes
through the gathered children and takes a few iterations of the loop more than one inside a sleep; the
model counts one hop for either, and likewise one for an inference answer, which in the program
takes at least as many. Since arrivals may be queued at any moment, every order of the longer chain
is also an order of the model as far as the registries can tell.

*The inference request* always suspends `main_loop` (`MainInfer`). With an endpoint that `httpx` rejects before
any input or output (a URL without a scheme) it would raise at once, and the fallback rule would answer
in the same iteration of the loop. That is a configuration error and no behaviour of the model; the
arguments about a task withdrawn before the answer comes rest on the suspension.

*The last broadcast* of a task is left out as the broadcasts at the end of other coroutines are: `done` stands
from the last change of the registries on.

*A proposal* is identified by a number: `stage[i]` is where its task stands (`new`: created;
`announce`: inside the first broadcast, before the `try`; `sleep`; `acting`: inside the broadcast of
`execute_intervention`; `done`), `script[i]` its script, `history[i]` the entries of the audit log
and the decisions about it, in order. `history` is auxiliary: no guard reads it. An entry is recorded
when the code writes it, except `veto` (the operator's accepted decision), which the code shows only
by the mark in `vetoed_zones`.

*Where the registries' zones come from.* The task is registered under the zone of the reading
(`main.zone`), the script under the zone the answer names (`script[i].zone`). `Foreign` is the set of
zones a wrong answer may name; it is empty for an honest engine.

*What is abstracted.* Densities are tenths of a person per square metre, so that the thresholds 1.5,
2.0 and half of the limit are exact. A reading is accepted or `Malformed` (JSON, schema and HMAC
failures all end in the same audited drop). Audit writes succeed (`Service` lets them fail). `actuation_sla_sec` is the time a
timer takes, and timers may fire at any time. Each proposal needs a telemetry message of its own, so
`MaxTelemetry` numbers the proposals.

### MqttLink

`handler` holds the statements that the running callback still has to execute; one action executes
one (`SetConnected`, `SetClient`, `SubscribeAll`, `SubscribeVeto`, `ScheduleBroadcast`), so that the loop
can read the flag and the client in between. The link is `up`, `off`, or `lost` until paho notices;
it may be lost in the middle of `on_connect`. Sessions are clean, so `subs`, what the broker delivers,
is emptied by every loss, and what is subscribed on a lost link is forgotten. A refused attempt runs
the else branch of `on_connect` and may be reported as a disconnection too. `tells` counts the
broadcasts that `run_coroutine_threadsafe` has put on the loop and that have not run.

### Service

*The loop and the thread.* `_evaluate_qos_backpressure` tests `mqtt_client` and uses it a statement
later. The step is split there: `TestClient` tests it, `SwitchQos` does the rest, and the thread may
step in between (then the client is `None` and the exception is caught) or before or after. No other
coroutine can, so steps of the loop that are not part of this one wait for `request = "none"` by way
of the head of `ready`. `zone_qos` is written before the test in the code and after it here; nobody
else reads it in between.

*Screens.* `Display` is what `broadcast_state` collects. A broadcast of the main loop, a request or the
MQTT thread (`Broadcast`) shows the state at once; a broadcast of a life-cycle task
(`TaskBroadcast`) is put in `sending`, because it alone can be withdrawn: its task may be cancelled
before it was sent, and `asyncio` then cancels the gathered sends. Snapshots go out in the order they
were taken (each `send_json` starts in the next iteration of the loop, in order), so when one arrives
those before it have too (`Arrives`). A cancellation withdraws the cancelled task's snapshot from all
dashboards or from some (`CutShort`), for which `shown` takes either outcome. One snapshot stands
for all dashboards; the one that connects is sent the state along with all others (`DashboardJoins`).
A request's own broadcast directly follows its cancellations and is sent to everyone, so a snapshot
its cancellations withdraw makes no difference to the screens; only the crowd clearing
(`Clear`) and an approval whose entry cannot be written (`ActuationWriteFails`) cancel without one.

*Failing writes.* Each action named `...WriteFails` is the coroutine up to a `write_audit_log` that
raises and from there to where the exception ends: before the `try` of the life cycle the task ends
and its zone stays registered (`FirstWriteFails`); inside it or in its handler the `finally` block
still runs (`LaterWriteFails`); an approval has marked the zone and cancelled the task already
(`ActuationWriteFails`); panic mode is set and nothing else is done (`ModeWriteFails`);
`process_telemetry` gives the reading up (`QosWriteFails`, `InferenceWriteFails`). A write that fails
last in its coroutine (a veto's, a drop's) changes nothing of the state. The file itself is
`AuditLog`'s subject.

### Routing

`get_alternative_route` has two implementations that differ: the compiled one keeps the best
neighbour so far in a loop (`Look`, one step per neighbour), the interpreted one applies `max` to the
candidates (`Interpreted`). `find_optimal_egress_path` is the same loop in both; `Extend` is one
iteration. The edges of a zone are visited in the order they were added (`Orders`), a full zone is one
with `spare` 0, and a name that the graph does not know behaves as a zone without edges. Neither
search awaits anything, so the graph does not change during a call.

### AuditLog

The file is a sequence of lines; a line is the sequence of the pieces written to it, and has more
than one only when a write was cut before its newline. Sizes and offsets are in bytes, because
`get_last_audit_hash` seeks: `ChunkStart` is where it starts to read, `SeenFrom(line)` what it sees of
a line that begins earlier, and `Parses` says whether that is a JSON object. A cut write may leave all
of the entry and miss only the newline. Digests are the injection `prev * EventKinds + event` of
positive events: an ideal collision-free hash, with `Genesis` (64 zeros) outside its range.
`Verify` is `verify_audit_trail` as a predicate on a file, so that properties can apply it to altered
files as well.

### VetoGate

Each proposal goes through `none -> pending -> open -> fired`, may be `advised` (actuated with no
window, when its script needs none), and may be ended by `End(S)`, which ends several at once as
panic mode does. Early approval is not automatic: for the gate it withdraws the window.
`Phase` maps `stage`, `cancelled` and `history` to these phases. `GateIsKept` is the safety part of the
refinement, which `core` checks and `GateHolds` proves; `ImplementsGate` is the whole of it, fairness
included: an open window is settled. `Phase` and its parts are written with `IF`: about a `CASE`
without `OTHER` the prover's translation assumes more than it should.

## 3. Runs

| Run | Question | Bounds |
|---|---|---|
| `core` | do registries, windows, audit record and QoS stay consistent in every interleaving, is no wakeup lost, is the gate kept, and does panic mode withdraw everything | one zone, densities 1.4, 2.0, 3.0, limits 3.0 and 6.0, three messages, two requests of any kind |
| `gate` | do the proposals implement `VetoGate`, does every window close, is every reading consumed | two zones, an engine that may answer for the other one, two messages, one request, with fairness |
| `service` | does any interleaving of the loop, the MQTT thread, dashboards that come and go and failing writes leave the dashboards behind, a countdown unseen, a registry inconsistent, a subscription behind, or a link that does not listen | one zone, densities 1.0, 1.6, 3.0, limits 4.0 and 6.0, two messages, one request of any kind, two connection attempts; 5.5 million states |
| `egress` | do both routines agree, is a path safe and shortest, does `None` mean cut off, is the work bounded | every directed graph on four zones, spare capacities 0 to 2, every set of exits and every order of edges; 3 million states |
| `audit` | does an intact trail verify, is a verified one complete, do alterations show | two kinds of event, lines of 2, 3 and 5 bytes against 4 read back, four writes, two cut |

Why these bounds are enough to be interesting. In `core`, three messages make an open window, its
clearing and a second window of the same zone (the stale-mark cases); two requests make every pair of
decisions inside one window, and one request together with a timer that has fired. Limits 3.0 and 6.0
move the safety threshold across both densities 2.0 and 3.0, 2.0 is exactly the escalation threshold and
1.4 the last value below the other one. In `service`, 1.0, 1.6 and 3.0 lie below, inside and above the
QoS hysteresis, and two messages are a surge and its end, with the link lost and found again anywhere in
between; two attempts are a connection and a reconnection, or a refusal and a connection. The same
properties were checked on two zones in runs too long to repeat with every change (densities 1.0 and
3.0, limit 4.0): three messages without connection attempts (2.6 million states), two messages with two
attempts (23.3 million). In `egress`, four zones make two paths of different length to an exit, cycles,
exits that are full and a dead end beside a way around; three capacities make neighbours equally good,
better and full. `RoutingMC` declares the zones that are not sources symmetric: the specification treats
them alike, and no property speaks of one of them. In `gate`, two proposals of two zones may be open
together and panic ends both. In `audit`, sizes 2 and 3 fit (two or one line in the chunk, aligned or
not), 5 is one more than the bytes read back; one cut shows a torn line, the second one a torn line
continued by another.

The runs that find a violation check, each, one sentence of the repository's documents or comments:

| Run | Sentence | What happens |
|---|---|---|
| `veto_final` | a vetoed script is not actuated (`docs/architecture.md`, 4.2) | an approval handled between the veto and the unwinding of the task still actuates it (`orchestrator.py:284`) |
| `actuated_twice` | approval needs an active countdown (`orchestrator.py:282`) | two approvals before the task unwinds actuate twice (`orchestrator.py:293`) |
| `skipped_zone` | a zone is skipped because a task runs or a script waits (`orchestrator.py:558`) | after a script that needs no action the zone stays registered for ever (`orchestrator.py:392`) |
| `panic_actuation` | panic mode is the emergency override that forces the gates open (`conductor/product-guidelines.md`) | a reading waiting for inference actuates a script in panic mode (`orchestrator.py:570`) |
| `veto_audit` | a veto is audited (`docs/architecture.md`, 4.2) | a veto accepted during the first broadcast ends the task outside the `try` (`orchestrator.py:406`) |
| `veto_wrong_zone` | a veto cancels the active countdown (`orchestrator.py:253`) | with a foreign answer the veto finds no task and the countdown goes on (`orchestrator.py:571`) |
| `audit_long_line` | 4096 bytes are enough for a line (`audit.py:40`) | a longer line is not found and the next entry starts a new chain |

Further divergences are visible in the modules and have no run. `docs/architecture.md:20` speaks
of a window "for all safety interventions", while `orchestrator.py:389` actuates a script with
`action_required` false at once (`LifeAdvise`). And after a write that stopped half way, the next
entry is appended to the unfinished line, which never parses: that entry is lost to readers and the
one after is chained past it; `VerifiedMeansComplete` shows that verification reports it. Also:

* `README.md:44` promises that QoS 1 will "guarantee delivery and eliminate packet loss". A surging
  zone's QoS 1 subscription is made once (`RequestSubscription`): it is lost with the connection and not
  renewed (`mqtt_handler.py:42` renews the wildcard at QoS 0), and never made if the client is away
  when the surge begins, while `zone_qos` says 1. `NoLeakedSubscription` is the direction that holds.
* `README.md:42` gives redirecting Gate A to Corridor 2 as an example; in the default graph
  `Corridor_1` is the only neighbour of `Gate_A`, so `get_alternative_route` never proposes that.
* When the entry of panic mode cannot be written (`orchestrator.py:310`), panic mode is on and no
  countdown was cancelled: `PanicWithdrawsAll`, which `core` checks and `PanicIsComplete` proves for
  writes that succeed, does not hold of `ServiceNext`. The other properties of `core` do
  (`ServiceProofs`).
* An approval whose entry cannot be written (`orchestrator.py:357`) neither actuates the script nor lets
  its countdown go on.
* An announcement cut short by the clearing crowd leaves dashboards on the state before it until the
  next broadcast; this is what `excused` stands for in `DashboardsCurrent`.
* An answer of the inference engine other than 200 leads to the fallback rule without an entry in the
  audit log (`inference.py:220`).

Deadlock is checked in the runs of `Interventions` and `Service`: their dashboards always may come or
go. The runs of `AuditLog` and `Routing` switch it off: a bounded number of calls ends there, and a
search returns.

## 4. Fairness

`Spec` of `Interventions` assumes weak fairness, and no more, of

* `LoopStep`: the loop runs what is ready (no coroutine blocks the thread: the file writes are short
  and the inference call is asynchronous);
* `InferenceEnds`: the request has an `httpx.Timeout`, after which the fallback rule answers. The timeout is
  one per connection, read and write, so a server that keeps sending a byte at a time is excluded here;
* `BroadcastsEnd`: each send is bounded by `asyncio.wait_for(..., 1.0)`;
* `TimerFires(i)`: a sleep ends.

Nothing is assumed of operators, dashboards or telemetry. The mutants of the liveness properties
remove the inference timeout and the broadcast timeout one at a time, and the properties fail: the
timeouts are what they rest on. `FIFO` order of `ready` is what makes weak fairness of the one action
`LoopStep` enough. `Service`, `MqttLink`, `Routing` and `AuditLog` are checked for safety only: paho
promises no reconnection within any time, and what the loop and the timers owe is in `Spec`.

## 5. Proofs

All theorems hold for any zones, densities, limits and bounds that satisfy `ConstantsAssumption`
(or `AuditAssumption`, `RoutingAssumption`, `LinkAssumption`, `TopicAssumption`); these say no more than
that sets of numbers are sets of naturals, that zones are finitely many where they are counted, that
`Foreign` are zones, that the two placeholder values are not ordinary ones, and that no zone is called
`+` or `veto`.

**`InterventionsProofs!TypeCorrect`** is `Safety => []TypeOK`, one step per action. Its conjunct that
every proposal past `absent` has a script is what makes the zone of a task well defined. `QosAgrees` is
`QosFollowsDensity`, from the same module and for any inference engine; it needs that nobody else
changes a density between the step that stores it and the step that evaluates it.

**`InterventionsProofs!GateHolds`** is the safety part of the refinement, `Safety => GateIsKept`, for any
inference engine: initially no proposal is known to the gate, and every step of the orchestrator is a
step of the gate or leaves all phases alone (`GateAdvances`). `GateInv` is what the mapping needs: a
task's record says `started` and `actuated` exactly from the stages on where it writes them, and only
existing tasks are registered or cancelled. Without it a task that ends could not be told from one
that was advised or withdrawn, since `Phase` reads the record of a task that is done. Each step is then
sorted by what the gate sees of it: nothing (`QuietGate`), one task moving on (`TaskGate`), a new
proposal (`SpawnGate`), or the end of a set of them (`CancelGate`, panic mode's step among these); a
decision adds its event to the record of a task without moving its phase (`ApprovalEvents`).

**`RegistryProofs`** assumes an honest engine (`Foreign = {}`, stated in the theorems: without it
`veto_wrong_zone` is a counterexample) and proves `NoHiddenCountdown`, `ScriptHasItsTask`,
`PanicWithdrawsAll` and `NoScriptOverwritten`. None is inductive alone. `RegistryInv` adds what is true
in between, in named parts: a registered task belongs to the zone it is registered under; a script
on display is the registered task's, and the task has started; a proposal not withdrawn is
registered, and displayed from its first step on; a withdrawn task is in the queue, and its zone is
registered to it or to nobody; while `main_loop` awaits the inference engine for a zone, the zone is
free and its withdrawn tasks are ahead of `main_loop` in the queue; `main_loop` is in the queue at
most once. The last parts are the hazard at `orchestrator.py:559`: the zone is tested before the
await and registered after it, and that is safe because `main_loop` alone registers tasks and
handles one reading at a time. They also answer the hazard of the finally block, which drops
*whatever* is registered for its zone: a task withdrawn by panic mode unwinds before `main_loop` can
register a successor, because the queue is FIFO. Most of the proof is about that queue: what
leaving it, waking a task and cancelling several tasks keep (`ConsumeKeeps`, `WakeKeeps`,
`CancelKeeps`).

The same facts about the queue give `WakeupsArrive` (`NoWakeupLost`), for any inference engine, which is
what the liveness properties rest on: they fail when a coroutine with something to do is not in the
queue. The argument is who may leave it: `main_loop` leaves with the queue of readings empty or to
wait for something that wakes it, a task leaves with its cancellation delivered or not requested, and
whoever requests one or puts a reading wakes the sleeper. `WakeInv` adds `MainOnce` only, because
`ConsumeKeeps` needs it.

**`DecisionProofs`**, with the same assumption on the engine, proves `VetoStopsCountdown`,
`TimerNeverOverrules` and `VetoedMeansVetoed`. Its invariant speaks of each proposal by itself. A
proposal is *decided* once its cancellation was requested or its task is done, and stays so. As long as
it is not, its history holds nothing but `started` (and, once its timer acted, `actuated`) and no
approval of it is under way. The timer acts only on undecided proposals, so it finds nothing but the
start. A veto and an approval act on the script shown, which by `RegistryInv` is the registered task,
so that what they record and what they cancel are the same proposal. The mark in `vetoed_zones` names
only a zone and outlives windows; the invariant says that a task inside the `try` block that finds the
mark has a veto of its own, because the mark is discarded before the sleep (`LifeSleep`) and set again
only for the one script shown in the zone.

**`AuditLogProofs`** proves `TypeOK`, `TrailVerifies`, `VerifiedMeansComplete` and `AlterationsShow`.
The lemma under `TrailVerifies` is `LastLineFound`: in a file that verifies and whose lines all fit in
the bytes read back, the last line begins inside them and is the last one that parses, so the next
entry is chained to it. `VerifiedMeansComplete` is inductive beside `TypeOK`: a cut leaves an
unfinished last line, and whatever is appended to it makes a line that never reads again, so a trail
that verifies has no cut before its end. `AlterationsShow` is about `Verify` alone: the digest is
injective and hashes increase along a trail that verifies.

**`RoutingProofs`** holds for any finite graph. `CompiledAgrees`: the loop's best so far is the first of
the greatest among the neighbours looked at, which at the end is what `max` returns. `EgressIsSafe` and
`EgressIsComplete` share the invariant `SearchInv`: every queued path is a simple route from the source
through visited zones, and every visited zone either has a path waiting in the queue that ends there
or has all its neighbours with room visited; when the queue is empty, the visited zones are the set
that no open edge leaves. `EgressIsBounded`: iterations done plus paths waiting are the visited zones,
because a zone is marked when it is queued.

`EgressIsShortest` is `PathIsShortest`, by induction over the steps of the search. `Reached(n)` are the zones
that a route of `n` zones leads to, and the one fact about routes needed is that each is a shorter one
and a step (`ReachedNext`). `LevelInv` says: queued paths are in the order of their lengths, which differ
by at most one; a zone that a route shorter than the next path leads to is explored (it is no exit, and
its neighbours with room are visited), and one that a route of its length leads to is explored or waits
at the end of a path of that length. When an iteration comes to a longer path, all zones of the length
before are explored, so whatever a step from them leads to is visited (`LevelStep`). An exit is never
explored, so no route to one is shorter than the path returned.

**`LinkProofs`**: `LinkInv` says, for each position in each callback, what has been done and how the link
can stand there (only a link `up` or just lost has its `on_connect` running; the wildcard is
subscribed once its statement was executed unless the link is lost).

**`ServiceProofs`**. `RegistryInv` is also inductive under every failing write (`FailureKeeps`), which
gives `FailuresHideNoCountdown` and `FailuresKeepDisplay`; a task that ends at its first write leaves its
zone registered, which the invariant permits, and one that ends later unregisters it. Likewise for what
else is proved of the orchestrator: a failing write changes no record (`FailureRecordsNothing`), ends at
most one task (`EndedTask`) and cancels at most what an approval cancels, so `GateInv`, the invariants of
`DecisionProofs` and `QosAgrees`, and `WakeInv` go through it as well (`FailuresReplaceNoScript`,
`FailuresKeepGate`, `FailuresKeepDecisions`, `FailuresKeepQos`, `FailuresLoseNoWakeup`).
`PanicWithdrawsAll` does not survive it (section 3).
`ServiceImplementsLink` shows that every step of the service is a step of `MqttLink` or leaves its
variables alone, so that `LinkProofs` applies inside it (`ServiceListens`). `NoSubscriptionLeaks` needs
`LeakInv`: without a client, and after a test that found none, no zone is subscribed, because a client
is taken away only by a callback that found the link down, and only the loop subscribes zones. This is
what makes it harmless that unsubscribing is skipped without a client.

**`ScreenProofs`** proves `CountdownIsOnScreen` with an honest engine. `ScreenInv` says: no two snapshots
on the way are of one task; a task that has one is announced and not yet in the queue again, or was
withdrawn; and for each countdown, if dashboards are connected, every snapshot on the way shows it or
is followed by the one that announces it, and that one is on the way or the screens show the countdown
already. `NewOnce`, its companion, says that a task that has not started is in the loop's queue exactly
once, so that its announcement really suspends it. Each step is sorted by what it does to the queue
(`Fate`), to the countdowns (`GoesOn`) and to the screens (`QuietKeeps`, `BroadcastKeeps`, `TakeKeeps`,
`ArrivalKeeps`, `RemovalStep`).

The same module proves `DashboardsCurrent`, about states at rest, from `CurrentInv`, about all states: unless
a write failed or a send was cut short since, the latest snapshot (the last one on the way, or what the
screens show when none is) agrees with the state, except that it may not tell yet how the link stands
while a callback of the MQTT thread is about to have it told, nor the inference status while the task
proposed with it is about to start. At rest neither exception is left, the second because of `NewOnce`.
Before proving them, `ScreenInv` and `NewOnce` were checked with TLC on two zones, `CurrentInv` with the
constants of the `service` run.

The mutants of `PROJECT.json` test the proofs too: with any one of those whose property a theorem states put
in place of the definition it changes, a step of that theorem's proof, or of a lemma it rests on, about the
changed operation is no longer found.

Model-checked only: liveness, that is `EveryWindowCloses`, `TelemetryConsumed` and the fairness half of
`ImplementsGate` (fairness and `ENABLED` are beyond the prover). Every invariant and every action
property that a passing run checks is stated by a theorem. `EachEntryChained` is false in general
(`audit_long_line`) and is not a theorem.

## 6. Not modelled

* Read-only endpoints, the page, the copilot: they change no state. The copilot's answer may describe a
  state up to five seconds old, and nothing says how old it may be.
* The simulator: its readings are among those `Ingest` lets arrive in any order and at any time; its
  choice of densities from veto marks and shown scripts only narrows them.
* Latency figures and the entries `inference_success` and `inference_fallback`.
* Edge flows (`current_flow`): nothing reads them but the display.
* The dashboards one by one: `watched` and `shown` stand for all of them. A client whose send timed out
  misses that snapshot and keeps its place in the list until its socket closes; the properties of the
  screens are about the others.
* A payload that is not UTF-8: decoding it (`mqtt_handler.py:92`) raises on paho's thread before anything
  reaches the loop.
* Of the two entries of an approval when no dashboard is connected, the failure of the second alone
  (`orchestrator.py:297`): the registries are the same with and without it.
* The process: start, shutdown and restart. Only the audit trail survives a restart, and `AuditLog`
  keeps nothing in memory, so a restart between two calls is no step at all there.

## 7. Plan

1. Done: all modules of section 2 and their proofs.
2. Clients as a list, when a property is about what one of them saw; the simulator in a loop with
   veto marks that outlive their windows.
