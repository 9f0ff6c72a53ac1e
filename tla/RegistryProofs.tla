--------------------------- MODULE RegistryProofs ---------------------------
(***************************************************************************)
(* The registries of the intervention life cycle, for an inference engine  *)
(* that answers for the zone it was asked about (Foreign = {}): no         *)
(* countdown is hidden from the operators, panic mode withdraws every      *)
(* proposal, and a displayed script is never replaced.                     *)
(*                                                                         *)
(* NoHiddenCountdown is not inductive: a task withdrawn by panic mode is   *)
(* no longer registered, and its finally block will still clear its zone's *)
(* entries.  RegistryInv adds why that cannot hit a later proposal: the    *)
(* withdrawn task is in the event loop's queue, and main_loop, which alone *)
(* registers tasks, cannot reach the spawn for that zone before it has run.*)
(*                                                                         *)
(* At the end, for any engine: nobody with something to do is left out of  *)
(* the event loop's queue.                                                 *)
(***************************************************************************)
EXTENDS InterventionsProofs

(* ZoneOf(i) is the zone of proposal i's script. *)
ZoneOf(i) == script[i].zone

(* A registered task is a proposal for the zone it is registered under. *)
RegisteredMatches ==
    \A z \in Zones : interventions[z] # NoTask =>
        stage[interventions[z]] # "absent" /\ ZoneOf(interventions[z]) = z

(* A displayed script is the registered task's, and its task has started. *)
ShownMatches ==
    \A z \in Zones : scripts[z] # NoTask =>
        interventions[z] = scripts[z] /\ stage[scripts[z]] \notin {"absent", "new"}

(* A proposal not withdrawn is registered, and displayed once started. *)
PendingRegistered ==
    \A i \in Ids : Pending(i) =>
        /\ interventions[ZoneOf(i)] = i
        /\ stage[i] # "new" => scripts[ZoneOf(i)] = i

(* A withdrawn task is about to run, and its zone is not given to another   *)
(* proposal before it has.                                                  *)
WithdrawnReady ==
    \A i \in cancelled : /\ stage[i] \notin {"absent", "done"}
                         /\ IsReady(Life(i))
                         /\ interventions[ZoneOf(i)] \in {i, NoTask}

(* While main_loop awaits the inference engine for a zone, the zone is free *)
(* and withdrawn tasks of the zone run before main_loop does.               *)
Ahead(h, g) == \E n \in DOMAIN ready : ready[n] = h /\ \A m \in 1..n : ready[m] # g

InferenceExclusive ==
    main.at = "slm" =>
        /\ interventions[main.zone] = NoTask
        /\ scripts[main.zone] = NoTask
        /\ \A i \in cancelled : ZoneOf(i) = main.zone => Ahead(Life(i), Main)

(* main_loop is at most once in the loop's queue. *)
MainOnce == \A m, n \in DOMAIN ready : ready[m] = Main /\ ready[n] = Main => m = n

RegistryInv == /\ RegisteredMatches /\ ShownMatches /\ PendingRegistered
               /\ WithdrawnReady /\ InferenceExclusive /\ MainOnce

-----------------------------------------------------------------------------
(* Facts about the queue. *)

In(s, h) == \E n \in DOMAIN s : s[n] = h
Before(s, h, g) == \E n \in DOMAIN s : s[n] = h /\ \A m \in 1..n : s[m] # g
Once(s, h) == \A m, n \in DOMAIN s : s[m] = h /\ s[n] = h => m = n

LEMMA HandlesDiffer ==
    /\ \A i \in Ids : Life(i) # Main
    /\ \A i, j \in Ids : Life(i) = Life(j) => i = j
    /\ \A i \in Ids : \A q \in Requests : Life(i) # q /\ Main # q
    /\ \A i, j \in Ids : Life(i) # Approved(j) /\ Main # Approved(j)
<1>1. /\ \A i \in Ids : Life(i).run = "life" /\ Life(i).id = i
      /\ Main.run = "main"
      /\ \A i \in Ids : Approved(i).run = "approved"
  BY DEF Life, Main, Approved
<1>2. \A q \in Requests : q.run \in {"veto", "approve", "panic", "calm", "config"}
  BY DEF Requests
<1> QED
  BY <1>1, <1>2

(* Removing the head keeps everything else, in order. *)
LEMMA TailKeeps ==
    ASSUME NEW s \in Seq(Handles), s # <<>>, NEW h, Head(s) # h
    PROVE  /\ In(s, h) => In(Tail(s), h)
           /\ \A g : Before(s, h, g) => Before(Tail(s), h, g)
<1>1. /\ Tail(s) \in Seq(Handles) /\ Len(Tail(s)) = Len(s) - 1 /\ Len(s) \in Nat \ {0}
      /\ \A n \in 1..Len(Tail(s)) : Tail(s)[n] = s[n + 1]
      /\ DOMAIN s = 1..Len(s) /\ DOMAIN Tail(s) = 1..Len(Tail(s))
      /\ Head(s) = s[1]
  OBVIOUS
<1>2. ASSUME NEW n \in DOMAIN s, s[n] = h
      PROVE  n - 1 \in DOMAIN Tail(s) /\ Tail(s)[n - 1] = h
  BY <1>1, <1>2
<1>3. In(s, h) => In(Tail(s), h)
  BY <1>2 DEF In
<1>4. ASSUME NEW g, Before(s, h, g) PROVE Before(Tail(s), h, g)
  <2>1. PICK n \in DOMAIN s : s[n] = h /\ \A m \in 1..n : s[m] # g
    BY <1>4 DEF Before
  <2>2. n - 1 \in DOMAIN Tail(s) /\ Tail(s)[n - 1] = h
    BY <1>2, <2>1
  <2>3. \A m \in 1..(n - 1) : Tail(s)[m] # g
    BY <1>1, <2>1
  <2> QED
    BY <2>2, <2>3 DEF Before
<1> QED
  BY <1>3, <1>4

LEMMA TailOnce ==
    ASSUME NEW s \in Seq(Handles), s # <<>>, NEW h, Once(s, h)
    PROVE  Once(Tail(s), h) /\ (Head(s) = h => ~In(Tail(s), h))
<1>1. /\ Len(Tail(s)) = Len(s) - 1 /\ Len(s) \in Nat \ {0}
      /\ \A n \in 1..Len(Tail(s)) : Tail(s)[n] = s[n + 1]
      /\ DOMAIN s = 1..Len(s) /\ DOMAIN Tail(s) = 1..Len(Tail(s))
      /\ Head(s) = s[1]
  OBVIOUS
<1> QED
  BY <1>1 DEF Once, In

(* Adding at the end keeps everything, in order. *)
LEMMA ConcatKeeps ==
    ASSUME NEW s \in Seq(Handles), NEW t \in Seq(Handles), NEW h
    PROVE  /\ In(s, h) => In(s \o t, h)
           /\ In(t, h) => In(s \o t, h)
           /\ \A g : Before(s, h, g) => Before(s \o t, h, g)
           /\ Once(s, h) /\ ~In(t, h) => Once(s \o t, h)
           /\ In(s \o t, h) => In(s, h) \/ In(t, h)
<1>1. /\ s \o t \in Seq(Handles) /\ Len(s \o t) = Len(s) + Len(t)
      /\ Len(s) \in Nat /\ Len(t) \in Nat
      /\ \A n \in 1..Len(s) : (s \o t)[n] = s[n]
      /\ \A n \in 1..Len(s \o t) : n > Len(s) => (s \o t)[n] = t[n - Len(s)]
      /\ DOMAIN s = 1..Len(s) /\ DOMAIN t = 1..Len(t) /\ DOMAIN (s \o t) = 1..Len(s \o t)
  OBVIOUS
<1>2. In(s, h) => In(s \o t, h)
  BY <1>1 DEF In
<1>3. ASSUME In(t, h) PROVE In(s \o t, h)
  <2>1. PICK n \in DOMAIN t : t[n] = h
    BY <1>3 DEF In
  <2>2. n + Len(s) \in 1..Len(s \o t) /\ n + Len(s) > Len(s) /\ (n + Len(s)) - Len(s) = n
    BY <1>1, <2>1
  <2>3. (s \o t)[n + Len(s)] = h
    BY <1>1, <2>1, <2>2
  <2> QED
    BY <1>1, <2>2, <2>3 DEF In
<1>4. ASSUME NEW g, Before(s, h, g) PROVE Before(s \o t, h, g)
  BY <1>1, <1>4 DEF Before
<1>5. In(s \o t, h) => In(s, h) \/ In(t, h)
  BY <1>1 DEF In
<1>6. ASSUME Once(s, h), ~In(t, h) PROVE Once(s \o t, h)
  <2>1. \A n \in DOMAIN (s \o t) : (s \o t)[n] = h => n \in DOMAIN s /\ s[n] = h
    BY <1>1, <1>6 DEF In
  <2> QED
    BY <1>6, <2>1 DEF Once
<1> QED
  BY <1>2, <1>3, <1>4, <1>5, <1>6

LEMMA AppendKeeps ==
    ASSUME NEW s \in Seq(Handles), NEW a \in Handles, NEW h
    PROVE  /\ In(s, h) => In(Append(s, a), h)
           /\ In(Append(s, a), a)
           /\ \A g : Before(s, h, g) => Before(Append(s, a), h, g)
           /\ Once(s, h) /\ (a # h \/ ~In(s, h)) => Once(Append(s, a), h)
<1>1. /\ Append(s, a) \in Seq(Handles) /\ Len(Append(s, a)) = Len(s) + 1 /\ Len(s) \in Nat
      /\ \A n \in 1..Len(s) : Append(s, a)[n] = s[n]
      /\ Append(s, a)[Len(s) + 1] = a
      /\ DOMAIN s = 1..Len(s) /\ DOMAIN Append(s, a) = 1..(Len(s) + 1)
  OBVIOUS
<1>2. \A g : Before(s, h, g) => Before(Append(s, a), h, g)
  BY <1>1 DEF Before
<1>3. In(s, h) => In(Append(s, a), h)
  BY <1>1 DEF In
<1>4. In(Append(s, a), a)
  BY <1>1 DEF In
<1>5. Once(s, h) /\ (a # h \/ ~In(s, h)) => Once(Append(s, a), h)
  BY <1>1 DEF Once, In
<1> QED
  BY <1>2, <1>3, <1>4, <1>5

-----------------------------------------------------------------------------
(* What one step does to the queue.  A step keeps h when h stays in the    *)
(* queue and keeps its place before main_loop.                             *)

Keeps(h) == /\ IsReady(h) => IsReady(h)'
            /\ Ahead(h, Main) => Ahead(h, Main)'

LEMMA Unfold ==
    /\ \A h : IsReady(h) <=> In(ready, h)
    /\ \A h : Ahead(h, Main) <=> Before(ready, h, Main)
    /\ MainOnce <=> Once(ready, Main)
    /\ \A h : IsReady(h)' <=> In(ready', h)
    /\ \A h : Ahead(h, Main)' <=> Before(ready', h, Main)
    /\ MainOnce' <=> Once(ready', Main)
  BY DEF IsReady, In, Ahead, Before, MainOnce, Once

(* The running coroutine h goes on or leaves: all others stay. *)
LEMMA ConsumeKeeps ==
    ASSUME TypeOK, MainOnce, NEW h, Running(h), ready' = ready \/ ready' = Tail(ready)
    PROVE  MainOnce' /\ \A g : g # h => Keeps(g)
<1>1. ready \in Seq(Handles) /\ ready # <<>> /\ Head(ready) = h
  BY DEF TypeOK, Running
<1>2. CASE ready' = ready
  <2>1. \A g : (IsReady(g)' <=> IsReady(g)) /\ (Ahead(g, Main)' <=> Ahead(g, Main))
    BY <1>2 DEF IsReady, Ahead
  <2> QED
    BY <1>2, <2>1 DEF Keeps, MainOnce
<1>3. CASE ready' = Tail(ready)
  BY <1>1, <1>3, Unfold, TailKeeps, TailOnce DEF Keeps
<1> QED
  BY <1>2, <1>3

LEMMA WakeKeeps ==
    ASSUME TypeOK, MainOnce, NEW h \in Handles, Wake(h), h # Main \/ Suspended(Main)
    PROVE  MainOnce' /\ \A g : Keeps(g)
<1>1. ready \in Seq(Handles) /\ ready' = Append(ready, h)
  BY DEF TypeOK, Wake
<1>2. h # Main \/ ~In(ready, Main)
  BY Unfold DEF Suspended
<1> QED
  BY <1>1, <1>2, Unfold, AppendKeeps DEF Keeps

(* Cancelling the tasks of S from coroutine h: they are all in the queue   *)
(* afterwards, and everything else but h stays.                            *)
LEMMA CancelKeeps ==
    ASSUME TypeOK, MainOnce, NEW S \in SUBSET Ids, NEW rest, Cancel(S, rest),
           NEW h, Running(h), rest = ready \/ rest = Tail(ready)
    PROVE  /\ MainOnce'
           /\ \A g : g # h => Keeps(g)
           /\ \A i \in Live(S) : Life(i) # h => IsReady(Life(i))'
           /\ \A g : In(rest, g) => IsReady(g)'
           /\ cancelled' = cancelled \cup Live(S)
<1>1. /\ ready \in Seq(Handles) /\ ready # <<>> /\ Head(ready) = h /\ rest \in Seq(Handles)
      /\ Once(ready, Main)
  BY Unfold, RestType DEF TypeOK, Running
<1>2. Asleep(S) \in SUBSET Ids /\ Live(S) \in SUBSET Ids
  BY DEF Asleep, Live
<1>3. PICK n \in 0..MaxTelemetry : \E order \in [1..n -> Asleep(S)] :
         /\ \A i \in Asleep(S) : \E a \in 1..n : order[a] = i
         /\ ready' = rest \o [a \in 1..n |-> Life(order[a])]
  BY DEF Cancel, WakesInOrder
<1>4. PICK order \in [1..n -> Asleep(S)] :
         /\ \A i \in Asleep(S) : \E a \in 1..n : order[a] = i
         /\ ready' = rest \o [a \in 1..n |-> Life(order[a])]
  BY <1>3
<1> DEFINE wakes == [a \in 1..n |-> Life(order[a])]
<1>5. wakes \in Seq(Handles) /\ DOMAIN wakes = 1..n
  <2>1. n \in Nat /\ \A i \in Ids : Life(i) \in Handles
    BY <1>3, ConstantsAssumption DEF ConstantsAssumption, Life, Handles
  <2>2. wakes \in [1..n -> Handles]
    BY <1>2, <2>1
  <2> QED
    BY <2>1, <2>2
<1>6. ~In(wakes, Main)
  BY <1>2, <1>5, HandlesDiffer DEF In
<1>7. \A i \in Asleep(S) : In(wakes, Life(i))
  BY <1>4, <1>5 DEF In
<1>8. \A g : g # h => (In(ready, g) => In(rest, g))
                       /\ (Before(ready, g, Main) => Before(rest, g, Main))
  BY <1>1, TailKeeps
<1>9. Once(rest, Main)
  BY <1>1, TailOnce
<1>10. ready' = rest \o wakes
  BY <1>4
<1> HIDE DEF wakes
<1>11. MainOnce'
  BY <1>1, <1>5, <1>6, <1>9, <1>10, Unfold, ConcatKeeps
<1>12. \A g : g # h => Keeps(g)
  BY <1>1, <1>5, <1>8, <1>10, Unfold, ConcatKeeps DEF Keeps
<1>13. ASSUME NEW i \in Live(S), Life(i) # h PROVE IsReady(Life(i))'
  <2>1. CASE i \in Asleep(S)
    BY <1>1, <1>5, <1>7, <1>10, <2>1, Unfold, ConcatKeeps
  <2>2. CASE i \notin Asleep(S)
    <3>1. IsReady(Life(i))
      BY <1>13, <2>2 DEF Asleep, Suspended
    <3> QED
      BY <1>12, <1>13, <3>1 DEF Keeps
  <2> QED
    BY <2>1, <2>2
<1>14. \A g : In(rest, g) => IsReady(g)'
  BY <1>1, <1>5, <1>10, Unfold, ConcatKeeps
<1> QED
  BY <1>11, <1>12, <1>13, <1>14 DEF Cancel

-----------------------------------------------------------------------------
(* Steps that leave the registries and the tasks alone. *)
LEMMA Frame ==
    ASSUME TypeOK, RegistryInv, MainOnce',
           UNCHANGED <<interventions, scripts, script, stage, cancelled>>,
           \A i \in cancelled : Keeps(Life(i)),
           main' = main \/ main'.at # "slm"
    PROVE  RegistryInv'
<1>1. RegisteredMatches' /\ ShownMatches' /\ PendingRegistered'
  BY DEF RegistryInv, RegisteredMatches, ShownMatches, PendingRegistered, Pending, ZoneOf
<1>2. WithdrawnReady'
  BY DEF RegistryInv, WithdrawnReady, Keeps, ZoneOf
<1>3. InferenceExclusive'
  BY DEF RegistryInv, InferenceExclusive, Keeps, ZoneOf
<1> QED
  BY <1>1, <1>2, <1>3 DEF RegistryInv

LEMMA MainFrame ==
    ASSUME TypeOK, RegistryInv,
           MainPark \/ MainDrop \/ MainAccept \/ MainQos \/ MainSkip
    PROVE  RegistryInv'
<1>1. Running(Main) /\ (ready' = ready \/ ready' = Tail(ready))
  BY DEF MainPark, MainDrop, MainAccept, MainQos, MainSkip, AfterBroadcast, loopVars
<1>2. MainOnce' /\ \A i \in cancelled : Keeps(Life(i))
  BY <1>1, ConsumeKeeps, HandlesDiffer DEF RegistryInv, TypeOK
<1>3. UNCHANGED <<interventions, scripts, script, stage, cancelled>>
  BY DEF MainPark, MainDrop, MainAccept, MainQos, MainSkip, safetyVars, taskVars
<1>4. main' = main \/ main'.at # "slm"
  BY DEF MainPark, MainDrop, MainAccept, MainQos, MainSkip, MainGoesTo, MainGetsNext, TypeOK
<1> QED
  BY <1>2, <1>3, <1>4, Frame

LEMMA RequestFrame ==
    ASSUME TypeOK, RegistryInv,
           \/ RejectRequest \/ Calm
           \/ \E l \in Limits : Configure(l)
           \/ \E i \in Ids : AuditApproval(i)
    PROVE  RegistryInv'
<1>1. PICK h : Running(h) /\ (\A i \in Ids : Life(i) # h)
  <2>1. CASE RejectRequest
    BY <2>1 DEF RejectRequest, Veto, Approve, Life
  <2>2. CASE Calm
    BY <2>2 DEF Calm, Life
  <2>3. CASE \E l \in Limits : Configure(l)
    BY <2>3 DEF Configure, Life
  <2>4. CASE \E i \in Ids : AuditApproval(i)
    BY <2>4, HandlesDiffer DEF AuditApproval
  <2> QED
    BY <2>1, <2>2, <2>3, <2>4
<1>2. ready' = Tail(ready) /\ main' = main
  BY DEF RejectRequest, Calm, Configure, AuditApproval
<1>3. MainOnce' /\ \A i \in cancelled : Keeps(Life(i))
  BY <1>1, <1>2, ConsumeKeeps DEF RegistryInv, TypeOK
<1>4. UNCHANGED <<interventions, scripts, script, stage, cancelled>>
  BY DEF RejectRequest, Calm, Configure, AuditApproval, safetyVars, taskVars
<1> QED
  BY <1>2, <1>3, <1>4, Frame

(* What happens outside the loop takes nobody from the queue. *)
LEMMA OutsideQueue ==
    ASSUME TypeOK, MainOnce, Completion \/ Arrival
    PROVE  MainOnce' /\ \A g : Keeps(g)
<1>1. \/ ready' = ready
      \/ \E h \in Handles : Wake(h) /\ (h # Main \/ Suspended(Main))
  <2>a. /\ Main \in Handles /\ Requests \subseteq Handles
        /\ \A i \in Ids : Life(i) \in Handles /\ Approved(i) \in Handles
    BY DEF Main, Life, Approved, Handles
  <2>1. CASE SlmReturns \/ MainBroadcastDone
    BY <2>1, <2>a DEF SlmReturns, MainBroadcastDone
  <2>2. ASSUME NEW i \in Ids, TimerFires(i) \/ LifeBroadcastDone(i) \/ ApprovalBroadcastDone(i)
        PROVE  \E h \in Handles : Wake(h) /\ (h # Main \/ Suspended(Main))
    BY <2>2, <2>a, HandlesDiffer DEF TimerFires, LifeBroadcastDone, ApprovalBroadcastDone
  <2>3. ASSUME NEW m \in Reading \cup {Malformed}, Ingest(m)
        PROVE  ready' = ready \/ \E h \in Handles : Wake(h) /\ (h # Main \/ Suspended(Main))
    BY <2>3, <2>a DEF Ingest
  <2>4. ASSUME NEW q \in Requests, Ask(q)
        PROVE  \E h \in Handles : Wake(h) /\ (h # Main \/ Suspended(Main))
    <3>1. q # Main
      BY DEF Requests, Main
    <3> QED
      BY <2>4, <2>a, <3>1 DEF Ask
  <2>5. CASE Dashboards
    BY <2>5 DEF Dashboards
  <2> QED
    BY <2>1, <2>2, <2>3, <2>4, <2>5 DEF Completion, Arrival
<1>2. CASE ready' = ready
  BY <1>2 DEF MainOnce, Keeps, IsReady, Ahead
<1>3. CASE \E h \in Handles : Wake(h) /\ (h # Main \/ Suspended(Main))
  BY <1>3, WakeKeeps
<1> QED
  BY <1>1, <1>2, <1>3

LEMMA OutsideFrame ==
    ASSUME TypeOK, RegistryInv, Completion \/ Arrival
    PROVE  RegistryInv'
<1>1. main' = main /\ UNCHANGED <<interventions, scripts, script, stage, cancelled>>
  BY DEF Completion, Arrival, SlmReturns, MainBroadcastDone, TimerFires, LifeBroadcastDone,
         ApprovalBroadcastDone, Ingest, Ask, Dashboards, safetyVars, taskVars
<1>2. MainOnce' /\ \A g : Keeps(g)
  BY OutsideQueue DEF RegistryInv
<1> QED
  BY <1>1, <1>2, Frame

-----------------------------------------------------------------------------
(* Steps that cancel registered tasks. *)
LEMMA CancelRegistered ==
    ASSUME TypeOK, RegistryInv, NEW S \in SUBSET Registered, NEW rest, Cancel(S, rest),
           NEW h, Running(h), rest = ready \/ rest = Tail(ready),
           \A i \in Ids : Life(i) # h,
           UNCHANGED <<interventions, scripts, script, stage>>,
           main' = main \/ main'.at # "slm"
    PROVE  RegistryInv'
<1>1. S \in SUBSET Ids
  BY DEF Registered, TypeOK
<1>2. /\ MainOnce' /\ cancelled' = cancelled \cup Live(S)
      /\ \A i \in cancelled : Keeps(Life(i))
      /\ \A i \in Live(S) : IsReady(Life(i))'
  BY <1>1, CancelKeeps DEF RegistryInv, TypeOK, Live
<1>3. \A i \in Live(S) : /\ stage[i] \notin {"absent", "done"}
                         /\ interventions[ZoneOf(i)] = i /\ i # NoTask
  BY DEF Live, Registered, RegistryInv, RegisteredMatches
<1>4. RegisteredMatches' /\ ShownMatches' /\ PendingRegistered'
  BY <1>2 DEF RegistryInv, RegisteredMatches, ShownMatches, PendingRegistered, Pending, ZoneOf
<1>5. WithdrawnReady'
  BY <1>2, <1>3 DEF RegistryInv, WithdrawnReady, Keeps, ZoneOf
<1>6. InferenceExclusive'
  <2> SUFFICES ASSUME main = main', main.at = "slm" PROVE InferenceExclusive'
    BY DEF InferenceExclusive
  <2>1. \A i \in cancelled' : ZoneOf(i) = main.zone => i \in cancelled
    BY <1>2, <1>3 DEF RegistryInv, InferenceExclusive
  <2> QED
    BY <1>2, <2>1 DEF RegistryInv, InferenceExclusive, Keeps, ZoneOf
<1> QED
  BY <1>2, <1>4, <1>5, <1>6 DEF RegistryInv

LEMMA CancellingSteps ==
    ASSUME TypeOK, RegistryInv,
           MainClear \/ \E z \in Zones : AcceptVeto(z) \/ ApproveEarly(z) \/ AcceptApproval(z)
    PROVE  RegistryInv'
<1>a. \A z \in Zones : TaskOf(z) \in SUBSET Registered
  BY DEF TaskOf, Registered
<1>1. CASE MainClear
  <2>1. main.zone \in Zones
    BY <1>1 DEF MainClear, TypeOK
  <2>2. /\ Cancel(TaskOf(main.zone), ready) /\ Running(Main) /\ main'.at # "slm"
        /\ UNCHANGED <<interventions, scripts, script, stage>>
    BY <1>1 DEF MainClear, MainGetsNext
  <2> QED
    BY <1>a, <2>1, <2>2, CancelRegistered, HandlesDiffer
<1>2. ASSUME NEW z \in Zones, AcceptVeto(z) \/ ApproveEarly(z) \/ AcceptApproval(z)
      PROVE  RegistryInv'
  <2>1. PICK h : Running(h) /\ \A i \in Ids : Life(i) # h
    BY <1>2 DEF AcceptVeto, ApproveEarly, AcceptApproval, Veto, Approve, Life
  <2>2. /\ Cancel(TaskOf(z), Tail(ready)) /\ main' = main
        /\ UNCHANGED <<interventions, scripts, script, stage>>
    BY <1>2 DEF AcceptVeto, ApproveEarly, AcceptApproval, safetyVars
  <2> QED
    BY <1>a, <2>1, <2>2, CancelRegistered
<1> QED
  BY <1>1, <1>2

LEMMA PanicStep == ASSUME TypeOK, RegistryInv, Panic PROVE RegistryInv' /\ \A i \in Ids : ~Pending(i)'
<1>1. /\ Cancel(Registered, Tail(ready)) /\ Running([run |-> "panic"])
      /\ \A i \in Ids : Life(i) # [run |-> "panic"]
      /\ UNCHANGED <<script, stage, main>>
      /\ interventions' = [z \in Zones |-> NoTask] /\ scripts' = [z \in Zones |-> NoTask]
  BY DEF Panic, Life
<1>2. Registered \in SUBSET Ids
  BY DEF Registered, TypeOK
<1>3. /\ MainOnce' /\ cancelled' = cancelled \cup Live(Registered)
      /\ \A i \in cancelled : Keeps(Life(i))
      /\ \A i \in Live(Registered) : IsReady(Life(i))'
  BY <1>1, <1>2, CancelKeeps DEF RegistryInv, TypeOK, Live
<1>4. \A i \in Live(Registered) : /\ stage[i] \notin {"absent", "done"}
                                  /\ interventions[ZoneOf(i)] = i /\ i # NoTask
  BY DEF Live, Registered, RegistryInv, RegisteredMatches
<1>5. \A i \in Ids : stage[i] # "absent" => ZoneOf(i) \in Zones
  BY DEF TypeOK, ZoneOf, Script
<1>6. \A i \in Ids : Pending(i) => i \in Live(Registered)
  BY <1>5 DEF RegistryInv, PendingRegistered, Pending, Live, Registered, NoTask, Ids
<1>7. \A i \in Ids : ~Pending(i)'
  BY <1>1, <1>3, <1>6 DEF Pending
<1>8. RegisteredMatches' /\ ShownMatches' /\ PendingRegistered'
  BY <1>1, <1>7 DEF RegisteredMatches, ShownMatches, PendingRegistered
<1>9. WithdrawnReady'
  <2>1. \A i \in cancelled' : ZoneOf(i)' \in Zones /\ stage'[i] \notin {"absent", "done"}
    <3>1. \A i \in cancelled' : i \in Ids /\ stage[i] \notin {"absent", "done"}
      BY <1>2, <1>3, <1>4 DEF RegistryInv, WithdrawnReady, TypeOK, Live
    <3>2. \A i \in Ids : ZoneOf(i)' = ZoneOf(i) /\ stage'[i] = stage[i]
      BY <1>1 DEF ZoneOf
    <3> QED
      BY <1>5, <3>1, <3>2
  <2>2. \A i \in cancelled' : IsReady(Life(i))'
    BY <1>3 DEF RegistryInv, WithdrawnReady, Keeps
  <2> QED
    BY <1>1, <2>1, <2>2 DEF WithdrawnReady
<1>10. InferenceExclusive'
  <2> SUFFICES ASSUME main.at = "slm" PROVE InferenceExclusive'
    BY <1>1 DEF InferenceExclusive
  <2>1. \A i \in cancelled' : ZoneOf(i) = main.zone => i \in cancelled
    BY <1>3, <1>4 DEF RegistryInv, InferenceExclusive
  <2>2. main.zone \in Zones
    BY DEF TypeOK
  <2> QED
    BY <1>1, <1>3, <2>1, <2>2 DEF RegistryInv, InferenceExclusive, Keeps, ZoneOf
<1> QED
  BY <1>3, <1>7, <1>8, <1>9, <1>10 DEF RegistryInv

-----------------------------------------------------------------------------
(* Steps of main_loop that reserve and fill a zone. *)
LEMMA InferStep == ASSUME TypeOK, RegistryInv, MainInfer PROVE RegistryInv'
<1>1. /\ Running(Main) /\ ready' = Tail(ready) /\ main.zone \in Zones
      /\ main'.at = "slm" /\ main'.zone = main.zone
      /\ interventions[main.zone] = NoTask /\ scripts[main.zone] = NoTask
      /\ UNCHANGED <<interventions, scripts, script, stage, cancelled>>
  BY DEF MainInfer, MainGoesTo, Busy, safetyVars, taskVars, TypeOK
<1>2. MainOnce' /\ (\A i \in cancelled : Keeps(Life(i))) /\ ~In(ready', Main)
  <2>1. ready \in Seq(Handles) /\ ready # <<>> /\ Head(ready) = Main /\ Once(ready, Main)
    BY <1>1, Unfold DEF Running, TypeOK, RegistryInv
  <2> QED
    BY <1>1, <2>1, ConsumeKeeps, TailOnce, HandlesDiffer DEF RegistryInv, TypeOK
<1>3. RegisteredMatches' /\ ShownMatches' /\ PendingRegistered'
  BY <1>1 DEF RegistryInv, RegisteredMatches, ShownMatches, PendingRegistered, Pending, ZoneOf
<1>4. WithdrawnReady'
  BY <1>1, <1>2 DEF RegistryInv, WithdrawnReady, Keeps, ZoneOf
<1>5. InferenceExclusive'
  <2>1. ASSUME NEW i \in cancelled PROVE Ahead(Life(i), Main)'
    <3>1. In(ready', Life(i))
      BY <1>1, <1>4, Unfold DEF WithdrawnReady
    <3>2. PICK n \in DOMAIN ready' : ready'[n] = Life(i)
      BY <3>1 DEF In
    <3>3. ready' \in Seq(Handles)
      BY <1>1, RestType DEF Running
    <3>4. \A m \in 1..n : m \in DOMAIN ready'
      BY <3>2, <3>3
    <3> QED
      BY <1>2, <3>2, <3>4 DEF Ahead, In
  <2> QED
    BY <1>1, <2>1 DEF InferenceExclusive
<1> QED
  BY <1>2, <1>3, <1>4, <1>5 DEF RegistryInv

LEMMA SpawnStep == ASSUME TypeOK, RegistryInv, Foreign = {}, MainSpawn PROVE RegistryInv'
<1> DEFINE z == main.zone
<1>1. PICK s \in Answers \cup {FallbackScript}, i \in Ids :
        /\ stage[i] = "absent"
        /\ script' = [script EXCEPT ![i] = s]
        /\ stage' = [stage EXCEPT ![i] = "new"]
        /\ interventions' = [interventions EXCEPT ![z] = i]
        /\ ready' = Append(ready, Life(i))
  BY DEF MainSpawn
<1>2. /\ Running(Main) /\ main.at = "slm" /\ z \in Zones /\ main'.at # "slm"
      /\ UNCHANGED <<scripts, cancelled>>
      /\ s.zone = z /\ i # NoTask
  BY <1>1 DEF MainSpawn, MainGetsNext, TypeOK, Answers, FallbackScript, Ids, NoTask
<1>3. MainOnce' /\ \A g : Keeps(g)
  <2>1. Life(i) \in Handles /\ Life(i) # Main
    BY HandlesDiffer DEF Life, Handles
  <2> QED
    BY <1>1, <2>1, WakeKeeps DEF Wake, RegistryInv
<1>4. /\ \A j \in Ids : j # i => ZoneOf(j)' = ZoneOf(j) /\ stage'[j] = stage[j]
      /\ ZoneOf(i)' = z /\ stage'[i] = "new"
  BY <1>1, <1>2 DEF ZoneOf, TypeOK
<1>5. /\ interventions[z] = NoTask /\ scripts[z] = NoTask
      /\ interventions' = [interventions EXCEPT ![z] = i] /\ interventions'[z] = i
      /\ \A y \in Zones : y # z => interventions'[y] = interventions[y] /\ interventions[y] # i
  BY <1>1, <1>2 DEF RegistryInv, InferenceExclusive, RegisteredMatches, TypeOK
(* Main is at the head, so no withdrawn task of the zone can be ahead of it. *)
<1>6. \A j \in cancelled : ZoneOf(j) # z /\ j # i
  <2>1. \A j \in cancelled : ~Ahead(Life(j), Main)
    BY <1>2 DEF Ahead, Running, TypeOK
  <2> QED
    BY <1>1, <1>2, <2>1 DEF RegistryInv, InferenceExclusive, WithdrawnReady
<1>7. RegisteredMatches'
  BY <1>2, <1>4, <1>5 DEF RegistryInv, RegisteredMatches, TypeOK
<1>8. ShownMatches'
  <2>1. \A y \in Zones : scripts[y] # NoTask => y # z /\ scripts[y] # i
    BY <1>1, <1>5 DEF RegistryInv, ShownMatches
  <2> QED
    BY <1>2, <1>4, <1>5, <2>1 DEF RegistryInv, ShownMatches, TypeOK
<1>9. PendingRegistered'
  <2>1. \A j \in Ids : Pending(j)' /\ j # i => Pending(j) /\ ZoneOf(j) # z /\ ZoneOf(j) \in Zones
    BY <1>2, <1>4, <1>5
    DEF RegistryInv, PendingRegistered, Pending, TypeOK, ZoneOf, Script, Ids, NoTask
  <2> QED
    BY <1>2, <1>4, <1>5, <2>1 DEF RegistryInv, PendingRegistered
<1>10. WithdrawnReady'
  <2>1. \A j \in cancelled : j \in Ids /\ ZoneOf(j) \in Zones
    BY DEF RegistryInv, WithdrawnReady, TypeOK, ZoneOf, Script
  <2> QED
    BY <1>2, <1>3, <1>4, <1>5, <1>6, <2>1 DEF RegistryInv, WithdrawnReady, Keeps
<1>11. InferenceExclusive'
  BY <1>2 DEF InferenceExclusive
<1> QED
  BY <1>3, <1>7, <1>8, <1>9, <1>10, <1>11 DEF RegistryInv

-----------------------------------------------------------------------------
(* Steps of a life-cycle task. *)
LEMMA LifeQueue ==
    ASSUME TypeOK, RegistryInv, NEW i \in Ids, Running(Life(i)),
           ready' = ready \/ ready' = Tail(ready)
    PROVE  MainOnce' /\ \A j \in cancelled : j # i => Keeps(Life(j))
<1>1. \A j \in cancelled : j # i => Life(j) # Life(i)
  BY HandlesDiffer DEF TypeOK
<1> QED
  BY <1>1, ConsumeKeeps DEF RegistryInv

LEMMA LifeRuns ==
    ASSUME NEW i \in Ids, LifeStep(i)
    PROVE  /\ Running(Life(i)) /\ (ready' = ready \/ ready' = Tail(ready))
           /\ main' = main /\ script' = script
  BY DEF LifeStep, LifeStillborn, LifeAdvise, LifeStart, LifeLost, LifeSleep, LifeExpire,
         LifeComplete, LifeVetoed, LifeYielded, LifeCleared, FirstStep, Unwinds, Cleanup,
         AfterBroadcast

(* A task that only moves on, or ends without touching the registries. *)
LEMMA TaskMoves ==
    ASSUME TypeOK, RegistryInv, NEW i \in Ids, Running(Life(i)),
           ready' = ready \/ ready' = Tail(ready),
           UNCHANGED <<main, script, interventions, scripts>>, cancelled' = cancelled \ {i},
           \A j \in Ids : j # i => stage'[j] = stage[j],
           stage'[i] \in {"sleep", "acting", "done"}, stage[i] \notin {"absent", "done"},
           stage'[i] # "done" => stage[i] # "new" /\ Pending(i)
    PROVE  RegistryInv'
<1>1. MainOnce' /\ \A j \in cancelled : j # i => Keeps(Life(j))
  BY LifeQueue
<1>2. RegisteredMatches' /\ ShownMatches'
  BY DEF RegistryInv, RegisteredMatches, ShownMatches, ZoneOf, TypeOK, Ids, NoTask
<1>3. PendingRegistered'
  BY DEF RegistryInv, PendingRegistered, Pending, ZoneOf
<1>4. WithdrawnReady'
  BY <1>1 DEF RegistryInv, WithdrawnReady, Keeps, ZoneOf, TypeOK
<1>5. InferenceExclusive'
  BY <1>1 DEF RegistryInv, InferenceExclusive, Keeps, ZoneOf
<1> QED
  BY <1>1, <1>2, <1>3, <1>4, <1>5 DEF RegistryInv

LEMMA LifeMoves ==
    ASSUME TypeOK, RegistryInv, NEW i \in Ids,
           LifeStillborn(i) \/ LifeAdvise(i) \/ LifeLost(i) \/ LifeSleep(i) \/ LifeExpire(i)
    PROVE  RegistryInv'
<1>1. /\ Running(Life(i)) /\ (ready' = ready \/ ready' = Tail(ready))
      /\ main' = main /\ script' = script
  BY LifeRuns DEF LifeStep
<1>2. /\ UNCHANGED <<interventions, scripts>> /\ cancelled' = cancelled \ {i}
      /\ \A j \in Ids : j # i => stage'[j] = stage[j]
      /\ stage'[i] \in {"sleep", "acting", "done"} /\ stage[i] \notin {"absent", "done"}
      /\ stage'[i] # "done" => stage[i] # "new" /\ Pending(i)
  BY DEF LifeStillborn, LifeAdvise, LifeLost, LifeSleep, LifeExpire, FirstStep, Finish,
         safetyVars, Pending, TypeOK
<1> QED
  BY <1>1, <1>2, TaskMoves

LEMMA LifeStarts == ASSUME TypeOK, RegistryInv, NEW i \in Ids, LifeStart(i) PROVE RegistryInv'
<1> DEFINE z == ZoneOf(i)
<1>1. /\ MainOnce' /\ main' = main /\ script' = script
      /\ \A j \in cancelled : j # i => Keeps(Life(j))
  BY LifeQueue, LifeRuns DEF LifeStep
<1>2. /\ UNCHANGED <<interventions, cancelled>> /\ i \notin cancelled /\ z \in Zones
      /\ scripts' = [scripts EXCEPT ![z] = i] /\ stage' = [stage EXCEPT ![i] = "announce"]
      /\ stage[i] = "new" /\ Pending(i) /\ i # NoTask
  BY DEF LifeStart, FirstStep, TypeOK, ZoneOf, Script, Pending, Ids, NoTask
<1>3. interventions[z] = i /\ scripts[z] = NoTask
  BY <1>2 DEF RegistryInv, PendingRegistered, ShownMatches
<1>4. RegisteredMatches'
  BY <1>1, <1>2 DEF RegistryInv, RegisteredMatches, ZoneOf, TypeOK
<1>5. ShownMatches'
  BY <1>1, <1>2, <1>3 DEF RegistryInv, ShownMatches, TypeOK
<1>6. PendingRegistered'
  <2>1. ASSUME NEW j \in Ids, j # i, Pending(j)' PROVE Pending(j) /\ ZoneOf(j) # z /\ ZoneOf(j) \in Zones
    <3>1. Pending(j) /\ stage[j] # "absent"
      BY <1>2, <2>1 DEF Pending, TypeOK
    <3> QED
      BY <1>3, <2>1, <3>1 DEF RegistryInv, PendingRegistered, TypeOK, ZoneOf, Script
  <2>2. \A j \in Ids : j # i => stage'[j] = stage[j]
    BY <1>2 DEF TypeOK
  <2>3. \A y \in Zones : y # z => scripts'[y] = scripts[y]
    BY <1>2 DEF TypeOK
  <2>4. scripts'[z] = i
    BY <1>2 DEF TypeOK
  <2> QED
    BY <1>1, <1>2, <1>3, <2>1, <2>2, <2>3, <2>4 DEF RegistryInv, PendingRegistered, ZoneOf
<1>7. WithdrawnReady'
  BY <1>1, <1>2 DEF RegistryInv, WithdrawnReady, Keeps, ZoneOf, TypeOK
<1>8. InferenceExclusive'
  BY <1>1, <1>2, <1>3 DEF RegistryInv, InferenceExclusive, Keeps, ZoneOf, TypeOK
<1> QED
  BY <1>1, <1>4, <1>5, <1>6, <1>7, <1>8 DEF RegistryInv

(* The finally block finds its own entries, or none. *)
LEMMA CleanupKeeps ==
    ASSUME TypeOK, RegistryInv, NEW i \in Ids, Running(Life(i)), stage[i] \in {"sleep", "acting"},
           Cleanup(i), UNCHANGED <<main, script>>
    PROVE  RegistryInv'
<1> DEFINE z == ZoneOf(i)
<1>1. /\ MainOnce' /\ main' = main /\ script' = script
      /\ \A j \in cancelled : j # i => Keeps(Life(j))
  BY LifeQueue DEF Cleanup
<1>2. /\ interventions' = [interventions EXCEPT ![z] = NoTask]
      /\ scripts' = [scripts EXCEPT ![z] = NoTask]
      /\ stage' = [stage EXCEPT ![i] = "done"] /\ cancelled' = cancelled \ {i}
      /\ z \in Zones
  BY DEF Cleanup, Unregister, Finish, TypeOK, ZoneOf, Script
<1>3. interventions[z] \in {i, NoTask}
  BY <1>2 DEF RegistryInv, PendingRegistered, WithdrawnReady, Pending
<1>4. \A j \in Ids : j # i => stage'[j] = stage[j]
  BY <1>2 DEF TypeOK
<1>5. \A y \in Zones : IF y = z THEN interventions'[y] = NoTask /\ scripts'[y] = NoTask
                       ELSE interventions'[y] = interventions[y] /\ scripts'[y] = scripts[y]
  BY <1>2 DEF TypeOK
<1>6. \A y \in Zones : y # z => interventions[y] # i
  BY DEF RegistryInv, RegisteredMatches, Ids, NoTask
<1>7. RegisteredMatches'
  BY <1>1, <1>4, <1>5, <1>6 DEF RegistryInv, RegisteredMatches, ZoneOf, TypeOK
<1>8. ShownMatches'
  BY <1>4, <1>5, <1>6 DEF RegistryInv, ShownMatches, TypeOK
<1>9. \A j \in Ids : Pending(j)' => Pending(j) /\ j # i /\ ZoneOf(j) # z /\ ZoneOf(j) \in Zones
  <2>1. ASSUME NEW j \in Ids, Pending(j)' PROVE Pending(j) /\ j # i
    BY <1>2, <1>4, <2>1 DEF Pending, TypeOK
  <2>2. \A j \in Ids : Pending(j) => interventions[ZoneOf(j)] = j /\ ZoneOf(j) \in Zones
    BY DEF RegistryInv, PendingRegistered, Pending, TypeOK, ZoneOf, Script
  <2> QED
    BY <1>3, <2>1, <2>2 DEF Ids, NoTask
<1>10. PendingRegistered'
  BY <1>1, <1>4, <1>5, <1>9 DEF RegistryInv, PendingRegistered, ZoneOf
<1>11. WithdrawnReady'
  <2>1. \A j \in cancelled : j \in Ids /\ ZoneOf(j) \in Zones
    BY DEF RegistryInv, WithdrawnReady, TypeOK, ZoneOf, Script
  <2> QED
    BY <1>1, <1>2, <1>4, <1>5, <2>1 DEF RegistryInv, WithdrawnReady, Keeps, ZoneOf
<1>12. InferenceExclusive'
  BY <1>1, <1>2, <1>5 DEF RegistryInv, InferenceExclusive, Keeps, ZoneOf, TypeOK
<1> QED
  BY <1>1, <1>7, <1>8, <1>10, <1>11, <1>12 DEF RegistryInv

LEMMA LifeEnds ==
    ASSUME TypeOK, RegistryInv, NEW i \in Ids,
           LifeComplete(i) \/ LifeVetoed(i) \/ LifeYielded(i) \/ LifeCleared(i)
    PROVE  RegistryInv'
<1>1. /\ Running(Life(i)) /\ stage[i] \in {"sleep", "acting"} /\ Cleanup(i)
      /\ UNCHANGED <<main, script>>
  BY DEF LifeComplete, LifeVetoed, LifeYielded, LifeCleared, Unwinds
<1> QED
  BY <1>1, CleanupKeeps

-----------------------------------------------------------------------------
LEMMA RegistryInit == Init => RegistryInv
  BY DEF Init, RegistryInv, RegisteredMatches, ShownMatches, PendingRegistered, Pending,
         WithdrawnReady, InferenceExclusive, MainOnce

LEMMA RegistryStep ==
    ASSUME TypeOK, RegistryInv, Foreign = {}, [Next]_vars PROVE RegistryInv'
<1>1. CASE MainStep
  BY <1>1, MainFrame, InferStep, CancellingSteps, SpawnStep DEF MainStep
<1>2. CASE RequestStep
  BY <1>2, RequestFrame, CancellingSteps, PanicStep DEF RequestStep
<1>3. ASSUME NEW i \in Ids, LifeStep(i) PROVE RegistryInv'
  BY <1>3, LifeMoves, LifeStarts, LifeEnds DEF LifeStep
<1>4. CASE Completion \/ Arrival
  BY <1>4, OutsideFrame
<1>5. CASE UNCHANGED vars
  BY <1>5 DEF vars, loopVars, safetyVars, taskVars, RegistryInv, RegisteredMatches, ShownMatches,
              PendingRegistered, Pending, WithdrawnReady, InferenceExclusive, MainOnce, IsReady,
              Ahead, ZoneOf
<1> QED
  BY <1>1, <1>2, <1>3, <1>4, <1>5 DEF Next, LoopStep

LEMMA RegistryHolds == Foreign = {} /\ Safety => [](TypeOK /\ RegistryInv)
<1> SUFFICES ASSUME Foreign = {} PROVE Safety => [](TypeOK /\ RegistryInv)
  OBVIOUS
<1>1. RegistryInv /\ TypeOK /\ [Next]_vars => RegistryInv'
  BY RegistryStep
<1> QED
  BY <1>1, RegistryInit, TypeCorrect, PTL DEF Safety

(* Every countdown that can still actuate is displayed to the operators and *)
(* is the one their decisions cancel.                                       *)
THEOREM CountdownsAreVisible == Foreign = {} /\ Safety => []NoHiddenCountdown
<1>1. RegistryInv => NoHiddenCountdown
  BY DEF RegistryInv, PendingRegistered, NoHiddenCountdown, Pending, Counting, ZoneOf
<1> QED
  BY <1>1, RegistryHolds, PTL

(* The script on display is the one the zone's task executes. *)
THEOREM DisplayMatchesTask == Foreign = {} /\ Safety => []ScriptHasItsTask
<1>1. RegistryInv => ScriptHasItsTask
  BY DEF RegistryInv, ShownMatches, ScriptHasItsTask
<1> QED
  BY <1>1, RegistryHolds, PTL

(* Entering panic mode withdraws every proposal. *)
THEOREM PanicIsComplete == Foreign = {} /\ Safety => PanicWithdrawsAll
<1>1. ASSUME TypeOK, RegistryInv, [Next]_vars, ~panic, panic'
      PROVE  \A i \in Ids : ~Pending(i)'
  <2>1. CASE Panic
    BY <1>1, <2>1, PanicStep
  <2>2. CASE ~Panic
    <3>1. panic' = panic \/ ~panic'
      BY <1>1, <2>2 DEF Next, LoopStep, MainStep, RequestStep, LifeStep, Completion, Arrival,
         MainPark, MainDrop, MainAccept, MainQos, MainSkip, MainInfer, MainClear, MainSpawn,
         RejectRequest, Calm, AcceptVeto, ApproveEarly, AcceptApproval, AuditApproval, Configure,
         LifeStillborn, LifeAdvise, LifeStart, LifeLost, LifeSleep, LifeExpire, LifeComplete,
         LifeVetoed, LifeYielded, LifeCleared, SlmReturns, MainBroadcastDone, TimerFires,
         LifeBroadcastDone, ApprovalBroadcastDone, Ingest, Ask, Dashboards, vars, modeVars
    <3> QED
      BY <1>1, <3>1
  <2> QED
    BY <2>1, <2>2
<1>2. TypeOK /\ RegistryInv /\ [Next]_vars
        => [~panic /\ panic' => \A i \in Ids : ~Pending(i)']_vars
  BY <1>1
<1> QED
  BY <1>2, RegistryHolds, PTL DEF Safety, PanicWithdrawsAll

LEMMA DisplayStep ==
    ASSUME TypeOK, RegistryInv, [Next]_vars, NEW z \in Zones, scripts[z] # NoTask
    PROVE  scripts'[z] \in {scripts[z], NoTask}
<1>1. ASSUME NEW i \in Ids, LifeStart(i) PROVE scripts'[z] \in {scripts[z], NoTask}
  <2>1. /\ scripts' = [scripts EXCEPT ![ZoneOf(i)] = i]
        /\ stage[i] = "new" /\ Pending(i)
    BY <1>1 DEF LifeStart, FirstStep, Pending, ZoneOf
  <2>2. ZoneOf(i) # z
    BY <2>1 DEF RegistryInv, PendingRegistered, ShownMatches
  <2> QED
    BY <2>1, <2>2 DEF TypeOK
<1>2. ASSUME NEW i \in Ids, Cleanup(i) PROVE scripts'[z] \in {scripts[z], NoTask}
  BY <1>2 DEF Cleanup, Unregister, TypeOK
<1>3. CASE Panic
  BY <1>3 DEF Panic
<1>4. CASE ~Panic /\ ~(\E i \in Ids : LifeStart(i) \/ Cleanup(i))
  <2>1. scripts' = scripts
    BY <1>4 DEF Next, LoopStep, MainStep, RequestStep, LifeStep, Completion, Arrival,
       MainPark, MainDrop, MainAccept, MainQos, MainSkip, MainInfer, MainClear, MainSpawn,
       RejectRequest, Calm, AcceptVeto, ApproveEarly, AcceptApproval, AuditApproval, Configure,
       LifeStillborn, LifeAdvise, LifeLost, LifeSleep, LifeExpire, LifeComplete, LifeVetoed,
       LifeYielded, LifeCleared, SlmReturns, MainBroadcastDone, TimerFires,
       LifeBroadcastDone, ApprovalBroadcastDone, Ingest, Ask, Dashboards, vars, safetyVars
  <2> QED
    BY <2>1
<1> QED
  BY <1>1, <1>2, <1>3, <1>4

(* A displayed script is never replaced by another. *)
THEOREM DisplayIsStable == Foreign = {} /\ Safety => NoScriptOverwritten
<1>1. TypeOK /\ RegistryInv /\ [Next]_vars
        => [\A z \in Zones : scripts[z] # NoTask => scripts'[z] \in {scripts[z], NoTask}]_vars
  BY DisplayStep
<1> QED
  BY <1>1, RegistryHolds, PTL DEF Safety, NoScriptOverwritten
-----------------------------------------------------------------------------
(* Wakeups, for any inference engine. *)
WakeInv == NoWakeupLost /\ MainOnce

(* Coroutine h runs: it leaves the queue only with nothing left to do, and  *)
(* what it gives others to do wakes them.                                   *)
LEMMA RunsAndWakes ==
    ASSUME WakeInv, MainOnce', NEW h, \A g : g # h => Keeps(g),
           \/ main'.at # "get"
           \/ queue' = <<>>
           \/ IsReady(Main)'
           \/ h # Main /\ UNCHANGED <<main, queue>>,
           \A i \in Ids :
              \/ /\ Life(i) # h
                 /\ i \in cancelled' => i \in cancelled
                 /\ stage'[i] = "new" => stage[i] = "new"
              \/ i \notin cancelled' /\ stage'[i] # "new"
              \/ IsReady(Life(i))'
    PROVE  WakeInv'
<1>1. main'.at = "get" /\ queue' # <<>> => IsReady(Main)'
  BY DEF WakeInv, NoWakeupLost, Keeps
<1>2. \A i \in Ids : i \in cancelled' \/ stage'[i] = "new" => IsReady(Life(i))'
  BY DEF WakeInv, NoWakeupLost, Keeps
<1> QED
  BY <1>1, <1>2 DEF WakeInv, NoWakeupLost

LEMMA MainWakes == ASSUME TypeOK, WakeInv, MainStep PROVE WakeInv'
<1>a. Running(Main) /\ MainOnce /\ \A i \in Ids : Life(i) # Main
  BY HandlesDiffer DEF MainStep, MainPark, MainDrop, MainAccept, MainQos, MainSkip, MainInfer,
                       MainClear, MainSpawn, WakeInv
<1>b. IsReady(Main) /\ In(ready, Main)
  <2>1. 1 \in DOMAIN ready /\ ready[1] = Main
    BY <1>a DEF Running, TypeOK
  <2> QED
    BY <2>1 DEF IsReady, In
<1>1. CASE MainPark \/ MainDrop \/ MainAccept \/ MainQos \/ MainSkip \/ MainInfer
  <2>1. (ready' = ready \/ ready' = Tail(ready)) /\ UNCHANGED <<stage, cancelled>>
    BY <1>1 DEF MainPark, MainDrop, MainAccept, MainQos, MainSkip, MainInfer, AfterBroadcast,
                loopVars, taskVars
  <2>2. MainOnce' /\ \A g : g # Main => Keeps(g)
    BY <1>a, <2>1, ConsumeKeeps
  <2>3. main'.at # "get" \/ queue' = <<>> \/ ready' = ready
    BY <1>1 DEF MainPark, MainDrop, MainAccept, MainQos, MainSkip, MainInfer, MainGoesTo,
                loopVars, TypeOK
  <2>4. ready' = ready => IsReady(Main)'
    BY <1>b DEF IsReady
  <2> QED
    BY <1>a, <2>1, <2>2, <2>3, <2>4, RunsAndWakes
<1>2. CASE MainClear
  <2>1. TaskOf(main.zone) \in SUBSET Ids /\ Cancel(TaskOf(main.zone), ready) /\ stage' = stage
    BY <1>2 DEF MainClear, TaskOf, TypeOK
  <2>2. /\ MainOnce' /\ \A g : g # Main => Keeps(g)
        /\ \A i \in Live(TaskOf(main.zone)) : IsReady(Life(i))'
        /\ IsReady(Main)' /\ cancelled' = cancelled \cup Live(TaskOf(main.zone))
    BY <1>a, <1>b, <2>1, CancelKeeps DEF Live
  <2> QED
    BY <1>a, <2>1, <2>2, RunsAndWakes
<1>3. CASE MainSpawn
  <2>1. PICK i \in Ids : stage' = [stage EXCEPT ![i] = "new"] /\ Wake(Life(i))
    BY <1>3 DEF MainSpawn, Wake
  <2>2. MainOnce' /\ \A g : Keeps(g)
    <3>1. Life(i) \in Handles
      BY DEF Life, Handles
    <3> QED
      BY <1>a, <2>1, <3>1, WakeKeeps
  <2>3. IsReady(Life(i))' /\ IsReady(Main)'
    <3>1. Life(i) \in Handles /\ ready \in Seq(Handles)
      BY DEF Life, Handles, TypeOK
    <3> QED
      BY <1>b, <2>1, <2>2, <3>1, AppendKeeps, Unfold DEF Wake, Keeps
  <2>4. cancelled' = cancelled /\ \A j \in Ids : j # i => stage'[j] = stage[j]
    BY <1>3, <2>1 DEF MainSpawn, TypeOK
  <2> QED
    BY <1>a, <2>2, <2>3, <2>4, RunsAndWakes
<1> QED
  BY <1>1, <1>2, <1>3 DEF MainStep

LEMMA LifeWakes == ASSUME TypeOK, WakeInv, NEW i \in Ids, LifeStep(i) PROVE WakeInv'
<1>1. MainOnce' /\ \A g : g # Life(i) => Keeps(g)
  BY LifeRuns, ConsumeKeeps DEF WakeInv
<1>2. main' = main /\ queue' = queue /\ Life(i) # Main
      /\ \A j \in Ids : j # i => Life(j) # Life(i)
  BY HandlesDiffer DEF LifeStep, LifeStillborn, LifeAdvise, LifeStart, LifeLost, LifeSleep,
     LifeExpire, LifeComplete, LifeVetoed, LifeYielded, LifeCleared
<1>3. /\ cancelled' \subseteq cancelled /\ i \notin cancelled' /\ stage'[i] # "new"
      /\ \A j \in Ids : j # i => stage'[j] = stage[j]
  BY DEF LifeStep, LifeStillborn, LifeAdvise, LifeStart, LifeLost, LifeSleep, LifeExpire,
     LifeComplete, LifeVetoed, LifeYielded, LifeCleared, FirstStep, Unwinds, Cleanup, Finish,
     TypeOK
<1> QED
  BY <1>1, <1>2, <1>3, RunsAndWakes

(* A request runs to its end, and may cancel tasks. *)
LEMMA RequestEnds ==
    ASSUME TypeOK, WakeInv, NEW h, Running(h), h # Main, \A i \in Ids : Life(i) # h,
           UNCHANGED <<main, queue, stage>>,
           \/ ready' = Tail(ready) /\ cancelled' = cancelled
           \/ \E S \in SUBSET Ids : Cancel(S, Tail(ready))
    PROVE  WakeInv'
<1>1. CASE ready' = Tail(ready) /\ cancelled' = cancelled
  <2>1. MainOnce' /\ \A g : g # h => Keeps(g)
    BY <1>1, ConsumeKeeps DEF WakeInv
  <2> QED
    BY <1>1, <2>1, RunsAndWakes
<1>2. ASSUME NEW S \in SUBSET Ids, Cancel(S, Tail(ready)) PROVE WakeInv'
  <2>1. /\ MainOnce' /\ \A g : g # h => Keeps(g)
        /\ \A i \in Live(S) : IsReady(Life(i))'
        /\ cancelled' = cancelled \cup Live(S)
    BY <1>2, CancelKeeps DEF WakeInv, Live
  <2> QED
    BY <2>1, RunsAndWakes
<1> QED
  BY <1>1, <1>2

LEMMA RequestWakes == ASSUME TypeOK, WakeInv, RequestStep PROVE WakeInv'
<1>1. CASE RejectRequest \/ Calm \/ \E l \in Limits : Configure(l)
  BY <1>1, RequestEnds DEF RejectRequest, Calm, Configure, Veto, Approve, Life, Main, taskVars
<1>2. ASSUME NEW i \in Ids, AuditApproval(i) PROVE WakeInv'
  BY <1>2, RequestEnds, HandlesDiffer DEF AuditApproval
<1>3. CASE Panic
  <2>1. Registered \in SUBSET Ids
    BY DEF Registered, TypeOK
  <2> QED
    BY <1>3, <2>1, RequestEnds DEF Panic, Life, Main
<1>4. ASSUME NEW z \in Zones, AcceptVeto(z) \/ ApproveEarly(z) \/ AcceptApproval(z) PROVE WakeInv'
  <2>1. TaskOf(z) \in SUBSET Ids
    BY DEF TaskOf, TypeOK
  <2>2. Cancel(TaskOf(z), Tail(ready)) /\ UNCHANGED <<main, queue, stage>>
    BY <1>4 DEF AcceptVeto, ApproveEarly, AcceptApproval
  <2>3. PICK h : Running(h) /\ h # Main /\ \A i \in Ids : Life(i) # h
    BY <1>4 DEF AcceptVeto, ApproveEarly, AcceptApproval, Veto, Approve, Life, Main
  <2> QED
    BY <2>1, <2>2, <2>3, RequestEnds
<1> QED
  BY <1>1, <1>2, <1>3, <1>4 DEF RequestStep

LEMMA OutsideWakes == ASSUME TypeOK, WakeInv, Completion \/ Arrival PROVE WakeInv'
<1>1. UNCHANGED <<main, stage, cancelled>>
  BY DEF Completion, Arrival, SlmReturns, MainBroadcastDone, TimerFires, LifeBroadcastDone,
         ApprovalBroadcastDone, Ingest, Ask, Dashboards, taskVars
<1>2. MainOnce' /\ \A g : Keeps(g)
  BY OutsideQueue DEF WakeInv
<1>3. queue' = queue \/ (main.at = "get" => IsReady(Main)')
  <2>1. ASSUME NEW m \in Reading \cup {Malformed}, Ingest(m), main.at = "get"
        PROVE  IsReady(Main)'
    <3>1. CASE Suspended(Main)
      <4>1. Wake(Main) /\ ready \in Seq(Handles) /\ Main \in Handles
        BY <2>1, <3>1 DEF Ingest, TypeOK, Main, Handles
      <4> QED
        BY <4>1, AppendKeeps, Unfold DEF Wake
    <3>2. CASE ~Suspended(Main)
      BY <1>2, <3>2 DEF Suspended, Keeps
    <3> QED
      BY <3>1, <3>2
  <2>2. queue' = queue \/ \E m \in Reading \cup {Malformed} : Ingest(m)
    BY DEF Completion, Arrival, SlmReturns, MainBroadcastDone, TimerFires, LifeBroadcastDone,
           ApprovalBroadcastDone, Ask, Dashboards
  <2> QED
    BY <2>1, <2>2
<1> QED
  BY <1>1, <1>2, <1>3 DEF WakeInv, NoWakeupLost, Keeps

LEMMA WakeStarts == Init => WakeInv
  BY DEF Init, WakeInv, NoWakeupLost, MainOnce

LEMMA WakeStep == ASSUME TypeOK, WakeInv, [Next]_vars PROVE WakeInv'
<1>1. CASE Next
  BY <1>1, MainWakes, LifeWakes, RequestWakes, OutsideWakes DEF Next, LoopStep
<1>2. CASE UNCHANGED vars
  BY <1>2 DEF vars, loopVars, taskVars, WakeInv, NoWakeupLost, MainOnce, IsReady
<1> QED
  BY <1>1, <1>2

(* Whoever has something to do is in the loop's queue: a message put while  *)
(* main_loop waits for one wakes it, a cancellation wakes its task wherever *)
(* the task is suspended, and no task is created and forgotten.             *)
THEOREM WakeupsArrive == Safety => []NoWakeupLost
<1>1. WakeInv /\ TypeOK /\ [Next]_vars => WakeInv'
  BY WakeStep
<1>2. WakeInv => NoWakeupLost
  BY DEF WakeInv
<1> QED
  BY <1>1, <1>2, WakeStarts, TypeCorrect, PTL DEF Safety
=============================================================================
