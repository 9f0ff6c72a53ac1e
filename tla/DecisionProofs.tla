--------------------------- MODULE DecisionProofs ---------------------------
(***************************************************************************)
(* What becomes of an operator's decision, for an inference engine that    *)
(* answers for the zone it was asked about (Foreign = {}): an accepted     *)
(* veto stops the countdown, the timer never actuates after a decision,    *)
(* and a window is audited as vetoed only if that window was vetoed.       *)
(*                                                                         *)
(* The invariant speaks of each proposal by itself.  As long as nothing    *)
(* was decided about it, its history is exactly what its own life cycle    *)
(* wrote; so the timer, which runs only then, finds nothing but the start. *)
(***************************************************************************)
EXTENDS RegistryProofs

Decided(i) == i \in cancelled \/ stage[i] = "done"

OnlyStarted(h) == \A n \in DOMAIN h : h[n] = "started"

Untouched(i) ==
    /\ approvals[i] = 0 /\ ~IsReady(Approved(i))
    /\ stage[i] # "acting" => OnlyStarted(history[i])

(* Only the start of its window precedes an actuation without an operator. *)
ActsFirst(h) == \A m, n \in DOMAIN h : h[n] = "actuated" /\ m < n => h[m] = "started"

(* While a task can read the veto mark of its zone, the mark is its own. *)
MarkSeen(i) == stage[i] \in {"sleep", "acting"} /\ ZoneOf(i) \in vetoed

Sound(i) ==
    /\ ~Decided(i) => Untouched(i)
    /\ ActsFirst(history[i])
    /\ Has(i, "veto") => Decided(i)
    /\ MarkSeen(i) => Has(i, "veto")
    /\ Has(i, "vetoed") => Has(i, "veto")

DecisionInv == \A i \in Ids : Sound(i)

-----------------------------------------------------------------------------
(* Histories. *)
LEMMA RecordFacts ==
    ASSUME NEW h \in Seq(Events), NEW e \in Events
    PROVE  /\ Append(h, e) \in Seq(Events)
           /\ \A x : Occurs(Append(h, e), x) <=> Occurs(h, x) \/ x = e
           /\ e # "actuated" /\ ActsFirst(h) => ActsFirst(Append(h, e))
           /\ OnlyStarted(h) => ActsFirst(Append(h, e))
           /\ OnlyStarted(h) /\ e = "started" => OnlyStarted(Append(h, e))
<1>1. /\ Append(h, e) \in Seq(Events) /\ Len(h) \in Nat
      /\ DOMAIN h = 1..Len(h) /\ DOMAIN Append(h, e) = 1..(Len(h) + 1)
      /\ \A n \in 1..Len(h) : Append(h, e)[n] = h[n]
      /\ Append(h, e)[Len(h) + 1] = e
  OBVIOUS
<1>2. \A x : Occurs(Append(h, e), x) <=> Occurs(h, x) \/ x = e
  BY AppendOccurs
<1>3. ASSUME e # "actuated", ActsFirst(h) PROVE ActsFirst(Append(h, e))
  BY <1>1, <1>3 DEF ActsFirst
<1>4. ASSUME OnlyStarted(h) PROVE ActsFirst(Append(h, e))
  BY <1>1, <1>4 DEF ActsFirst, OnlyStarted
<1>5. ASSUME OnlyStarted(h), e = "started" PROVE OnlyStarted(Append(h, e))
  BY <1>1, <1>5 DEF OnlyStarted
<1> QED
  BY <1>1, <1>2, <1>3, <1>4, <1>5

LEMMA TwoRecords ==
    ASSUME NEW h \in Seq(Events), NEW a \in Events, NEW b \in Events
    PROVE  h \o <<a, b>> = Append(Append(h, a), b)
  OBVIOUS

-----------------------------------------------------------------------------
(* The queue: an approval's continuation appears only when its broadcast is *)
(* done.                                                                    *)
LEMMA QueueFacts ==
    ASSUME NEW s \in Seq(Handles), NEW h
    PROVE  /\ s # <<>> /\ In(Tail(s), h) => In(s, h)
           /\ \A a \in Handles : In(Append(s, a), h) => In(s, h) \/ h = a
<1>1. ASSUME s # <<>>, In(Tail(s), h) PROVE In(s, h)
  <2>1. /\ Len(Tail(s)) = Len(s) - 1 /\ Len(s) \in Nat \ {0}
        /\ \A n \in 1..Len(Tail(s)) : Tail(s)[n] = s[n + 1]
        /\ DOMAIN s = 1..Len(s) /\ DOMAIN Tail(s) = 1..Len(Tail(s))
    BY <1>1
  <2>2. PICK n \in DOMAIN Tail(s) : Tail(s)[n] = h
    BY <1>1 DEF In
  <2>3. n + 1 \in DOMAIN s /\ s[n + 1] = h
    BY <2>1, <2>2
  <2> QED
    BY <2>3 DEF In
<1>2. ASSUME NEW a \in Handles, In(Append(s, a), h) PROVE In(s, h) \/ h = a
  <2>1. /\ DOMAIN s = 1..Len(s) /\ DOMAIN Append(s, a) = 1..(Len(s) + 1) /\ Len(s) \in Nat
        /\ \A n \in 1..Len(s) : Append(s, a)[n] = s[n]
        /\ Append(s, a)[Len(s) + 1] = a
    OBVIOUS
  <2> QED
    BY <1>2, <2>1 DEF In
<1> QED
  BY <1>1, <1>2

LEMMA ConsumeApproved ==
    ASSUME TypeOK, NEW h, Running(h), ready' = ready \/ ready' = Tail(ready), NEW g,
           IsReady(g)'
    PROVE  IsReady(g)
<1>1. ready \in Seq(Handles) /\ ready # <<>>
  BY DEF TypeOK, Running
<1> QED
  BY <1>1, QueueFacts, Unfold

LEMMA WakeApproved ==
    ASSUME TypeOK, NEW h \in Handles, Wake(h), NEW g, g # h, IsReady(g)'
    PROVE  IsReady(g)
<1>1. ready \in Seq(Handles)
  BY DEF TypeOK
<1> QED
  BY <1>1, QueueFacts, Unfold DEF Wake

LEMMA CancelApproved ==
    ASSUME TypeOK, NEW S \in SUBSET Ids, NEW rest, Cancel(S, rest),
           NEW h, Running(h), rest = ready \/ rest = Tail(ready),
           NEW k \in Ids, IsReady(Approved(k))'
    PROVE  IsReady(Approved(k))
<1>1. ready \in Seq(Handles) /\ ready # <<>> /\ rest \in Seq(Handles)
  BY RestType DEF TypeOK, Running
<1>2. PICK n \in 0..MaxTelemetry : \E order \in [1..n -> Asleep(S)] :
         ready' = rest \o [a \in 1..n |-> Life(order[a])]
  BY DEF Cancel, WakesInOrder
<1>3. PICK order \in [1..n -> Asleep(S)] : ready' = rest \o [a \in 1..n |-> Life(order[a])]
  BY <1>2
<1> DEFINE wakes == [a \in 1..n |-> Life(order[a])]
<1>4. wakes \in Seq(Handles) /\ DOMAIN wakes = 1..n /\ \A a \in 1..n : order[a] \in Ids
  <2>1. n \in Nat /\ \A i \in Ids : Life(i) \in Handles
    BY <1>2, ConstantsAssumption DEF ConstantsAssumption, Life, Handles
  <2>2. wakes \in [1..n -> Handles] /\ \A a \in 1..n : order[a] \in Ids
    BY <1>3, <2>1 DEF Asleep, Live
  <2> QED
    BY <2>1, <2>2
<1>5. ~In(wakes, Approved(k))
  BY <1>4, HandlesDiffer DEF In
<1>6. ready' = rest \o wakes
  BY <1>3
<1> HIDE DEF wakes
<1>7. In(rest, Approved(k))
  BY <1>1, <1>4, <1>5, <1>6, Unfold, ConcatKeeps
<1> QED
  BY <1>1, <1>7, QueueFacts, Unfold

-----------------------------------------------------------------------------
(* A proposal the step does not record about. *)
LEMMA SoundFrame ==
    ASSUME TypeOK, NEW i \in Ids, Sound(i), history'[i] = history[i],
           Decided(i) => Decided(i)',
           ~Decided(i)' => /\ approvals'[i] = 0 /\ ~IsReady(Approved(i))'
                           /\ stage[i] = "acting" => stage'[i] = "acting",
           MarkSeen(i)' => MarkSeen(i)
    PROVE  Sound(i)'
<1>1. OnlyStarted(history[i])' <=> OnlyStarted(history[i])
  BY DEF OnlyStarted
<1>2. ActsFirst(history[i])' <=> ActsFirst(history[i])
  BY DEF ActsFirst
<1>3. \A e : Has(i, e)' <=> Has(i, e)
  BY DEF Has
<1>4. ~Decided(i)' => Untouched(i)'
  BY <1>1 DEF Sound, Untouched
<1> QED
  BY <1>2, <1>3, <1>4 DEF Sound

(* Steps that decide nothing: histories, tasks and marks stay. *)
LEMMA QuietFrame ==
    ASSUME TypeOK, DecisionInv,
           UNCHANGED <<history, stage, cancelled, approvals, script, vetoed>>,
           \A k \in Ids : IsReady(Approved(k))' => IsReady(Approved(k))
    PROVE  DecisionInv'
<1> SUFFICES ASSUME NEW i \in Ids PROVE Sound(i)'
  BY DEF DecisionInv
<1>1. /\ Sound(i) /\ history'[i] = history[i] /\ (Decided(i)' <=> Decided(i))
      /\ (MarkSeen(i)' <=> MarkSeen(i))
  BY DEF DecisionInv, Decided, MarkSeen, ZoneOf
<1>2. ~Decided(i)' => /\ approvals'[i] = 0 /\ ~IsReady(Approved(i))'
                      /\ stage'[i] = stage[i]
  BY <1>1 DEF Sound, Untouched
<1> QED
  BY <1>1, <1>2, SoundFrame

LEMMA QuietMain ==
    ASSUME TypeOK, DecisionInv,
           MainPark \/ MainDrop \/ MainAccept \/ MainQos \/ MainSkip \/ MainInfer
    PROVE  DecisionInv'
<1>1. /\ Running(Main) /\ (ready' = ready \/ ready' = Tail(ready))
      /\ UNCHANGED <<history, stage, cancelled, approvals, script, vetoed>>
  BY DEF MainPark, MainDrop, MainAccept, MainQos, MainSkip, MainInfer, AfterBroadcast, loopVars,
         safetyVars, taskVars
<1> QED
  BY <1>1, ConsumeApproved, QuietFrame

LEMMA QuietRequests ==
    ASSUME TypeOK, DecisionInv, RejectRequest \/ Calm \/ \E l \in Limits : Configure(l)
    PROVE  DecisionInv'
<1>1. PICK h : Running(h)
  BY DEF RejectRequest, Calm, Configure
<1>2. /\ ready' = Tail(ready)
      /\ UNCHANGED <<history, stage, cancelled, approvals, script, vetoed>>
  BY DEF RejectRequest, Calm, Configure, safetyVars, taskVars
<1> QED
  BY <1>1, <1>2, ConsumeApproved, QuietFrame

LEMMA QuietOutside ==
    ASSUME TypeOK, DecisionInv,
           \/ SlmReturns \/ MainBroadcastDone \/ Arrival
           \/ \E i \in Ids : TimerFires(i) \/ LifeBroadcastDone(i)
    PROVE  DecisionInv'
<1>1. UNCHANGED <<history, stage, cancelled, approvals, script, vetoed>>
  BY DEF Arrival, SlmReturns, MainBroadcastDone, TimerFires, LifeBroadcastDone, Ingest, Ask,
         Dashboards, safetyVars, taskVars
<1>2. \/ ready' = ready
      \/ \E h \in Handles : Wake(h) /\ \A k \in Ids : h # Approved(k)
  <2>1. /\ Main \in Handles /\ Requests \subseteq Handles
        /\ \A i \in Ids : Life(i) \in Handles
    BY DEF Main, Life, Handles
  <2>2. CASE SlmReturns \/ MainBroadcastDone
    BY <2>1, <2>2, HandlesDiffer DEF SlmReturns, MainBroadcastDone
  <2>3. CASE \E i \in Ids : TimerFires(i) \/ LifeBroadcastDone(i)
    BY <2>1, <2>3, HandlesDiffer DEF TimerFires, LifeBroadcastDone
  <2>4. ASSUME NEW m, Ingest(m)
        PROVE  ready' = ready \/ \E h \in Handles : Wake(h) /\ \A k \in Ids : h # Approved(k)
    BY <2>1, <2>4, HandlesDiffer DEF Ingest
  <2>5. ASSUME NEW q \in Requests, Ask(q)
        PROVE  \E h \in Handles : Wake(h) /\ \A k \in Ids : h # Approved(k)
    <3>1. \A k \in Ids : q # Approved(k)
      BY DEF Requests, Approved
    <3> QED
      BY <2>1, <2>5, <3>1 DEF Ask
  <2>6. CASE Dashboards
    BY <2>6 DEF Dashboards
  <2> QED
    BY <2>2, <2>3, <2>4, <2>5, <2>6 DEF Arrival
<1>3. \A k \in Ids : IsReady(Approved(k))' => IsReady(Approved(k))
  <2>1. CASE ready' = ready
    BY <2>1 DEF IsReady
  <2>2. CASE \E h \in Handles : Wake(h) /\ \A k \in Ids : h # Approved(k)
    BY <2>2, WakeApproved
  <2> QED
    BY <1>2, <2>1, <2>2
<1> QED
  BY <1>1, <1>3, QuietFrame

(* Cancelling without a record: clearing telemetry, early approval of a     *)
(* proposal not shown, panic mode.                                          *)
LEMMA CancelFrame ==
    ASSUME TypeOK, DecisionInv, NEW S \in SUBSET Ids, NEW rest, Cancel(S, rest),
           NEW h, Running(h), rest = ready \/ rest = Tail(ready),
           UNCHANGED <<script, stage>>, vetoed' \subseteq vetoed,
           NEW i \in Ids, history'[i] = history[i], approvals'[i] = approvals[i]
    PROVE  Sound(i)'
<1>1. cancelled' = cancelled \cup Live(S)
  BY DEF Cancel
<1>2. /\ Sound(i) /\ (Decided(i) => Decided(i)') /\ (MarkSeen(i)' => MarkSeen(i))
  BY <1>1 DEF DecisionInv, Decided, MarkSeen, ZoneOf
<1>3. ~Decided(i)' => /\ approvals'[i] = 0 /\ ~IsReady(Approved(i))'
                      /\ stage'[i] = stage[i]
  BY <1>2, CancelApproved DEF Sound, Untouched
<1> QED
  BY <1>2, <1>3, SoundFrame

LEMMA Withdrawals ==
    ASSUME TypeOK, DecisionInv, MainClear \/ Panic \/ \E z \in Zones : ApproveEarly(z)
    PROVE  DecisionInv'
<1>a. Registered \in SUBSET Ids /\ \A z \in Zones : TaskOf(z) \in SUBSET Ids
  BY DEF Registered, TaskOf, TypeOK
<1>1. CASE MainClear
  <2>1. /\ main.zone \in Zones /\ Running(Main) /\ Cancel(TaskOf(main.zone), ready)
        /\ UNCHANGED <<script, stage, history, approvals>> /\ vetoed' \subseteq vetoed
    BY <1>1 DEF MainClear, DiscardVeto, TypeOK
  <2> QED
    BY <1>a, <2>1, CancelFrame DEF DecisionInv
<1>2. CASE Panic
  <2>1. /\ Running([run |-> "panic"]) /\ Cancel(Registered, Tail(ready))
        /\ UNCHANGED <<script, stage, history, approvals, vetoed>>
    BY <1>2 DEF Panic
  <2> QED
    BY <1>a, <2>1, CancelFrame DEF DecisionInv
<1>3. ASSUME NEW z \in Zones, ApproveEarly(z) PROVE DecisionInv'
  <2>1. /\ Running(Approve(z)) /\ Cancel(TaskOf(z), Tail(ready))
        /\ UNCHANGED <<script, stage, history, approvals, vetoed>>
    BY <1>3 DEF ApproveEarly, safetyVars
  <2> QED
    BY <1>a, <2>1, CancelFrame DEF DecisionInv
<1> QED
  BY <1>1, <1>2, <1>3

LEMMA Proposal ==
    ASSUME TypeOK, RegistryInv, DecisionInv, MainSpawn PROVE DecisionInv'
<1>1. PICK s \in Answers \cup {FallbackScript}, k \in Ids :
        /\ stage[k] = "absent"
        /\ script' = [script EXCEPT ![k] = s] /\ stage' = [stage EXCEPT ![k] = "new"]
        /\ ready' = Append(ready, Life(k))
  BY DEF MainSpawn
<1>2. UNCHANGED <<history, cancelled, approvals, vetoed>>
  BY DEF MainSpawn
<1>3. k \notin cancelled
  BY <1>1 DEF RegistryInv, WithdrawnReady
<1>4. /\ \A i \in Ids : i # k => stage'[i] = stage[i] /\ script'[i] = script[i]
      /\ stage'[k] = "new"
  BY <1>1 DEF TypeOK
<1>5. \A i \in Ids : IsReady(Approved(i))' => IsReady(Approved(i))
  <2>1. Life(k) \in Handles
    BY DEF Life, Handles
  <2> QED
    BY <1>1, <2>1, WakeApproved, HandlesDiffer DEF Wake
<1> SUFFICES ASSUME NEW i \in Ids PROVE Sound(i)'
  BY DEF DecisionInv
<1>6. /\ Sound(i) /\ history'[i] = history[i] /\ (Decided(i) => Decided(i)')
      /\ (Decided(i)' => Decided(i)) /\ (MarkSeen(i)' => MarkSeen(i))
  BY <1>1, <1>2, <1>3, <1>4 DEF DecisionInv, Decided, MarkSeen, ZoneOf
<1>7. ~Decided(i)' => /\ approvals'[i] = 0 /\ ~IsReady(Approved(i))'
                      /\ stage[i] = "acting" => stage'[i] = "acting"
  BY <1>1, <1>2, <1>4, <1>5, <1>6 DEF Sound, Untouched
<1> QED
  BY <1>6, <1>7, SoundFrame

-----------------------------------------------------------------------------
(* Steps of a life-cycle task. *)
LEMMA Recording ==
    ASSUME TypeOK, NEW i \in Ids, NEW e \in Events, Record(i, e)
    PROVE  /\ \A j \in Ids : j # i => history'[j] = history[j]
           /\ \A x : Has(i, x)' <=> Has(i, x) \/ x = e
           /\ e # "actuated" /\ ActsFirst(history[i]) => ActsFirst(history[i])'
           /\ OnlyStarted(history[i]) => ActsFirst(history[i])'
           /\ OnlyStarted(history[i]) /\ e = "started" => OnlyStarted(history[i])'
<1>1. /\ history[i] \in Seq(Events) /\ history'[i] = Append(history[i], e)
      /\ \A j \in Ids : j # i => history'[j] = history[j]
  BY DEF TypeOK, Record
<1>2. /\ \A x : Has(i, x) <=> Occurs(history[i], x)
      /\ \A x : Has(i, x)' <=> Occurs(history'[i], x)
      /\ ActsFirst(history[i])' <=> ActsFirst(history'[i])
      /\ OnlyStarted(history[i])' <=> OnlyStarted(history'[i])
  BY DEF Has, Occurs, ActsFirst, OnlyStarted
<1> QED
  BY <1>1, <1>2, RecordFacts

(* A step of task i leaves the other proposals alone. *)
LEMMA LifeFrame ==
    ASSUME TypeOK, NEW i \in Ids, LifeStep(i)
    PROVE  /\ \A j \in Ids : IsReady(Approved(j))' => IsReady(Approved(j))
           /\ UNCHANGED <<script, approvals>> /\ vetoed' \subseteq vetoed
           /\ \A j \in Ids : j # i => /\ history'[j] = history[j] /\ stage'[j] = stage[j]
                                      /\ j \in cancelled' <=> j \in cancelled
<1>1. /\ Running(Life(i)) /\ (ready' = ready \/ ready' = Tail(ready))
      /\ UNCHANGED <<script, approvals>> /\ vetoed' \subseteq vetoed
      /\ cancelled' = cancelled \/ cancelled' = cancelled \ {i}
  BY DEF LifeStep, LifeStillborn, LifeAdvise, LifeStart, LifeLost, LifeSleep, LifeExpire,
         LifeComplete, LifeVetoed, LifeYielded, LifeCleared, FirstStep, Unwinds, Cleanup,
         AfterBroadcast, Finish, DiscardVeto, safetyVars
<1>2. \A j \in Ids : j # i => history'[j] = history[j] /\ stage'[j] = stage[j]
  BY DEF LifeStep, LifeStillborn, LifeAdvise, LifeStart, LifeLost, LifeSleep, LifeExpire,
         LifeComplete, LifeVetoed, LifeYielded, LifeCleared, Cleanup, Finish, Record, TypeOK
<1> QED
  BY <1>1, <1>2, ConsumeApproved

LEMMA LifeOthers ==
    ASSUME TypeOK, DecisionInv, NEW i \in Ids, LifeStep(i), NEW j \in Ids, j # i
    PROVE  Sound(j)'
<1>1. /\ Sound(j) /\ history'[j] = history[j] /\ (Decided(j)' <=> Decided(j))
      /\ (MarkSeen(j)' => MarkSeen(j)) /\ stage'[j] = stage[j]
  BY LifeFrame DEF DecisionInv, Decided, MarkSeen, ZoneOf
<1>2. ~Decided(j)' => approvals'[j] = 0 /\ ~IsReady(Approved(j))'
  BY <1>1, LifeFrame DEF Sound, Untouched
<1> QED
  BY <1>1, <1>2, SoundFrame

(* The task goes to sleep, or ends without a record. *)
LEMMA LifeSilent ==
    ASSUME TypeOK, DecisionInv, NEW i \in Ids,
           LifeStillborn(i) \/ LifeLost(i) \/ LifeYielded(i) \/ LifeSleep(i)
    PROVE  Sound(i)'
<1>1. LifeStep(i) /\ Sound(i) /\ history'[i] = history[i] /\ stage[i] # "absent"
  BY DEF LifeStep, DecisionInv, LifeStillborn, LifeLost, LifeYielded, LifeSleep, Unwinds
<1>2. CASE LifeStillborn(i) \/ LifeLost(i) \/ LifeYielded(i)
  <2>1. stage'[i] = "done"
    BY <1>2 DEF LifeStillborn, LifeLost, LifeYielded, Cleanup, Finish, TypeOK
  <2>2. Decided(i)' /\ ~MarkSeen(i)'
    BY <2>1 DEF Decided, MarkSeen
  <2> QED
    BY <1>1, <2>2, SoundFrame
<1>3. CASE LifeSleep(i)
  <2>1. /\ stage[i] = "announce" /\ i \notin cancelled /\ stage'[i] = "sleep"
        /\ cancelled' = cancelled /\ ~MarkSeen(i)' /\ approvals' = approvals
    BY <1>3 DEF LifeSleep, DiscardVeto, MarkSeen, ZoneOf, TypeOK
  <2>2. ~Decided(i) /\ approvals[i] = 0 /\ ~IsReady(Approved(i))
    BY <1>1, <2>1 DEF Decided, Sound, Untouched
  <2> QED
    BY <1>1, <2>1, <2>2, LifeFrame, SoundFrame
<1> QED
  BY <1>2, <1>3

LEMMA LifeRecords ==
    ASSUME TypeOK, DecisionInv, NEW i \in Ids,
           \/ LifeAdvise(i) \/ LifeStart(i) \/ LifeExpire(i)
           \/ LifeComplete(i) \/ LifeVetoed(i) \/ LifeCleared(i)
    PROVE  Sound(i)'
<1>1. LifeStep(i) /\ Sound(i)
  BY DEF LifeStep, DecisionInv
<1>2. CASE LifeStart(i)
  <2>1. /\ Record(i, "started") /\ stage[i] = "new" /\ stage'[i] = "announce"
        /\ i \notin cancelled /\ i \notin cancelled' /\ approvals' = approvals
    BY <1>2 DEF LifeStart, FirstStep, TypeOK
  <2>2. Untouched(i) /\ ~Has(i, "veto") /\ ~Has(i, "vetoed") /\ ~MarkSeen(i)'
    BY <1>1, <2>1 DEF Sound, Decided, MarkSeen
  <2>3. /\ OnlyStarted(history[i])' /\ ActsFirst(history[i])'
        /\ ~Has(i, "veto")' /\ ~Has(i, "vetoed")'
    BY <2>1, <2>2, Recording DEF Untouched, Events
  <2> QED
    BY <1>1, <2>1, <2>2, <2>3, LifeFrame DEF Sound, Untouched
<1>3. CASE LifeAdvise(i) \/ LifeExpire(i)
  <2>1. /\ Record(i, "actuated") /\ stage[i] \in {"new", "sleep"} /\ i \notin cancelled
        /\ stage'[i] \in {"done", "acting"} /\ approvals' = approvals
        /\ vetoed' = vetoed /\ script' = script
        /\ stage'[i] = "acting" => stage[i] = "sleep"
    BY <1>3 DEF LifeAdvise, LifeExpire, FirstStep, Finish, TypeOK, safetyVars
  <2>2. Untouched(i) /\ ~Has(i, "veto") /\ ~Has(i, "vetoed") /\ OnlyStarted(history[i])
    BY <1>1, <2>1 DEF Sound, Decided, Untouched
  <2>3. ActsFirst(history[i])' /\ ~Has(i, "veto")' /\ ~Has(i, "vetoed")'
    BY <2>1, <2>2, Recording DEF Events
  <2>4. ~MarkSeen(i)'
    BY <1>1, <2>1, <2>2 DEF Sound, MarkSeen, ZoneOf
  <2>5. ~Decided(i)' => Untouched(i)'
    BY <2>1, <2>2, LifeFrame, <1>1 DEF Decided, Untouched
  <2> QED
    BY <2>3, <2>4, <2>5 DEF Sound
<1>4. CASE LifeComplete(i) \/ LifeVetoed(i) \/ LifeCleared(i)
  <2>1. PICK e \in {"expired", "vetoed", "cleared"} :
          Record(i, e) /\ (e = "vetoed" => MarkSeen(i))
    BY <1>4 DEF LifeComplete, LifeVetoed, LifeCleared, Unwinds, MarkSeen, ZoneOf
  <2>2. stage'[i] = "done"
    BY <1>4 DEF LifeComplete, LifeVetoed, LifeCleared, Cleanup, Finish, TypeOK
  <2>3. Decided(i)' /\ ~MarkSeen(i)'
    BY <2>2 DEF Decided, MarkSeen
  <2>4. ActsFirst(history[i])' /\ (Has(i, "vetoed")' => Has(i, "veto")')
    BY <1>1, <2>1, Recording DEF Sound, Events
  <2> QED
    BY <2>3, <2>4 DEF Sound
<1> QED
  BY <1>2, <1>3, <1>4

-----------------------------------------------------------------------------
(* Decisions of operators: the proposal shown is the one that is cancelled. *)
LEMMA Decision ==
    ASSUME TypeOK, RegistryInv, NEW z \in Zones, NEW k \in Ids, scripts[z] = k,
           Cancel(TaskOf(z), Tail(ready)), stage' = stage
    PROVE  /\ Decided(k)' /\ cancelled \subseteq cancelled' /\ TaskOf(z) \in SUBSET Ids
           /\ \A j \in Ids : stage[j] \in {"sleep", "acting"} /\ ZoneOf(j) = z => j = k
<1>1. k # NoTask
  BY DEF Ids, NoTask
<1>2. interventions[z] = k /\ TaskOf(z) = {k}
  BY <1>1 DEF RegistryInv, ShownMatches, TaskOf
<1>3. cancelled' = cancelled \cup Live({k})
  BY <1>2 DEF Cancel
<1>4. Decided(k)'
  BY <1>3 DEF Live, Decided
<1>5. ASSUME NEW j \in Ids, stage[j] \in {"sleep", "acting"}, ZoneOf(j) = z PROVE j = k
  BY <1>1, <1>2, <1>5 DEF RegistryInv, PendingRegistered, WithdrawnReady, Pending
<1> QED
  BY <1>2, <1>3, <1>4, <1>5

LEMMA Vetoes ==
    ASSUME TypeOK, RegistryInv, DecisionInv, NEW z \in Zones, AcceptVeto(z)
    PROVE  DecisionInv'
<1>0. PICK k \in Ids : scripts[z] = k
  BY DEF AcceptVeto, TypeOK
<1>1. /\ Running(Veto(z)) /\ vetoed' = vetoed \cup {z}
      /\ Cancel(TaskOf(z), Tail(ready)) /\ Record(k, "veto")
      /\ UNCHANGED <<script, stage, approvals>>
  BY <1>0 DEF AcceptVeto
<1>2. /\ Decided(k)' /\ cancelled \subseteq cancelled' /\ TaskOf(z) \in SUBSET Ids
      /\ \A j \in Ids : stage[j] \in {"sleep", "acting"} /\ ZoneOf(j) = z => j = k
  BY <1>0, <1>1, Decision
<1>3. ASSUME NEW j \in Ids, j # k PROVE Sound(j)'
  <2>1. /\ Sound(j) /\ history'[j] = history[j] /\ (Decided(j) => Decided(j)')
        /\ (MarkSeen(j)' => MarkSeen(j)) /\ stage'[j] = stage[j]
    BY <1>1, <1>2, <1>3, Recording DEF DecisionInv, Decided, MarkSeen, ZoneOf, Events
  <2>2. ~Decided(j)' => approvals'[j] = 0 /\ ~IsReady(Approved(j))'
    BY <1>1, <1>2, <2>1, CancelApproved DEF Sound, Untouched
  <2> QED
    BY <2>1, <2>2, SoundFrame
<1>4. Sound(k)'
  <2>1. Sound(k) /\ ActsFirst(history[k])' /\ Has(k, "veto")'
    BY <1>1, <1>2, Recording DEF DecisionInv, Sound, Events
  <2> QED
    BY <1>2, <2>1 DEF Sound
<1> QED
  BY <1>3, <1>4 DEF DecisionInv

LEMMA Approvals ==
    ASSUME TypeOK, RegistryInv, DecisionInv, NEW z \in Zones, AcceptApproval(z)
    PROVE  DecisionInv'
<1>0. PICK k \in Ids : scripts[z] = k
  BY DEF AcceptApproval, TypeOK
<1>1. /\ Running(Approve(z))
      /\ Cancel(TaskOf(z), Tail(ready))
      /\ UNCHANGED <<script, stage, vetoed>>
      /\ \/ /\ approvals' = [approvals EXCEPT ![k] = @ + 1]
            /\ history' = [history EXCEPT ![k] = Append(@, "actuated_approved")]
         \/ /\ history' = [history EXCEPT ![k] = @ \o <<"actuated_approved", "approved">>]
            /\ UNCHANGED approvals
  BY <1>0 DEF AcceptApproval, Record
<1>2. /\ Decided(k)' /\ cancelled \subseteq cancelled' /\ TaskOf(z) \in SUBSET Ids
  BY <1>0, <1>1, Decision
<1>3. ASSUME NEW j \in Ids, j # k PROVE Sound(j)'
  <2>1. /\ Sound(j) /\ history'[j] = history[j] /\ approvals'[j] = approvals[j]
        /\ (Decided(j) => Decided(j)') /\ (MarkSeen(j)' => MarkSeen(j)) /\ stage'[j] = stage[j]
    BY <1>1, <1>2, <1>3 DEF DecisionInv, Decided, MarkSeen, ZoneOf, TypeOK
  <2>2. ~Decided(j)' => approvals'[j] = 0 /\ ~IsReady(Approved(j))'
    BY <1>1, <1>2, <2>1, CancelApproved DEF Sound, Untouched
  <2> QED
    BY <2>1, <2>2, SoundFrame
<1>4. Sound(k)'
  <2> DEFINE h == history[k]
             one == Append(h, "actuated_approved")
             two == Append(one, "approved")
  <2>1. h \in Seq(Events) /\ ActsFirst(h)
    BY <1>2 DEF TypeOK, DecisionInv, Sound
  <2>2. history'[k] = one \/ history'[k] = two
    BY <1>1, <1>2, <2>1, TwoRecords DEF TypeOK, Events
  <2> HIDE DEF h
  <2>3. one \in Seq(Events) /\ ActsFirst(one)
        /\ \A x : Occurs(one, x) <=> Occurs(h, x) \/ x = "actuated_approved"
    BY <2>1, RecordFacts DEF Events
  <2> HIDE DEF one
  <2>4. ActsFirst(two) /\ \A x : Occurs(two, x) <=> Occurs(one, x) \/ x = "approved"
    BY <2>3, RecordFacts DEF Events
  <2> HIDE DEF two
  <2>5. /\ ActsFirst(history'[k])
        /\ \A x \in {"veto", "vetoed"} : Occurs(history'[k], x) <=> Occurs(history[k], x)
    BY <2>2, <2>3, <2>4 DEF h
  <2>6. /\ ActsFirst(history[k])' <=> ActsFirst(history'[k])
        /\ \A x \in {"veto", "vetoed"} : Has(k, x) <=> Occurs(history[k], x)
        /\ \A x \in {"veto", "vetoed"} : Has(k, x)' <=> Occurs(history'[k], x)
    BY DEF Has, Occurs, ActsFirst
  <2>7. Sound(k) /\ (MarkSeen(k)' => MarkSeen(k))
    BY <1>1, <1>2 DEF DecisionInv, MarkSeen, ZoneOf
  <2> QED
    BY <1>2, <2>5, <2>6, <2>7 DEF Sound
<1> QED
  BY <1>3, <1>4 DEF DecisionInv

(* The rest of an approval, after its broadcast. *)
LEMMA ApprovalEnds ==
    ASSUME TypeOK, DecisionInv, NEW k \in Ids, AuditApproval(k) \/ ApprovalBroadcastDone(k)
    PROVE  DecisionInv'
<1>1. Sound(k) /\ Decided(k) /\ Decided(k)' /\ (MarkSeen(k)' => MarkSeen(k))
  <2>1. approvals[k] > 0 \/ IsReady(Approved(k))
    BY DEF AuditApproval, ApprovalBroadcastDone, Running, IsReady, TypeOK
  <2>2. Sound(k) /\ Decided(k)
    BY <2>1 DEF DecisionInv, Sound, Untouched
  <2> QED
    BY <2>2 DEF AuditApproval, ApprovalBroadcastDone, Decided, MarkSeen, ZoneOf, safetyVars
<1>2. ASSUME NEW j \in Ids, j # k PROVE Sound(j)'
  <2>1. /\ Sound(j) /\ history'[j] = history[j] /\ approvals'[j] = approvals[j]
        /\ (Decided(j)' <=> Decided(j)) /\ (MarkSeen(j)' <=> MarkSeen(j)) /\ stage'[j] = stage[j]
    BY <1>2 DEF AuditApproval, ApprovalBroadcastDone, Record, DecisionInv, Decided, MarkSeen,
                ZoneOf, safetyVars, TypeOK
  <2>2. IsReady(Approved(j))' => IsReady(Approved(j))
    <3>1. Approved(k) \in Handles /\ Approved(j) # Approved(k)
      BY <1>2 DEF Approved, Handles
    <3> QED
      BY <3>1, ConsumeApproved, WakeApproved DEF AuditApproval, ApprovalBroadcastDone
  <2>3. ~Decided(j)' => approvals'[j] = 0 /\ ~IsReady(Approved(j))'
    BY <2>1, <2>2 DEF Sound, Untouched
  <2> QED
    BY <2>1, <2>3, SoundFrame
<1>3. CASE ApprovalBroadcastDone(k)
  <2>1. history' = history
    BY <1>3 DEF ApprovalBroadcastDone
  <2> QED
    BY <1>1, <1>2, <2>1, SoundFrame DEF DecisionInv
<1>4. CASE AuditApproval(k)
  <2>1. /\ ActsFirst(history[k])'
        /\ \A x \in {"veto", "vetoed"} : Has(k, x)' <=> Has(k, x)
    BY <1>1, <1>4, Recording DEF AuditApproval, Sound, Events
  <2> QED
    BY <1>1, <1>2, <2>1 DEF DecisionInv, Sound
<1> QED
  BY <1>3, <1>4

-----------------------------------------------------------------------------
LEMMA DecisionInit == Init => DecisionInv
  BY DEF Init, DecisionInv, Sound, Decided, Untouched, OnlyStarted, ActsFirst, Has, MarkSeen,
         IsReady, Ids

LEMMA DecisionStep ==
    ASSUME TypeOK, RegistryInv, DecisionInv, [Next]_vars PROVE DecisionInv'
<1>1. CASE MainStep
  BY <1>1, QuietMain, Withdrawals, Proposal DEF MainStep
<1>2. CASE RequestStep
  BY <1>2, QuietRequests, Withdrawals, Vetoes, Approvals, ApprovalEnds DEF RequestStep
<1>3. ASSUME NEW i \in Ids, LifeStep(i) PROVE DecisionInv'
  <2>1. Sound(i)'
    BY <1>3, LifeSilent, LifeRecords DEF LifeStep
  <2> QED
    BY <1>3, <2>1, LifeOthers DEF DecisionInv
<1>4. CASE Completion \/ Arrival
  BY <1>4, QuietOutside, ApprovalEnds DEF Completion
<1>5. CASE UNCHANGED vars
  <2>1. /\ ready' = ready
        /\ UNCHANGED <<history, stage, cancelled, approvals, script, vetoed>>
    BY <1>5 DEF vars, loopVars, safetyVars, taskVars
  <2> QED
    BY <2>1, QuietFrame DEF IsReady
<1> QED
  BY <1>1, <1>2, <1>3, <1>4, <1>5 DEF Next, LoopStep

LEMMA DecisionHolds == Foreign = {} /\ Safety => [](TypeOK /\ RegistryInv /\ DecisionInv)
<1>1. TypeOK /\ RegistryInv /\ DecisionInv /\ [Next]_vars => DecisionInv'
  BY DecisionStep
<1> QED
  BY <1>1, DecisionInit, RegistryHolds, PTL DEF Safety

LEMMA DecisionsHold ==
    DecisionInv => VetoStopsCountdown /\ TimerNeverOverrules /\ VetoedMeansVetoed
<1>1. DecisionInv => VetoStopsCountdown /\ VetoedMeansVetoed
  BY DEF DecisionInv, Sound, Decided, VetoStopsCountdown, VetoedMeansVetoed, Counting
<1>2. DecisionInv => TimerNeverOverrules
  <2> SUFFICES ASSUME DecisionInv, NEW i \in Ids, NEW e \in Events \ {"started"},
                      Follows(i, "actuated", e)
               PROVE  FALSE
    BY DEF TimerNeverOverrules
  <2>1. PICK m, n \in DOMAIN history[i] :
          m < n /\ history[i][m] = e /\ history[i][n] = "actuated"
    BY DEF Follows
  <2> QED
    BY <2>1 DEF DecisionInv, Sound, ActsFirst
<1> QED
  BY <1>1, <1>2

(* An accepted veto reaches the countdown it is about: the task is          *)
(* cancelled, whatever it was waiting for.                                  *)
THEOREM VetoReachesItsCountdown == Foreign = {} /\ Safety => []VetoStopsCountdown
  BY DecisionsHold, DecisionHolds, PTL

(* The timer never actuates a window that was vetoed, approved or otherwise *)
(* ended, even if it had fired before.                                      *)
THEOREM DecisionBeatsTimer == Foreign = {} /\ Safety => []TimerNeverOverrules
  BY DecisionsHold, DecisionHolds, PTL

(* A window is audited as vetoed only if an operator vetoed that window.    *)
THEOREM AuditedVetoIsReal == Foreign = {} /\ Safety => []VetoedMeansVetoed
  BY DecisionsHold, DecisionHolds, PTL
=============================================================================
