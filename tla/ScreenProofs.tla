---------------------------- MODULE ScreenProofs ----------------------------
(***************************************************************************)
(* Every countdown that runs out is on the dashboards' screens, for an     *)
(* inference engine that answers for the zone it was asked about, every    *)
(* set of zones, and audit writes that may fail anywhere; and the screens  *)
(* are current whenever the service is at rest.                            *)
(*                                                                         *)
(* A task sleeps only after its announcement was sent, but other snapshots *)
(* are taken, sent and withdrawn meanwhile.  The invariant says that those *)
(* taken before the announcement are sent before it, those taken after it  *)
(* show the script too, and that only the announcing task, still waiting,  *)
(* has a snapshot on the way.  A second invariant, after the first theorem,*)
(* says what the latest snapshot may lack of the state.                    *)
(***************************************************************************)
EXTENDS ServiceProofs

(* Snapshots on the way: whether some are task i's, and whether, once all  *)
(* of them have arrived, and after i's own, the screens show i for zone z. *)
Sent(s, i) == \E n \in DOMAIN s : s[n].by = i

OnScreen(s, i, z) ==
    \A n \in DOMAIN s : \/ s[n].state.scripts[z] = i
                        \/ \E m \in DOMAIN s : m > n /\ s[m].by = i

OneEach(s) == \A m, n \in DOMAIN s : s[m].by = s[n].by => m = n

(* Snapshot n arrives: those before it are superseded. *)
LEMMA LaterKeeps ==
    ASSUME NEW s, NEW length \in Nat, DOMAIN s = 1..length, NEW n \in 1..length,
           NEW t, DOMAIN t = 1..(length - n), \A m \in 1..(length - n) : t[m] = s[m + n]
    PROVE  /\ \A i : Sent(t, i) => Sent(s, i)
           /\ OneEach(s) => OneEach(t) /\ ~Sent(t, s[n].by)
<1>1. \A m \in DOMAIN t : m + n \in DOMAIN s /\ t[m] = s[m + n] /\ m + n > n
  OBVIOUS
<1>2. \A i : Sent(t, i) => Sent(s, i)
  BY <1>1 DEF Sent
<1>3. OneEach(s) => OneEach(t) /\ ~Sent(t, s[n].by)
  BY <1>1 DEF OneEach, Sent
<1> QED
  BY <1>2, <1>3

LEMMA LaterShows ==
    ASSUME NEW s, NEW length \in Nat, DOMAIN s = 1..length, NEW n \in 1..length,
           NEW t, DOMAIN t = 1..(length - n), \A m \in 1..(length - n) : t[m] = s[m + n],
           NEW i, NEW z, OnScreen(s, i, z)
    PROVE  OnScreen(t, i, z) /\ (Sent(t, i) \/ s[n].state.scripts[z] = i)
<1>1. \A m \in DOMAIN t : m + n \in DOMAIN s /\ t[m] = s[m + n]
  OBVIOUS
<1>2. \A m \in DOMAIN s : m > n => m - n \in DOMAIN t /\ t[m - n] = s[m]
  OBVIOUS
<1>3. Sent(t, i) \/ s[n].state.scripts[z] = i
  BY <1>2 DEF OnScreen, Sent
<1>4. ASSUME NEW m \in DOMAIN t, t[m].state.scripts[z] # i
      PROVE  \E k \in DOMAIN t : k > m /\ t[k].by = i
  <2>1. PICK k \in DOMAIN s : k > m + n /\ s[k].by = i
    BY <1>1, <1>4 DEF OnScreen
  <2>2. k - n \in DOMAIN t /\ t[k - n] = s[k] /\ k - n > m
    BY <1>2, <2>1
  <2> QED
    BY <2>1, <2>2
<1> QED
  BY <1>3, <1>4 DEF OnScreen

(* Snapshot n is withdrawn. *)
LEMMA WithoutOne ==
    ASSUME NEW S, NEW s \in Seq(S), NEW n \in DOMAIN s,
           NEW t, t = SubSeq(s, 1, n - 1) \o SubSeq(s, n + 1, Len(s))
    PROVE  /\ DOMAIN t = 1..(Len(s) - 1)
           /\ \A m \in 1..(n - 1) : t[m] = s[m]
           /\ \A m \in n..(Len(s) - 1) : t[m] = s[m + 1]
<1>1. Len(s) \in Nat /\ n \in 1..Len(s)
  OBVIOUS
<1>2. PICK a : a = SubSeq(s, 1, n - 1)
  OBVIOUS
<1>3. PICK b : b = SubSeq(s, n + 1, Len(s))
  OBVIOUS
<1>4. a \in Seq(S) /\ Len(a) = n - 1 /\ \A m \in 1..(n - 1) : a[m] = s[m]
  BY <1>1, <1>2
<1>5. b \in Seq(S) /\ Len(b) = Len(s) - n /\ \A m \in 1..(Len(s) - n) : b[m] = s[m + n]
  BY <1>1, <1>3
<1>6. t = a \o b
  BY <1>2, <1>3
<1>7. /\ DOMAIN t = 1..(Len(s) - 1)
      /\ \A m \in 1..(n - 1) : t[m] = a[m]
      /\ \A m \in n..(Len(s) - 1) : t[m] = b[m - (n - 1)]
  <2>1. ASSUME NEW x \in Seq(S), NEW y \in Seq(S), NEW j, NEW k, Len(x) = j, Len(y) = k
        PROVE  /\ DOMAIN (x \o y) = 1..(j + k)
               /\ \A m \in 1..j : (x \o y)[m] = x[m]
               /\ \A m \in (j + 1)..(j + k) : (x \o y)[m] = y[m - j]
    BY ONLY <2>1
  <2>2. /\ DOMAIN t = 1..((n - 1) + (Len(s) - n))
        /\ \A m \in 1..(n - 1) : t[m] = a[m]
        /\ \A m \in ((n - 1) + 1)..((n - 1) + (Len(s) - n)) : t[m] = b[m - (n - 1)]
    BY ONLY <1>4, <1>5, <1>6, <2>1
  <2>3. (n - 1) + (Len(s) - n) = Len(s) - 1 /\ (n - 1) + 1 = n
    BY <1>1
  <2> QED
    BY ONLY <2>2, <2>3
<1>8. \A m \in n..(Len(s) - 1) : b[m - (n - 1)] = s[m + 1]
  <2>1. \A m \in n..(Len(s) - 1) : m - (n - 1) \in 1..(Len(s) - n) /\ (m - (n - 1)) + n = m + 1
    BY <1>1
  <2> QED
    BY <1>5, <2>1
<1> QED
  BY ONLY <1>4, <1>7, <1>8

LEMMA RemovalKeeps ==
    ASSUME NEW s, NEW length \in Nat, DOMAIN s = 1..length, NEW n \in 1..length,
           NEW t, DOMAIN t = 1..(length - 1),
           \A m \in 1..(n - 1) : t[m] = s[m], \A m \in n..(length - 1) : t[m] = s[m + 1]
    PROVE  /\ \A i : Sent(t, i) => Sent(s, i)
           /\ \A i : i # s[n].by /\ Sent(s, i) => Sent(t, i)
           /\ OneEach(s) => OneEach(t)
           /\ \A i, z : i # s[n].by /\ OnScreen(s, i, z) => OnScreen(t, i, z)
<1>2. PICK old \in [DOMAIN t -> DOMAIN s] : old = [m \in DOMAIN t |-> IF m < n THEN m ELSE m + 1]
  <2>1. \A m \in DOMAIN t : (IF m < n THEN m ELSE m + 1) \in DOMAIN s
    OBVIOUS
  <2> QED
    BY <2>1
<1>3. PICK new \in [DOMAIN s \ {n} -> DOMAIN t] :
        new = [m \in DOMAIN s \ {n} |-> IF m < n THEN m ELSE m - 1]
  <2>1. \A m \in DOMAIN s \ {n} : (IF m < n THEN m ELSE m - 1) \in DOMAIN t
    OBVIOUS
  <2> QED
    BY <2>1
<1>4. \A m \in DOMAIN t : t[m] = s[old[m]] /\ old[m] # n
  <2> SUFFICES ASSUME NEW m \in DOMAIN t PROVE t[m] = s[old[m]] /\ old[m] # n
    OBVIOUS
  <2>1. CASE m < n
    BY <1>2, <2>1
  <2>2. CASE ~(m < n)
    BY <1>2, <2>2
  <2> QED
    BY <2>1, <2>2
<1>5. \A m \in DOMAIN s \ {n} : old[new[m]] = m
  BY <1>2, <1>3
<1>6. \A k, m \in DOMAIN t : (old[k] = old[m] => k = m) /\ (old[k] > old[m] => k > m)
  BY <1>2
<1>7. \A i : Sent(t, i) => Sent(s, i)
  BY <1>4 DEF Sent
<1>8. \A i : i # s[n].by /\ Sent(s, i) => Sent(t, i)
  <2> SUFFICES ASSUME NEW m \in DOMAIN s, m # n PROVE \E k \in DOMAIN t : t[k] = s[m]
    BY DEF Sent
  <2>1. new[m] \in DOMAIN t
    BY <1>3
  <2> QED
    BY <1>4, <1>5, <2>1
<1>9. OneEach(s) => OneEach(t)
  <2> SUFFICES ASSUME OneEach(s), NEW k \in DOMAIN t, NEW m \in DOMAIN t, t[k].by = t[m].by
               PROVE  k = m
    BY DEF OneEach
  <2>1. old[k] \in DOMAIN s /\ old[m] \in DOMAIN s /\ s[old[k]].by = s[old[m]].by
    BY <1>4
  <2>2. old[k] = old[m]
    BY <2>1 DEF OneEach
  <2> QED
    BY <1>6, <2>2
<1>10. ASSUME NEW i, NEW z, i # s[n].by, OnScreen(s, i, z),
              NEW m \in DOMAIN t, t[m].state.scripts[z] # i
       PROVE  \E k \in DOMAIN t : k > m /\ t[k].by = i
  <2>1. PICK k \in DOMAIN s : k > old[m] /\ s[k].by = i
    <3>1. old[m] \in DOMAIN s /\ s[old[m]].state.scripts[z] # i
      BY <1>4, <1>10
    <3> QED
      BY <1>10, <3>1 DEF OnScreen
  <2>2. new[k] \in DOMAIN t /\ old[new[k]] = k
    BY <1>3, <1>5, <1>10, <2>1
  <2>3. t[new[k]].by = i /\ new[k] > m
    BY <1>4, <1>6, <2>1, <2>2
  <2> QED
    BY <2>2, <2>3
<1>11. \A i, z : i # s[n].by /\ OnScreen(s, i, z) => OnScreen(t, i, z)
  <2> SUFFICES ASSUME NEW i, NEW z, i # s[n].by, OnScreen(s, i, z) PROVE OnScreen(t, i, z)
    OBVIOUS
  <2>1. ASSUME NEW m \in DOMAIN t, t[m].state.scripts[z] # i
        PROVE  \E k \in DOMAIN t : k > m /\ t[k].by = i
    BY <1>10, <2>1
  <2> QED
    BY <2>1 DEF OnScreen
<1> QED
  BY <1>7, <1>8, <1>9, <1>11

(* A snapshot is taken. *)
LEMMA AppendShows ==
    ASSUME NEW S, NEW s \in Seq(S), NEW e \in S
    PROVE  /\ \A i : Sent(Append(s, e), i) <=> Sent(s, i) \/ i = e.by
           /\ OneEach(s) /\ ~Sent(s, e.by) => OneEach(Append(s, e))
           /\ \A i, z : e.state.scripts[z] = i /\ (OnScreen(s, i, z) \/ i = e.by)
                          => OnScreen(Append(s, e), i, z)
<1>1. /\ Len(s) \in Nat /\ DOMAIN s = 1..Len(s) /\ DOMAIN Append(s, e) = 1..(Len(s) + 1)
      /\ \A m \in 1..Len(s) : Append(s, e)[m] = s[m]
      /\ Append(s, e)[Len(s) + 1] = e
  OBVIOUS
<1>2. \A i : Sent(Append(s, e), i) <=> Sent(s, i) \/ i = e.by
  BY <1>1 DEF Sent
<1>3. OneEach(s) /\ ~Sent(s, e.by) => OneEach(Append(s, e))
  BY <1>1 DEF OneEach, Sent
<1>4. \A i, z : e.state.scripts[z] = i /\ (OnScreen(s, i, z) \/ i = e.by)
                  => OnScreen(Append(s, e), i, z)
  BY <1>1 DEF OnScreen
<1> QED
  BY <1>2, <1>3, <1>4

-----------------------------------------------------------------------------
(* A task not started is in the event loop's queue once; one not created,  *)
(* not at all.                                                             *)
NewOnce ==
    \A i \in Ids : /\ stage[i] = "new" => In(ready, Life(i)) /\ Once(ready, Life(i))
                   /\ stage[i] = "absent" => ~In(ready, Life(i))

Same(i) ==
    /\ In(ready', Life(i)) <=> In(ready, Life(i))
    /\ Once(ready, Life(i)) => Once(ready', Life(i))

LEMMA SameConsume ==
    ASSUME TypeOK, NEW h, Running(h), ready' = ready \/ ready' = Tail(ready),
           NEW i \in Ids, Life(i) # h
    PROVE  Same(i)
<1>1. ready \in Seq(Handles) /\ ready # <<>> /\ Head(ready) = h
  BY DEF TypeOK, Running
<1>2. \A n \in DOMAIN Tail(ready) : n + 1 \in DOMAIN ready /\ Tail(ready)[n] = ready[n + 1]
  BY <1>1
<1>3. In(Tail(ready), Life(i)) => In(ready, Life(i))
  BY <1>2 DEF In
<1>4. In(ready, Life(i)) => In(Tail(ready), Life(i))
  BY <1>1, TailKeeps
<1>5. Once(ready, Life(i)) => Once(Tail(ready), Life(i))
  BY <1>1, TailOnce
<1> QED
  BY <1>3, <1>4, <1>5 DEF Same

LEMMA SameWake ==
    ASSUME TypeOK, NEW h \in Handles, Wake(h), NEW i \in Ids, Life(i) # h
    PROVE  Same(i)
<1>1. ready \in Seq(Handles) /\ ready' = Append(ready, h)
  BY DEF TypeOK, Wake
<1>2. /\ DOMAIN Append(ready, h) = 1..(Len(ready) + 1) /\ DOMAIN ready = 1..Len(ready)
      /\ \A n \in 1..Len(ready) : Append(ready, h)[n] = ready[n]
      /\ Append(ready, h)[Len(ready) + 1] = h /\ Len(ready) \in Nat
  BY <1>1
<1>3. In(Append(ready, h), Life(i)) => In(ready, Life(i))
  BY <1>2 DEF In
<1> QED
  BY <1>1, <1>3, AppendKeeps DEF Same

LEMMA SameCancel ==
    ASSUME TypeOK, NEW S \in SUBSET Ids, NEW rest, Cancel(S, rest),
           NEW h, Running(h), rest = ready \/ rest = Tail(ready),
           NEW i \in Ids, Life(i) # h, i \notin Asleep(S)
    PROVE  Same(i)
<1>1. /\ ready \in Seq(Handles) /\ ready # <<>> /\ Head(ready) = h /\ rest \in Seq(Handles)
  BY RestType DEF TypeOK, Running
<1>2. Asleep(S) \in SUBSET Ids
  BY DEF Asleep, Live
<1>3. PICK n \in 0..MaxTelemetry : \E order \in [1..n -> Asleep(S)] :
         ready' = rest \o [a \in 1..n |-> Life(order[a])]
  BY DEF Cancel, WakesInOrder
<1>4. PICK order \in [1..n -> Asleep(S)] : ready' = rest \o [a \in 1..n |-> Life(order[a])]
  BY <1>3
<1>5. PICK wakes : wakes = [a \in 1..n |-> Life(order[a])]
  OBVIOUS
<1>6. wakes \in Seq(Handles) /\ DOMAIN wakes = 1..n
  <2>1. n \in Nat /\ \A k \in Ids : Life(k) \in Handles
    BY <1>3, ConstantsAssumption DEF ConstantsAssumption, Life, Handles
  <2>2. wakes \in [1..n -> Handles]
    BY <1>2, <1>5, <2>1
  <2> QED
    BY <2>1, <2>2
<1>7. ~In(wakes, Life(i))
  BY <1>2, <1>5, <1>6, HandlesDiffer DEF In
<1>8. ready' = rest \o wakes
  BY <1>4, <1>5
<1>9. /\ In(rest, Life(i)) <=> In(ready, Life(i))
      /\ Once(ready, Life(i)) => Once(rest, Life(i))
  <2>1. CASE rest = ready
    BY <2>1
  <2>2. CASE rest = Tail(ready)
    <3>1. \A m \in DOMAIN Tail(ready) : m + 1 \in DOMAIN ready /\ Tail(ready)[m] = ready[m + 1]
      BY <1>1
    <3>2. In(Tail(ready), Life(i)) => In(ready, Life(i))
      BY <3>1 DEF In
    <3> QED
      BY <1>1, <2>2, <3>2, TailKeeps, TailOnce
  <2> QED
    BY <2>1, <2>2
<1> QED
  BY <1>1, <1>6, <1>7, <1>8, <1>9, ConcatKeeps DEF Same

(* What one step can do to task i. *)
Fate(i) ==
    \/ Same(i) /\ stage'[i] = stage[i]
    \/ Running(Life(i)) /\ stage'[i] \notin {"absent", "new"}
    \/ TimerFires(i)
    \/ i \in cancelled' /\ stage'[i] = stage[i] /\ stage[i] \notin {"absent", "new"}
    \/ stage[i] = "absent" /\ stage'[i] = "new" /\ ready' = Append(ready, Life(i))

LEMMA FateOfOthers ==
    ASSUME TypeOK, NEW h, Running(h), ready' = ready \/ ready' = Tail(ready),
           \A i \in Ids : Life(i) # h, UNCHANGED stage
    PROVE  \A i \in Ids : Fate(i)
  BY SameConsume DEF Fate

LEMMA FateOfTask ==
    ASSUME TypeOK, NEW k \in Ids, Running(Life(k)), ready' = ready \/ ready' = Tail(ready),
           \A i \in Ids : i # k => stage'[i] = stage[i], stage'[k] \notin {"absent", "new"}
    PROVE  \A i \in Ids : Fate(i)
  BY SameConsume, HandlesDiffer DEF Fate

LEMMA FateOfCancelled ==
    ASSUME TypeOK, RegistryInv, NewOnce, NEW S \in SUBSET Registered, NEW rest, Cancel(S, rest),
           NEW h, Running(h), rest = ready \/ rest = Tail(ready),
           \A i \in Ids : Life(i) # h, UNCHANGED stage
    PROVE  \A i \in Ids : Fate(i)
<1> SUFFICES ASSUME NEW i \in Ids PROVE Fate(i)
  OBVIOUS
<1>1. S \in SUBSET Ids
  BY DEF Registered, TypeOK
<1>2. CASE i \notin Asleep(S)
  BY <1>1, <1>2, SameCancel DEF Fate
<1>3. CASE i \in Asleep(S)
  <2>1. i \in Registered /\ i \in Live(S) /\ ~In(ready, Life(i))
    BY <1>3, Unfold DEF Asleep, Live, Suspended
  <2>2. stage[i] \notin {"absent", "new"}
    BY <2>1 DEF Registered, RegistryInv, RegisteredMatches, NewOnce
  <2> QED
    BY <2>1, <2>2 DEF Fate, Cancel
<1> QED
  BY <1>2, <1>3

LEMMA FateOfWoken ==
    ASSUME TypeOK, NEW h \in Handles, Wake(h), \A i \in Ids : Life(i) # h, UNCHANGED stage
    PROVE  \A i \in Ids : Fate(i)
  BY SameWake DEF Fate

LEMMA FateInMain ==
    ASSUME TypeOK, RegistryInv, NewOnce, MainStep PROVE \A i \in Ids : Fate(i)
<1>a. \A i \in Ids : Life(i) # Main
  BY HandlesDiffer
<1>1. CASE MainPark \/ MainDrop \/ MainAccept \/ MainQos \/ MainSkip \/ MainInfer
  <2>1. Running(Main) /\ (ready' = ready \/ ready' = Tail(ready)) /\ stage' = stage
    BY <1>1 DEF MainPark, MainDrop, MainAccept, MainQos, MainSkip, MainInfer, AfterBroadcast,
       loopVars, taskVars
  <2> QED
    BY <1>a, <2>1, FateOfOthers
<1>2. CASE MainClear
  <2>1. TaskOf(main.zone) \in SUBSET Registered
    BY <1>2 DEF MainClear, TaskOf, Registered, TypeOK
  <2>2. Cancel(TaskOf(main.zone), ready) /\ Running(Main) /\ stage' = stage
    BY <1>2 DEF MainClear
  <2> QED
    BY <1>a, <2>1, <2>2, FateOfCancelled
<1>3. CASE MainSpawn
  <2>1. PICK k \in Ids : /\ stage[k] = "absent" /\ stage' = [stage EXCEPT ![k] = "new"]
                         /\ ready' = Append(ready, Life(k))
    BY <1>3 DEF MainSpawn
  <2>2. Life(k) \in Handles
    BY DEF Life, Handles
  <2>3. \A i \in Ids : i # k => Same(i) /\ stage'[i] = stage[i]
    BY <2>1, <2>2, SameWake, HandlesDiffer DEF Wake, TypeOK
  <2>4. stage'[k] = "new"
    BY <2>1 DEF TypeOK
  <2> QED
    BY <2>1, <2>3, <2>4 DEF Fate
<1> QED
  BY <1>1, <1>2, <1>3 DEF MainStep

LEMMA FateInRequest ==
    ASSUME TypeOK, RegistryInv, NewOnce, RequestStep PROVE \A i \in Ids : Fate(i)
<1>a. \A z \in Zones : TaskOf(z) \in SUBSET Registered
  BY DEF TaskOf, Registered
<1>1. ASSUME RejectRequest \/ Calm \/ (\E l \in Limits : Configure(l))
             \/ (\E i \in Ids : AuditApproval(i))
      PROVE  \A i \in Ids : Fate(i)
  <2>1. PICK h : Running(h) /\ (\A i \in Ids : Life(i) # h)
    <3>1. CASE RejectRequest
      BY <3>1 DEF RejectRequest, Veto, Approve, Life
    <3>2. CASE Calm
      BY <3>2 DEF Calm, Life
    <3>3. CASE \E l \in Limits : Configure(l)
      BY <3>3 DEF Configure, Life
    <3>4. CASE \E i \in Ids : AuditApproval(i)
      BY <3>4, HandlesDiffer DEF AuditApproval
    <3> QED
      BY <1>1, <3>1, <3>2, <3>3, <3>4
  <2>2. ready' = Tail(ready) /\ stage' = stage
    BY <1>1 DEF RejectRequest, Calm, Configure, AuditApproval, taskVars
  <2> QED
    BY <2>1, <2>2, FateOfOthers
<1>2. ASSUME NEW z \in Zones, AcceptVeto(z) \/ ApproveEarly(z) \/ AcceptApproval(z)
      PROVE  \A i \in Ids : Fate(i)
  <2>1. PICK h : Running(h) /\ \A i \in Ids : Life(i) # h
    BY <1>2 DEF AcceptVeto, ApproveEarly, AcceptApproval, Veto, Approve, Life
  <2>2. Cancel(TaskOf(z), Tail(ready)) /\ stage' = stage
    BY <1>2 DEF AcceptVeto, ApproveEarly, AcceptApproval
  <2> QED
    BY <1>a, <2>1, <2>2, FateOfCancelled
<1>3. CASE Panic
  <2>1. /\ Cancel(Registered, Tail(ready)) /\ stage' = stage /\ Running([run |-> "panic"])
        /\ \A i \in Ids : Life(i) # [run |-> "panic"]
    BY <1>3 DEF Panic, Life
  <2> QED
    BY <2>1, FateOfCancelled
<1> QED
  BY <1>1, <1>2, <1>3 DEF RequestStep

LEMMA FateInLife ==
    ASSUME TypeOK, NEW k \in Ids, LifeStep(k) PROVE \A i \in Ids : Fate(i)
<1>1. /\ \A i \in Ids : i # k => stage'[i] = stage[i]
      /\ stage'[k] \notin {"absent", "new"}
  BY DEF LifeStep, LifeStillborn, LifeAdvise, LifeStart, LifeLost, LifeSleep, LifeExpire,
     LifeComplete, LifeVetoed, LifeYielded, LifeCleared, FirstStep, Unwinds, Cleanup, Finish, TypeOK
<1> QED
  BY <1>1, LifeRuns, FateOfTask

(* What happens outside the coroutines, the end of a broadcast of a        *)
(* life-cycle task apart.                                                  *)
Elsewhere ==
    \/ SlmReturns \/ MainBroadcastDone
    \/ \E i \in Ids : TimerFires(i) \/ ApprovalBroadcastDone(i)
    \/ Arrival

LEMMA FateElsewhere ==
    ASSUME TypeOK, Elsewhere PROVE \A i \in Ids : Fate(i)
<1>a. /\ Main \in Handles /\ Requests \subseteq Handles
      /\ \A k \in Ids : Life(k) \in Handles /\ Approved(k) \in Handles
  BY DEF Main, Life, Approved, Handles
<1>b. stage' = stage
  BY DEF Elsewhere, Arrival, SlmReturns, MainBroadcastDone, TimerFires,
         ApprovalBroadcastDone, Ingest, Ask, Dashboards, taskVars
<1>c. ready' = ready => \A i \in Ids : Fate(i)
  BY <1>b DEF Fate, Same
<1>1. CASE SlmReturns \/ MainBroadcastDone
  BY <1>1, <1>a, <1>b, FateOfWoken, HandlesDiffer DEF SlmReturns, MainBroadcastDone
<1>2. ASSUME NEW k \in Ids, TimerFires(k) PROVE \A i \in Ids : Fate(i)
  <2>1. Wake(Life(k)) /\ Life(k) \in Handles
    BY <1>2, <1>a DEF TimerFires
  <2>2. \A i \in Ids : i # k => Same(i) /\ stage'[i] = stage[i]
    BY <1>b, <2>1, SameWake, HandlesDiffer
  <2> QED
    BY <1>2, <2>2 DEF Fate
<1>3. ASSUME NEW k \in Ids, ApprovalBroadcastDone(k) PROVE \A i \in Ids : Fate(i)
  BY <1>3, <1>a, <1>b, FateOfWoken, HandlesDiffer DEF ApprovalBroadcastDone
<1>4. ASSUME NEW m \in Reading \cup {Malformed}, Ingest(m) PROVE \A i \in Ids : Fate(i)
  BY <1>4, <1>a, <1>b, <1>c, FateOfWoken, HandlesDiffer DEF Ingest
<1>5. ASSUME NEW q \in Requests, Ask(q) PROVE \A i \in Ids : Fate(i)
  BY <1>5, <1>a, <1>b, FateOfWoken, HandlesDiffer DEF Ask
<1>6. CASE Dashboards
  BY <1>6, <1>c DEF Dashboards
<1> QED
  BY <1>1, <1>2, <1>3, <1>4, <1>5, <1>6 DEF Elsewhere, Arrival

LEMMA FateOfAnnounced ==
    ASSUME TypeOK, NEW k \in Ids, LifeBroadcastDone(k)
    PROVE  (\A i \in Ids : i # k => Fate(i)) /\ stage' = stage /\ stage[k] \notin {"absent", "new"}
<1>1. Wake(Life(k)) /\ Life(k) \in Handles /\ stage' = stage /\ stage[k] \in {"announce", "acting"}
  BY DEF LifeBroadcastDone, Life, Handles, taskVars
<1>2. \A i \in Ids : i # k => Same(i)
  BY <1>1, SameWake, HandlesDiffer
<1> QED
  BY <1>1, <1>2 DEF Fate

LEMMA FateInFailure ==
    ASSUME TypeOK, RegistryInv, NewOnce, WriteFails PROVE \A i \in Ids : Fate(i)
<1>1. ASSUME NEW k \in Ids, FirstWriteFails(k) \/ LaterWriteFails(k) PROVE \A i \in Ids : Fate(i)
  <2>1. /\ Running(Life(k)) /\ ready' = Tail(ready)
        /\ stage' = [stage EXCEPT ![k] = "done"]
    BY <1>1 DEF FirstWriteFails, FirstStep, LaterWriteFails, FinallyBlock, Cleanup, Finish
  <2> QED
    BY <2>1, FateOfTask DEF TypeOK
<1>2. ASSUME NEW k \in Ids, ApprovalWriteFails(k) PROVE \A i \in Ids : Fate(i)
  BY <1>2, FateOfOthers, HandlesDiffer DEF ApprovalWriteFails, taskVars
<1>3. ASSUME NEW z \in Zones, ActuationWriteFails(z) PROVE \A i \in Ids : Fate(i)
  <2>1. TaskOf(z) \in SUBSET Registered
    BY DEF TaskOf, Registered
  <2>2. Running(Approve(z)) /\ \A i \in Ids : Life(i) # Approve(z)
    BY <1>3 DEF ActuationWriteFails, Approve, Life
  <2>3. Cancel(TaskOf(z), Tail(ready)) /\ stage' = stage
    BY <1>3 DEF ActuationWriteFails
  <2> QED
    BY <2>1, <2>2, <2>3, FateOfCancelled
<1>4. CASE QosWriteFails \/ InferenceWriteFails
  BY <1>4, FateOfOthers, HandlesDiffer
  DEF QosWriteFails, InferenceWriteFails, Switches, loopVars, taskVars
<1>5. ASSUME NEW mode \in BOOLEAN, ModeWriteFails(mode) PROVE \A i \in Ids : Fate(i)
  <2>1. PICK h : h = [run |-> IF mode THEN "panic" ELSE "calm"]
    OBVIOUS
  <2>2. \A i \in Ids : Life(i) # h
    <3>1. \A i \in Ids : Life(i).run = "life"
      BY DEF Life
    <3>2. h.run # "life"
      BY <2>1
    <3> QED
      BY <3>1, <3>2
  <2>3. Running(h) /\ ready' = Tail(ready) /\ stage' = stage
    BY <1>5, <2>1 DEF ModeWriteFails, taskVars
  <2> QED
    BY <2>2, <2>3, FateOfOthers
<1> QED
  BY <1>1, <1>2, <1>3, <1>4, <1>5 DEF WriteFails

(* All steps but the start of a countdown and the end of its announcement. *)
LifeGoes(i) ==
    \/ LifeStillborn(i) \/ LifeAdvise(i) \/ LifeLost(i) \/ LifeSleep(i) \/ LifeExpire(i)
    \/ LifeComplete(i) \/ LifeVetoed(i) \/ LifeYielded(i) \/ LifeCleared(i)

OtherStep ==
    \/ MainStep \/ RequestStep \/ Elsewhere \/ WriteFails \/ UNCHANGED vars
    \/ \E i \in Ids : LifeGoes(i)

LEMMA Fates ==
    ASSUME TypeOK, RegistryInv, NewOnce, OtherStep \/ \E k \in Ids : LifeStart(k)
    PROVE  \A i \in Ids : Fate(i)
<1>1. CASE UNCHANGED vars
  BY <1>1 DEF vars, loopVars, taskVars, Fate, Same
<1>2. CASE \E k \in Ids : LifeGoes(k) \/ LifeStart(k)
  BY <1>2, FateInLife DEF LifeGoes, LifeStep
<1> QED
  BY <1>1, <1>2, FateInMain, FateInRequest, FateElsewhere, FateInFailure DEF OtherStep

LEMMA NewOnceKeeps ==
    ASSUME TypeOK, NewOnce,
           \A i \in Ids : \/ Fate(i)
                          \/ stage'[i] = stage[i] /\ stage[i] \notin {"absent", "new"}
    PROVE  NewOnce'
<1> SUFFICES ASSUME NEW i \in Ids
             PROVE  /\ stage'[i] = "new" => In(ready', Life(i)) /\ Once(ready', Life(i))
                    /\ stage'[i] = "absent" => ~In(ready', Life(i))
  BY DEF NewOnce
<1>1. CASE Same(i) /\ stage'[i] = stage[i]
  BY <1>1 DEF NewOnce, Same
<1>2. CASE stage'[i] \notin {"absent", "new"}
  BY <1>2
<1>3. CASE TimerFires(i)
  BY <1>3 DEF TimerFires, taskVars
<1>4. CASE stage[i] = "absent" /\ stage'[i] = "new" /\ ready' = Append(ready, Life(i))
  <2>1. ready \in Seq(Handles) /\ Life(i) \in Handles /\ ~In(ready, Life(i))
    BY <1>4 DEF TypeOK, Life, Handles, NewOnce
  <2>2. Once(ready, Life(i))
    BY <2>1 DEF In, Once
  <2> QED
    BY <1>4, <2>1, <2>2, AppendKeeps
<1> QED
  BY <1>1, <1>2, <1>3, <1>4 DEF Fate

-----------------------------------------------------------------------------
(* A countdown goes on from an earlier state, unless it is announced.      *)
GoesOn(i) == Counting(i)' => Counting(i) /\ script'[i] = script[i]

LEMMA CountingGoesOn ==
    ASSUME TypeOK, OtherStep \/ (\E k \in Ids : LifeBroadcastDone(k)), NEW i \in Ids
    PROVE  GoesOn(i)
<1> USE DEF GoesOn, Counting, taskVars
<1>1. CASE MainStep
  <2>1. CASE MainPark \/ MainDrop \/ MainAccept \/ MainQos \/ MainSkip \/ MainInfer
    BY <2>1 DEF MainPark, MainDrop, MainAccept, MainQos, MainSkip, MainInfer
  <2>2. CASE MainClear
    BY <2>2 DEF MainClear, Cancel
  <2>3. CASE MainSpawn
    <3>1. PICK k \in Ids, s \in Answers \cup {FallbackScript} :
             /\ stage[k] = "absent" /\ stage' = [stage EXCEPT ![k] = "new"]
             /\ script' = [script EXCEPT ![k] = s]
      BY <2>3 DEF MainSpawn
    <3>2. cancelled' = cancelled
      BY <2>3 DEF MainSpawn
    <3> QED
      BY <3>1, <3>2 DEF TypeOK
  <2> QED
    BY <1>1, <2>1, <2>2, <2>3 DEF MainStep
<1>2. CASE RequestStep
  BY <1>2 DEF RequestStep, RejectRequest, Calm, Configure, AuditApproval, AcceptVeto, ApproveEarly,
     AcceptApproval, Panic, Cancel
<1>3. ASSUME NEW k \in Ids, LifeGoes(k) PROVE GoesOn(i)
  <2>1. script' = script
    BY <1>3, LifeRuns DEF LifeGoes, LifeStep
  <2>2. CASE k # i
    <3>1. stage'[i] = stage[i] /\ (i \in cancelled => i \in cancelled')
      BY <1>3, <2>2 DEF LifeGoes, LifeStillborn, LifeAdvise, LifeLost, LifeSleep,
         LifeExpire, LifeComplete, LifeVetoed, LifeYielded, LifeCleared, Cleanup, Finish, TypeOK
    <3> QED
      BY <2>1, <3>1
  <2>3. CASE k = i
    <3>1. stage'[i] = "done" \/ (stage[i] \in {"announce", "sleep", "acting"} /\ i \notin cancelled)
      BY <1>3, <2>3 DEF LifeGoes, LifeStillborn, LifeAdvise, LifeLost, LifeSleep, LifeExpire,
         LifeComplete, LifeVetoed, LifeYielded, LifeCleared, Cleanup, Finish, TypeOK
    <3> QED
      BY <2>1, <3>1
  <2> QED
    BY <2>2, <2>3
<1>4. CASE Elsewhere \/ UNCHANGED vars \/ \E k \in Ids : LifeBroadcastDone(k)
  BY <1>4 DEF Elsewhere, Arrival, SlmReturns, MainBroadcastDone, TimerFires, LifeBroadcastDone,
     ApprovalBroadcastDone, Ingest, Ask, Dashboards, vars
<1>5. CASE WriteFails
  <2>1. ASSUME NEW k \in Ids, FirstWriteFails(k) \/ LaterWriteFails(k) PROVE GoesOn(i)
    <3>1. /\ stage' = [stage EXCEPT ![k] = "done"] /\ cancelled' = cancelled \ {k}
          /\ script' = script
      BY <2>1 DEF FirstWriteFails, LaterWriteFails, FinallyBlock, Cleanup, Finish
    <3> QED
      BY <3>1 DEF TypeOK
  <2>2. CASE \/ \E k \in Ids : ApprovalWriteFails(k)
             \/ \E z \in Zones : ActuationWriteFails(z)
             \/ QosWriteFails \/ InferenceWriteFails
             \/ \E mode \in BOOLEAN : ModeWriteFails(mode)
    BY <2>2 DEF ApprovalWriteFails, ActuationWriteFails, Cancel, QosWriteFails,
       InferenceWriteFails, ModeWriteFails
  <2> QED
    BY <1>5, <2>1, <2>2 DEF WriteFails
<1> QED
  BY <1>1, <1>2, <1>3, <1>4, <1>5 DEF OtherStep

-----------------------------------------------------------------------------
(* The invariant of the screens. *)

(* A task whose snapshot is on the way has been announced and waits for it,*)
(* or is no longer counting.                                               *)
Waits(i) == /\ stage[i] \notin {"absent", "new"}
            /\ Counting(i) => stage[i] = "announce" /\ ~In(ready, Life(i))

Shows(i) == \E state \in shown : state.scripts[ZoneOf(i)] = i

ScreenInv ==
    /\ OneEach(sending)
    /\ \A i \in Ids : Sent(sending, i) => Waits(i)
    /\ watched => \A i \in Ids : Counting(i) =>
         /\ OnScreen(sending, i, ZoneOf(i))
         /\ Sent(sending, i) \/ Shows(i)

LEMMA SendersAreSent == \A i : i \in Senders <=> Sent(sending, i)
  BY DEF Senders, Sent

LEMMA WaitsOn ==
    ASSUME TypeOK, NEW i \in Ids, Fate(i), GoesOn(i), Waits(i) PROVE Waits(i)'
<1>1. CASE Same(i) /\ stage'[i] = stage[i]
  BY <1>1 DEF Same, Waits, GoesOn
<1>2. CASE Running(Life(i)) /\ stage'[i] \notin {"absent", "new"}
  <2>1. ready \in Seq(Handles) /\ ready # <<>> /\ Head(ready) = Life(i)
    BY <1>2 DEF Running, TypeOK
  <2>2. 1 \in DOMAIN ready /\ ready[1] = Life(i)
    BY <2>1
  <2> QED
    BY <1>2, <2>2 DEF Waits, GoesOn, In
<1>3. CASE TimerFires(i)
  BY <1>3 DEF TimerFires, taskVars, Waits, GoesOn
<1>4. CASE i \in cancelled' /\ stage'[i] = stage[i]
  BY <1>4 DEF Waits, Counting
<1>5. CASE stage[i] = "absent"
  BY <1>5 DEF Waits
<1> QED
  BY <1>1, <1>2, <1>3, <1>4, <1>5 DEF Fate

(* Steps that show nothing and start nothing. *)
LEMMA QuietKeeps ==
    ASSUME TypeOK, ScreenInv, UNCHANGED <<watched, shown, sending>>,
           \A i \in Ids : GoesOn(i) /\ (Fate(i) \/ ~Sent(sending, i))
    PROVE  ScreenInv'
<1>1. \A i \in Ids : Sent(sending, i) => Waits(i)'
  BY WaitsOn DEF ScreenInv
<1> QED
  BY <1>1 DEF ScreenInv, GoesOn, Shows, ZoneOf

LEMMA BroadcastKeeps == ASSUME RegistryInv', Broadcast PROVE ScreenInv'
<1>1. sending' = <<>> /\ (watched' => shown' = {Display'})
  BY DEF Broadcast
<1>2. \A i : ~Sent(<<>>, i) /\ \A z : OnScreen(<<>>, i, z)
  BY DEF Sent, OnScreen
<1>3. OneEach(<<>>)
  BY DEF OneEach
<1>4. ASSUME NEW i \in Ids, Counting(i)', watched' PROVE Shows(i)'
  <2>1. scripts'[ZoneOf(i)'] = i
    BY <1>4 DEF RegistryInv, PendingRegistered, Pending, Counting
  <2>2. Display'.scripts = scripts'
    BY DEF Display
  <2> QED
    BY <1>1, <1>4, <2>1, <2>2 DEF Shows
<1> QED
  BY <1>1, <1>2, <1>3, <1>4 DEF ScreenInv

LEMMA ArrivedSnapshots ==
    ASSUME sending \in Seq([by : Ids, state : Displays]), OneEach(sending),
           NEW n \in DOMAIN sending, sending' = Later(n)
    PROVE  /\ \A i : Sent(sending', i) => Sent(sending, i)
           /\ OneEach(sending') /\ ~Sent(sending', sending[n].by)
           /\ \A i, z : OnScreen(sending, i, z) =>
                /\ OnScreen(sending', i, z)
                /\ Sent(sending', i) \/ sending[n].state.scripts[z] = i
<1>1. PICK s, t, length, k : s = sending /\ t = sending' /\ length = Len(s) /\ k = n
  OBVIOUS
<1>2. /\ length \in Nat /\ DOMAIN s = 1..length /\ k \in 1..length
      /\ DOMAIN t = 1..(length - k) /\ \A m \in 1..(length - k) : t[m] = s[m + k]
  BY <1>1 DEF Later
<1>3. (\A i : Sent(t, i) => Sent(s, i)) /\ (OneEach(s) => OneEach(t) /\ ~Sent(t, s[k].by))
  BY <1>2, LaterKeeps
<1>4. ASSUME NEW i, NEW z, OnScreen(s, i, z)
      PROVE  OnScreen(t, i, z) /\ (Sent(t, i) \/ s[k].state.scripts[z] = i)
  BY ONLY <1>2, <1>4, LaterShows
<1> QED
  BY <1>1, <1>3, <1>4

LEMMA WithdrawnSnapshot ==
    ASSUME sending \in Seq([by : Ids, state : Displays]), OneEach(sending),
           NEW n \in DOMAIN sending, sending' = SubSeq(sending, 1, n - 1) \o Later(n)
    PROVE  /\ \A i : Sent(sending', i) => Sent(sending, i)
           /\ \A i : i # sending[n].by /\ Sent(sending, i) => Sent(sending', i)
           /\ OneEach(sending')
           /\ \A i, z : i # sending[n].by /\ OnScreen(sending, i, z) => OnScreen(sending', i, z)
<1>1. PICK s, t, length : s = sending /\ t = sending' /\ length = Len(s)
  OBVIOUS
<1>2. length \in Nat /\ DOMAIN s = 1..length /\ n \in 1..length
  BY <1>1
<1>3. PICK S : S = [by : Ids, state : Displays]
  OBVIOUS
<1>4. s \in Seq(S) /\ n \in DOMAIN s /\ t = SubSeq(s, 1, n - 1) \o SubSeq(s, n + 1, Len(s))
  BY <1>1, <1>3 DEF Later
<1>5. /\ DOMAIN t = 1..(length - 1)
      /\ \A m \in 1..(n - 1) : t[m] = s[m]
      /\ \A m \in n..(length - 1) : t[m] = s[m + 1]
  BY <1>1, <1>4, WithoutOne
<1>6. /\ \A i : Sent(t, i) => Sent(s, i)
      /\ \A i : i # s[n].by /\ Sent(s, i) => Sent(t, i)
      /\ OneEach(s) => OneEach(t)
      /\ \A i, z : i # s[n].by /\ OnScreen(s, i, z) => OnScreen(t, i, z)
  BY <1>2, <1>5, RemovalKeeps
<1> QED
  BY <1>1, <1>6

(* A snapshot arrives; the task that took it may go on. *)
LEMMA ArrivalKeeps ==
    ASSUME ServiceTypeOK, ScreenInv, NEW n \in DOMAIN sending, Arrives(n), watched' = watched,
           \A i \in Ids : GoesOn(i) /\ (Fate(i) \/ i = sending[n].by)
    PROVE  ScreenInv'
<1>1. TypeOK /\ sending \in Seq([by : Ids, state : Displays]) /\ OneEach(sending)
  BY DEF ServiceTypeOK, ScreenInv
<1>2. sending' = SubSeq(sending, n + 1, Len(sending)) /\ shown' = {sending[n].state}
  BY DEF Arrives, Later
<1>3. /\ \A i : Sent(sending', i) => Sent(sending, i)
      /\ OneEach(sending') /\ ~Sent(sending', sending[n].by)
      /\ \A i, z : OnScreen(sending, i, z) =>
           /\ OnScreen(sending', i, z)
           /\ Sent(sending', i) \/ sending[n].state.scripts[z] = i
  BY <1>1, ArrivedSnapshots DEF Arrives
<1>4. \A i \in Ids : Sent(sending', i) => Waits(i)'
  BY <1>1, <1>3, WaitsOn DEF ScreenInv
<1>5. ASSUME watched', NEW i \in Ids, Counting(i)'
      PROVE  OnScreen(sending', i, ZoneOf(i)') /\ (Sent(sending', i) \/ Shows(i)')
  <2>1. Counting(i) /\ ZoneOf(i)' = ZoneOf(i)
    BY <1>5 DEF GoesOn, ZoneOf
  <2>2. OnScreen(sending, i, ZoneOf(i))
    BY <1>5, <2>1 DEF ScreenInv
  <2>3. OnScreen(sending', i, ZoneOf(i))
        /\ (Sent(sending', i) \/ sending[n].state.scripts[ZoneOf(i)] = i)
    BY <1>3, <2>2
  <2> QED
    BY <1>2, <2>1, <2>3 DEF Shows
<1> QED
  BY <1>3, <1>4, <1>5 DEF ScreenInv

(* A snapshot is withdrawn with the task that took it. *)
LEMMA RemovalStep ==
    ASSUME ServiceTypeOK, ScreenInv, NEW n \in DOMAIN sending, UNCHANGED <<watched, shown>>,
           sending' = SubSeq(sending, 1, n - 1) \o Later(n),
           \A i \in Ids : Fate(i) /\ GoesOn(i),
           NEW k, k = sending[n].by, ~Counting(k)'
    PROVE  ScreenInv'
<1>1. TypeOK /\ sending \in Seq([by : Ids, state : Displays]) /\ OneEach(sending)
  BY DEF ServiceTypeOK, ScreenInv
<1>2. sending' = SubSeq(sending, 1, n - 1) \o SubSeq(sending, n + 1, Len(sending))
  BY DEF Later
<1>3. /\ \A i : Sent(sending', i) => Sent(sending, i)
      /\ \A i : i # sending[n].by /\ Sent(sending, i) => Sent(sending', i)
      /\ OneEach(sending')
      /\ \A i, z : i # sending[n].by /\ OnScreen(sending, i, z) => OnScreen(sending', i, z)
  BY <1>1, WithdrawnSnapshot
<1>4. \A i \in Ids : Sent(sending', i) => Waits(i)'
  BY <1>1, <1>3, WaitsOn DEF ScreenInv
<1>5. ASSUME watched', NEW i \in Ids, Counting(i)'
      PROVE  OnScreen(sending', i, ZoneOf(i)') /\ (Sent(sending', i) \/ Shows(i)')
  <2>1. Counting(i) /\ ZoneOf(i)' = ZoneOf(i) /\ i # sending[n].by
    BY <1>5 DEF GoesOn, ZoneOf
  <2>2. OnScreen(sending, i, ZoneOf(i)) /\ (Sent(sending, i) \/ Shows(i))
    BY <1>5, <2>1 DEF ScreenInv
  <2> QED
    BY <1>3, <2>1, <2>2 DEF Shows
<1> QED
  BY <1>3, <1>4, <1>5 DEF ScreenInv

(* A task takes a snapshot as it starts: the state, with every countdown. *)
LEMMA TakeKeeps ==
    ASSUME ServiceTypeOK, ServiceTypeOK', RegistryInv', NewOnce, ScreenInv,
           NEW k \in Ids, LifeStart(k) \/ LifeAdvise(k), TaskBroadcast(k),
           \A i \in Ids : Fate(i)
    PROVE  ScreenInv'
<1>1. /\ TypeOK /\ sending \in Seq([by : Ids, state : Displays]) /\ OneEach(sending)
      /\ \A i \in Ids : Sent(sending, i) => Waits(i)
  BY DEF ServiceTypeOK, ScreenInv
<1>2. PICK e : e = [by |-> k, state |-> Display']
  OBVIOUS
<1>3. e \in [by : Ids, state : Displays] /\ e.by = k /\ e.state.scripts = scripts'
  BY <1>2 DEF Display, Displays, ServiceTypeOK, TypeOK, LinkTypeOK
<1>4. /\ Running(Life(k)) /\ stage[k] = "new" /\ script' = script /\ watched' = watched
      /\ ready' = AfterBroadcast \/ ready' = Tail(ready)
      /\ stage' = [stage EXCEPT ![k] = "announce"] \/ stage' = [stage EXCEPT ![k] = "done"]
      /\ \A i \in Ids : i # k /\ i \in cancelled => i \in cancelled'
  BY DEF LifeStart, LifeAdvise, FirstStep, Finish
<1>5. ~Sent(sending, k)
  BY <1>1, <1>4 DEF Waits
<1>6. \A i \in Ids : i # k => GoesOn(i)
  BY <1>1, <1>4 DEF GoesOn, Counting, TypeOK
<1>7. \A i \in Ids : i # k /\ Sent(sending, i) => Waits(i)'
  BY <1>1, <1>6, WaitsOn
<1>8. CASE ~watched
  <2>1. sending' = <<>>
    BY <1>4, <1>8 DEF TaskBroadcast, Sends
  <2> QED
    BY <1>4, <1>8, <2>1 DEF ScreenInv, OneEach, Sent
<1>9. CASE watched
  <2>1. sending' = Append(sending, e) /\ shown' = shown
    BY <1>2, <1>4, <1>9 DEF TaskBroadcast, Sends
  <2>2. PICK s, t : s = sending /\ t = sending' /\ t = Append(s, e)
    BY <2>1
  <2>3. /\ \A i : Sent(t, i) <=> Sent(s, i) \/ i = k
        /\ OneEach(s) /\ ~Sent(s, k) => OneEach(t)
        /\ \A i, z : scripts'[z] = i /\ (OnScreen(s, i, z) \/ i = k) => OnScreen(t, i, z)
    <3>1. PICK S : S = [by : Ids, state : Displays]
      OBVIOUS
    <3>2. s \in Seq(S) /\ e \in S /\ t = Append(s, e)
      BY <1>1, <1>3, <2>2, <3>1
    <3>3. /\ \A i : Sent(t, i) <=> Sent(s, i) \/ i = e.by
          /\ OneEach(s) /\ ~Sent(s, e.by) => OneEach(t)
          /\ \A i, z : e.state.scripts[z] = i /\ (OnScreen(s, i, z) \/ i = e.by)
                         => OnScreen(t, i, z)
      BY <3>2, AppendShows
    <3> QED
      BY ONLY <1>3, <3>3
  <2>4. Waits(k)'
    <3>1. ready \in Seq(Handles) /\ ready # <<>> /\ Head(ready) = Life(k)
      BY <1>1, <1>4 DEF Running, TypeOK
    <3>2. ready' = Tail(ready)
      BY <1>4, <1>9 DEF AfterBroadcast
    <3>3. Once(ready, Life(k))
      BY <1>4 DEF NewOnce
    <3>4. ~In(Tail(ready), Life(k))
      <4>1. /\ 1 \in DOMAIN ready /\ ready[1] = Life(k)
            /\ \A n \in DOMAIN Tail(ready) :
                 n + 1 \in DOMAIN ready /\ Tail(ready)[n] = ready[n + 1] /\ n + 1 # 1
        BY <3>1
      <4> QED
        BY <3>3, <4>1 DEF In, Once
    <3>5. stage'[k] = "announce" \/ stage'[k] = "done"
      BY <1>1, <1>4 DEF TypeOK
    <3> QED
      BY <3>2, <3>4, <3>5 DEF Waits, Counting
  <2>5. \A i \in Ids : Sent(sending', i) => Waits(i)'
    BY <1>7, <2>2, <2>3, <2>4
  <2>6. ASSUME NEW i \in Ids, Counting(i)'
        PROVE  OnScreen(sending', i, ZoneOf(i)') /\ (Sent(sending', i) \/ Shows(i)')
    <3>1. scripts'[ZoneOf(i)'] = i
      BY <2>6 DEF RegistryInv, PendingRegistered, Pending, Counting
    <3>2. CASE i = k
      BY <2>2, <2>3, <3>1, <3>2
    <3>3. CASE i # k
      <4>1. Counting(i) /\ ZoneOf(i)' = ZoneOf(i)
        BY <1>6, <2>6, <3>3 DEF GoesOn, ZoneOf
      <4>2. OnScreen(sending, i, ZoneOf(i)) /\ (Sent(sending, i) \/ Shows(i))
        BY <1>9, <4>1 DEF ScreenInv
      <4>3. OnScreen(sending', i, ZoneOf(i)')
        BY <2>2, <2>3, <3>1, <4>1, <4>2
      <4>4. Sent(sending', i) \/ Shows(i)'
        BY <2>1, <2>2, <2>3, <4>1, <4>2 DEF Shows
      <4> QED
        BY <4>3, <4>4
    <3> QED
      BY <3>2, <3>3
  <2>7. OneEach(sending')
    BY <1>1, <1>5, <2>2, <2>3
  <2> QED
    BY <2>5, <2>6, <2>7 DEF ScreenInv
<1> QED
  BY <1>8, <1>9

-----------------------------------------------------------------------------
(* The steps of the service, sorted by what they do to the screens. *)
Showing == SwitchQos \/ ShowingStep \/ RunBroadcast \/ DashboardJoins
           \/ \E i \in Ids : LaterWriteFails(i)

Withdrawing == Clear \/ \E z \in Zones : ActuationWriteFails(z)

Quiet == TestClient \/ KeepQos \/ Propose \/ QuietStep \/ MqttThread
         \/ QosWriteFails \/ InferenceWriteFails
         \/ (\E i \in Ids : FirstWriteFails(i) \/ ApprovalWriteFails(i))
         \/ (\E mode \in BOOLEAN : ModeWriteFails(mode))
         \/ UNCHANGED serviceAll

LEMMA SortedSteps ==
    ASSUME [ServiceNext]_serviceAll
    PROVE  \/ Showing \/ Withdrawing \/ Quiet \/ LastDashboardLeaves \/ Outside
           \/ \E i \in Ids : Announce(i) \/ Advise(i)
           \/ \E n \in DOMAIN sending : Delivered(n)
  BY DEF ServiceNext, WriteFails, Showing, Withdrawing, Quiet

LEMMA OthersOnScreen ==
    ASSUME Showing \/ Withdrawing \/ Quiet \/ LastDashboardLeaves PROVE OtherStep
<1> USE DEF OtherStep, MainStep, RequestStep, LifeGoes, Elsewhere, Arrival
<1>1. CASE SwitchQos \/ KeepQos \/ Propose \/ Clear
  BY <1>1 DEF SwitchQos, KeepQos, Propose, Clear
<1>2. CASE ShowingStep
  BY <1>2 DEF ShowingStep
<1>3. CASE QuietStep
  BY <1>3 DEF QuietStep
<1>4. CASE TestClient \/ RunBroadcast \/ MqttThread \/ UNCHANGED serviceAll
  BY <1>4 DEF TestClient, RunBroadcast, MqttThread, serviceAll
<1>5. CASE DashboardJoins \/ LastDashboardLeaves
  BY <1>5 DEF DashboardJoins, LastDashboardLeaves
<1>6. CASE \/ (\E i \in Ids : LaterWriteFails(i) \/ FirstWriteFails(i) \/ ApprovalWriteFails(i))
           \/ (\E z \in Zones : ActuationWriteFails(z))
           \/ QosWriteFails \/ InferenceWriteFails
           \/ (\E mode \in BOOLEAN : ModeWriteFails(mode))
  BY <1>6 DEF WriteFails
<1> QED
  BY <1>1, <1>2, <1>3, <1>4, <1>5, <1>6 DEF Showing, Withdrawing, Quiet

LEMMA QuietScreens ==
    ASSUME Quiet PROVE UNCHANGED <<watched, shown, sending>>
<1> USE DEF Silent, shownVars, Loses, Excuses, loopVars
<1>1. CASE TestClient \/ MqttThread \/ UNCHANGED serviceAll
  BY <1>1 DEF TestClient, MqttThread, serviceAll, serviceVars, vars
<1>2. CASE KeepQos \/ Propose
  BY <1>2 DEF KeepQos, MainQos, Propose, MainSpawn
<1>3. CASE QuietStep
  BY <1>3 DEF QuietStep, MainPark, MainDrop, MainSkip, MainInfer, RejectRequest, LifeStillborn,
     LifeLost, LifeSleep
<1>4. CASE QosWriteFails \/ InferenceWriteFails
  BY <1>4 DEF QosWriteFails, InferenceWriteFails
<1>5. CASE \/ (\E i \in Ids : FirstWriteFails(i) \/ ApprovalWriteFails(i))
           \/ (\E mode \in BOOLEAN : ModeWriteFails(mode))
  BY <1>5 DEF FirstWriteFails, ApprovalWriteFails, ModeWriteFails
<1> QED
  BY <1>1, <1>2, <1>3, <1>4, <1>5 DEF Quiet

(* A task withdrawn while its snapshot is on the way. *)
LEMMA WithdrawingKeeps ==
    ASSUME ServiceTypeOK, ScreenInv, Withdrawing, \A i \in Ids : Fate(i) /\ GoesOn(i)
    PROVE  ScreenInv'
<1>1. PICK z \in Zones, otherwise \in BOOLEAN :
         /\ Withdraws(TaskOf(z), otherwise) /\ (otherwise => UNCHANGED <<shown, sending>>)
         /\ watched' = watched /\ stage' = stage /\ cancelled' = cancelled \cup Live(TaskOf(z))
  <2>1. CASE Clear
    <3>1. main.zone \in Zones
      BY <2>1 DEF Clear, MainClear, ServiceTypeOK, TypeOK
    <3>2. Silent \in BOOLEAN /\ (Silent => UNCHANGED <<shown, sending>>)
      BY DEF Silent, shownVars
    <3> QED
      BY <2>1, <3>1, <3>2 DEF Clear, MainClear, Cancel
  <2>2. ASSUME NEW z \in Zones, ActuationWriteFails(z)
        PROVE  /\ Withdraws(TaskOf(z), Excuses) /\ watched' = watched /\ stage' = stage
               /\ cancelled' = cancelled \cup Live(TaskOf(z))
    BY <2>2 DEF ActuationWriteFails, Cancel
  <2>3. Excuses \in BOOLEAN /\ (Excuses => UNCHANGED <<shown, sending>>)
    BY DEF Excuses
  <2> QED
    BY <2>1, <2>2, <2>3 DEF Withdrawing
<1>2. TypeOK
  BY DEF ServiceTypeOK
<1>3. CASE UNCHANGED <<shown, sending>>
  BY <1>1, <1>2, <1>3, QuietKeeps
<1>4. ASSUME NEW n \in DOMAIN sending, sending[n].by \in TaskOf(z), CutShort(n) PROVE ScreenInv'
  <2>1. CASE Arrives(n)
    BY <1>1, <2>1, ArrivalKeeps
  <2>2. CASE UNCHANGED shown /\ sending' = SubSeq(sending, 1, n - 1) \o Later(n)
    <3>1. PICK k : k = sending[n].by
      OBVIOUS
    <3>2. ~Counting(k)'
      BY <1>1, <1>4, <3>1 DEF Live, Counting
    <3> QED
      BY <1>1, <2>2, <3>1, <3>2, RemovalStep
  <2> QED
    BY <1>4, <2>1, <2>2 DEF CutShort
<1> QED
  BY <1>1, <1>3, <1>4 DEF Withdraws

(* What happens outside the coroutines: no snapshot arrives. *)
LEMMA OutsideKeeps ==
    ASSUME TypeOK, RegistryInv, NewOnce, ScreenInv, Outside PROVE ScreenInv' /\ NewOnce'
<1>1. UNCHANGED <<watched, shown, sending>>
  BY DEF Outside, Silent, shownVars, Ingest, Ask, SlmReturns, MainBroadcastDone, TimerFires,
     ApprovalBroadcastDone, LifeBroadcastDone
<1>2. CASE Elsewhere
  <2>1. \A i \in Ids : Fate(i)
    BY <1>2, FateElsewhere
  <2>2. \A i \in Ids : GoesOn(i)
    BY <1>2, CountingGoesOn DEF OtherStep
  <2> QED
    BY <1>1, <2>1, <2>2, QuietKeeps, NewOnceKeeps
<1>3. ASSUME NEW k \in Ids, LifeBroadcastDone(k), k \notin Senders PROVE ScreenInv' /\ NewOnce'
  <2>1. /\ \A i \in Ids : i # k => Fate(i)
        /\ stage' = stage /\ stage[k] \notin {"absent", "new"}
    BY <1>3, FateOfAnnounced
  <2>2. \A i \in Ids : GoesOn(i)
    BY <1>3, CountingGoesOn
  <2>3. ~Sent(sending, k)
    BY <1>3, SendersAreSent
  <2> QED
    BY <1>1, <2>1, <2>2, <2>3, QuietKeeps, NewOnceKeeps
<1> QED
  BY <1>2, <1>3 DEF Outside, Elsewhere, Arrival

LEMMA DeliveryKeeps ==
    ASSUME ServiceTypeOK, NewOnce, ScreenInv, NEW n \in DOMAIN sending, Delivered(n)
    PROVE  ScreenInv' /\ NewOnce'
<1>1. PICK k \in Ids : k = sending[n].by
  BY SendingType
<1>2. TypeOK /\ Arrives(n) /\ (UNCHANGED vars \/ LifeBroadcastDone(k))
  BY <1>1 DEF ServiceTypeOK, Delivered
<1>3. watched' = watched
  BY <1>2 DEF vars, loopVars, LifeBroadcastDone
<1>4. \A i \in Ids : GoesOn(i)
  BY <1>2, CountingGoesOn DEF OtherStep
<1>5. CASE UNCHANGED vars
  <2>1. \A i \in Ids : Fate(i)
    BY <1>5 DEF vars, loopVars, taskVars, Fate, Same
  <2> QED
    BY <1>2, <1>3, <1>4, <2>1, ArrivalKeeps, NewOnceKeeps
<1>6. CASE LifeBroadcastDone(k)
  <2>1. /\ \A i \in Ids : i # k => Fate(i)
        /\ stage' = stage /\ stage[k] \notin {"absent", "new"}
    BY <1>2, <1>6, FateOfAnnounced
  <2>2. NewOnce'
    BY <1>2, <2>1, NewOnceKeeps
  <2>3. \A i \in Ids : GoesOn(i) /\ (Fate(i) \/ i = sending[n].by)
    BY <1>1, <1>4, <2>1
  <2> QED
    BY <1>2, <1>3, <2>2, <2>3, ArrivalKeeps
<1> QED
  BY <1>2, <1>5, <1>6

LEMMA ScreenStep ==
    ASSUME ServiceTypeOK, ServiceTypeOK', RegistryInv, RegistryInv', NewOnce, ScreenInv,
           [ServiceNext]_serviceAll
    PROVE  ScreenInv' /\ NewOnce'
<1>a. TypeOK
  BY DEF ServiceTypeOK
<1>1. ASSUME Showing \/ Withdrawing \/ Quiet \/ LastDashboardLeaves
      PROVE  (\A i \in Ids : Fate(i) /\ GoesOn(i)) /\ NewOnce'
  <2>1. OtherStep
    BY <1>1, OthersOnScreen
  <2>2. \A i \in Ids : Fate(i)
    BY <1>a, <2>1, Fates
  <2>3. \A i \in Ids : GoesOn(i)
    BY <1>a, <2>1, CountingGoesOn
  <2> QED
    BY <1>a, <2>2, <2>3, NewOnceKeeps
<1>2. CASE Showing
  <2>1. Broadcast
    BY <1>2 DEF Showing, SwitchQos, ShowingStep, RunBroadcast, DashboardJoins, LaterWriteFails
  <2> QED
    BY <1>1, <1>2, <2>1, BroadcastKeeps
<1>3. CASE Withdrawing
  BY <1>1, <1>3, WithdrawingKeeps
<1>4. CASE Quiet
  BY <1>a, <1>1, <1>4, QuietScreens, QuietKeeps
<1>5. CASE LastDashboardLeaves
  <2>1. sending' = <<>> /\ ~watched'
    BY <1>5, <1>a DEF LastDashboardLeaves, Dashboards, TypeOK
  <2>2. ScreenInv'
    BY <2>1 DEF ScreenInv, OneEach, Sent
  <2> QED
    BY <1>1, <1>5, <2>2
<1>6. ASSUME NEW k \in Ids, Announce(k) \/ Advise(k) PROVE ScreenInv' /\ NewOnce'
  <2>1. (LifeStart(k) \/ LifeAdvise(k)) /\ TaskBroadcast(k)
    BY <1>6 DEF Announce, Advise
  <2>2. \A i \in Ids : Fate(i)
    BY <1>a, <2>1, Fates DEF OtherStep, LifeGoes
  <2> QED
    BY <1>a, <2>1, <2>2, TakeKeeps, NewOnceKeeps
<1>7. CASE Outside
  BY <1>a, <1>7, OutsideKeeps
<1>8. ASSUME NEW n \in DOMAIN sending, Delivered(n) PROVE ScreenInv' /\ NewOnce'
  BY <1>8, DeliveryKeeps
<1> QED
  BY <1>2, <1>3, <1>4, <1>5, <1>6, <1>7, <1>8, SortedSteps

LEMMA ScreenStarts == ServiceInit => ScreenInv /\ NewOnce
  BY DEF ServiceInit, Init, ScreenInv, NewOnce, OneEach, Sent, In

(* No countdown runs out that a connected dashboard does not show, whenever*)
(* it connected, however the snapshots of other zones interleave, are sent *)
(* late or are withdrawn, and whichever audit write fails.                 *)
THEOREM CountdownsAreOnScreen == Foreign = {} /\ ServiceSafety => []CountdownIsOnScreen
<1>1. ServiceTypeOK /\ RegistryInv /\ ScreenInv /\ NewOnce => CountdownIsOnScreen
  <2> SUFFICES ASSUME ScreenInv, NEW i \in Ids, watched, stage[i] = "sleep", i \notin cancelled
               PROVE  Shows(i)
    BY DEF CountdownIsOnScreen, Shows, ZoneOf
  <2>1. Counting(i)
    BY DEF Counting
  <2> QED
    BY <2>1 DEF ScreenInv, Waits
<1>2. ScreenInv /\ NewOnce /\ ServiceTypeOK /\ ServiceTypeOK' /\ RegistryInv /\ RegistryInv'
        /\ [ServiceNext]_serviceAll => ScreenInv' /\ NewOnce'
  BY ScreenStep
<1> QED
  BY <1>1, <1>2, ScreenStarts, ServiceTypeCorrect, ServiceRegistry, PTL
  DEF ServiceSafety, serviceAll

-----------------------------------------------------------------------------
(* What the dashboards are left with, and what it may still lack of the    *)
(* state: how the link stands, if a callback is about to have it told, and *)
(* the inference status, if the task proposed with it is about to start.   *)
Latest == IF sending = <<>> THEN shown ELSE {sending[Len(sending)].state}

Announced == main.at = "get" /\ \E i \in Ids : stage[i] = "new" /\ i \notin cancelled

LinkTold(d) == d.connected = connected \/ tells > 0 \/ handler # <<>>
LlmTold(d) == d.llm = llm \/ Announced

Tells(d) ==
    /\ d.panic = panic /\ d.density = density /\ d.qos = qos /\ d.limit = limit
    /\ d.scripts = scripts
    /\ LinkTold(d) /\ LlmTold(d)

CurrentInv == watched /\ ~excused => \E d \in Latest : Latest = {d} /\ Tells(d)

LEMMA DisplayTells == Tells(Display)' /\ Tells(Display)
  BY DEF Tells, LinkTold, LlmTold, Display

(* Steps that change nothing of the state shown but these two.             *)
LEMMA CurrentFrame ==
    ASSUME CurrentInv, Latest' = Latest, UNCHANGED <<watched, excused>>,
           UNCHANGED <<panic, density, qos, limit, scripts>>,
           UNCHANGED <<connected, tells, handler>> \/ tells' > 0 \/ handler' # <<>>,
           (UNCHANGED llm /\ (Announced => Announced')) \/ Announced'
    PROVE  CurrentInv'
<1> SUFFICES ASSUME watched', ~excused' PROVE \E d \in Latest' : Latest' = {d} /\ Tells(d)'
  BY DEF CurrentInv
<1>1. PICK d \in Latest : Latest = {d} /\ Tells(d)
  BY DEF CurrentInv
<1>2. LinkTold(d)' /\ LlmTold(d)'
  BY <1>1 DEF Tells, LinkTold, LlmTold
<1>3. Tells(d)'
  BY <1>1, <1>2 DEF Tells
<1> QED
  BY <1>1, <1>3

LEMMA CurrentBroadcast == ASSUME Broadcast PROVE CurrentInv'
<1> SUFFICES ASSUME watched' PROVE \E d \in Latest' : Latest' = {d} /\ Tells(d)'
  BY DEF CurrentInv
<1>1. Latest' = {Display'}
  BY DEF Broadcast, Latest
<1>2. Tells(Display)'
  BY DisplayTells
<1> QED
  BY <1>1, <1>2

LEMMA CurrentTaken ==
    ASSUME ServiceTypeOK, NEW k \in Ids, TaskBroadcast(k) PROVE CurrentInv'
<1> SUFFICES ASSUME watched' PROVE \E d \in Latest' : Latest' = {d} /\ Tells(d)'
  BY DEF CurrentInv
<1>1. PICK s, t, e : /\ s = sending /\ t = sending' /\ e = [by |-> k, state |-> Display']
                     /\ t = Append(s, e)
  BY DEF TaskBroadcast, Sends
<1>2. sending \in Seq([by : Ids, state : Displays])
  BY DEF ServiceTypeOK
<1>3. PICK S : s \in Seq(S)
  BY <1>1, <1>2
<1>4. t # <<>> /\ t[Len(t)] = e
  BY <1>1, <1>3
<1>5. e.state = Display'
  BY <1>1
<1>6. Latest' = {Display'}
  BY <1>1, <1>4, <1>5 DEF Latest
<1>7. Tells(Display)'
  BY DisplayTells
<1> QED
  BY <1>6, <1>7

LEMMA LatestArrives ==
    ASSUME ServiceTypeOK, NEW n \in DOMAIN sending, Arrives(n) PROVE Latest' = Latest
<1>1. PICK s, t, k, S : /\ s = sending /\ t = sending' /\ k = n /\ s \in Seq(S)
                        /\ t = SubSeq(s, k + 1, Len(s))
  BY DEF Arrives, Later, ServiceTypeOK
<1>2. k \in 1..Len(s) /\ Len(s) \in Nat
  BY <1>1
<1>3. CASE k = Len(s)
  <2>1. t = <<>> /\ s # <<>>
    BY <1>1, <1>2, <1>3
  <2>2. shown' = {s[Len(s)].state}
    BY <1>1, <1>3 DEF Arrives
  <2> QED
    BY <1>1, <2>1, <2>2 DEF Latest
<1>4. CASE k # Len(s)
  <2>1. t # <<>> /\ s # <<>> /\ t[Len(t)] = s[Len(s)]
    <3>1. Len(t) = Len(s) - k /\ \A m \in 1..(Len(s) - k) : t[m] = s[m + k]
      BY <1>1, <1>2
    <3>2. Len(s) - k \in 1..(Len(s) - k) /\ (Len(s) - k) + k = Len(s)
      BY <1>2, <1>4
    <3>3. t[Len(t)] = s[Len(s)] /\ Len(t) # 0
      BY ONLY <1>2, <1>4, <3>1, <3>2
    <3> QED
      BY <1>1, <1>2, <3>3
  <2> QED
    BY <1>1, <2>1 DEF Latest
<1> QED
  BY <1>3, <1>4

(* The callbacks that change the flag have it told before they end.        *)
LEMMA CurrentLink ==
    ASSUME ServiceTypeOK, LinkInv, CurrentInv, MqttThread PROVE CurrentInv'
<1>1. UNCHANGED <<vars, llm, shownVars>>
  BY DEF MqttThread
<1>2. UNCHANGED <<connected, tells, handler>> \/ tells' > 0 \/ handler' # <<>>
  <2>1. CASE Accepted \/ Refused \/ Noticed
    BY <2>1 DEF Accepted, Refused, Noticed, OnConnect, OnRefused, OnDisconnect
  <2>2. CASE Drop
    BY <2>2 DEF Drop
  <2>3. CASE Callback
    <3>1. CASE ScheduleBroadcast
      BY <3>1 DEF ScheduleBroadcast, ServiceTypeOK, LinkTypeOK
    <3>2. CASE ~ScheduleBroadcast
      <4>1. PICK statement : Executes(statement) /\ statement # "tell"
        BY <2>3, <3>2 DEF Callback, SetConnected, SetClient, SubscribeAll, SubscribeVeto
      <4>2. handler # <<>> /\ Head(handler) # "tell" /\ handler' = Tail(handler)
        BY <4>1 DEF Executes
      <4>3. handler \in Connecting \cup Disconnecting
        BY <4>2, Positions DEF LinkInv
      <4>4. handler' \in {Connect2, Connect3, Connect4, Disconnect2, Last}
        BY <4>2, <4>3, Positions DEF Connecting, Disconnecting
      <4> QED
        BY <4>4, PositionsDiffer DEF Connecting, Disconnecting
    <3> QED
      BY <3>1, <3>2
  <2> QED
    BY <2>1, <2>2, <2>3 DEF MqttThread, LinkStep
<1> QED
  BY <1>1, <1>2, CurrentFrame
  DEF vars, loopVars, crowdVars, modeVars, safetyVars, taskVars, shownVars, Latest, Announced

LEMMA CurrentQuiet ==
    ASSUME ServiceTypeOK, RegistryInv, LinkInv, CurrentInv, Quiet PROVE CurrentInv'
<1> USE DEF Announced, Silent, shownVars, OffLink, linkVars
<1>1. UNCHANGED <<watched, shown, sending>> /\ Latest' = Latest
  BY QuietScreens DEF Latest
<1>2. CASE MqttThread
  BY <1>2, CurrentLink
<1>3. CASE excused'
  BY <1>3 DEF CurrentInv
<1>4. CASE TestClient \/ UNCHANGED serviceAll
  BY <1>1, <1>4, CurrentFrame
  DEF TestClient, serviceAll, serviceVars, vars, crowdVars, modeVars, safetyVars, taskVars
<1>5. CASE KeepQos
  <2>1. UNCHANGED <<panic, density, limit, scripts, connected, tells, handler, llm, excused>>
        /\ qos' = qos /\ main.at = "qos"
    BY <1>5 DEF KeepQos, MainQos, Switches, modeVars, safetyVars
  <2> QED
    BY <1>1, <2>1, CurrentFrame
<1>6. CASE Propose
  <2>1. UNCHANGED <<panic, density, qos, limit, scripts, connected, tells, handler, excused>>
    BY <1>6 DEF Propose, MainSpawn, crowdVars, modeVars
  <2>2. Announced'
    <3>1. PICK i \in Ids : stage[i] = "absent" /\ stage' = [stage EXCEPT ![i] = "new"]
      BY <1>6 DEF Propose, MainSpawn
    <3>2. main'.at = "get" /\ cancelled' = cancelled
      BY <1>6 DEF Propose, MainSpawn, MainGetsNext
    <3>3. stage'[i] = "new" /\ i \notin cancelled'
      <4>1. i \notin cancelled
        BY <3>1 DEF RegistryInv, WithdrawnReady
      <4> QED
        BY <3>1, <3>2, <4>1 DEF ServiceTypeOK, TypeOK
    <3> QED
      BY <3>2, <3>3
  <2> QED
    BY <1>1, <2>1, <2>2, CurrentFrame
<1>7. CASE QuietStep
  <2>1. UNCHANGED <<panic, density, qos, limit, scripts, connected, tells, handler, llm, excused>>
    BY <1>7 DEF QuietStep, MainPark, MainDrop, MainSkip, MainInfer, RejectRequest, LifeStillborn,
       LifeLost, LifeSleep, crowdVars, modeVars, safetyVars
  <2>2. Announced => Announced'
    BY <1>7 DEF QuietStep, MainPark, MainDrop, MainSkip, MainInfer, RejectRequest, LifeStillborn,
       LifeLost, LifeSleep, Finish, taskVars, ServiceTypeOK, TypeOK
  <2> QED
    BY <1>1, <2>1, <2>2, CurrentFrame
<1>8. CASE QosWriteFails \/ InferenceWriteFails
           \/ (\E i \in Ids : FirstWriteFails(i) \/ ApprovalWriteFails(i))
           \/ (\E mode \in BOOLEAN : ModeWriteFails(mode))
  <2>1. excused'
    BY <1>8 DEF QosWriteFails, InferenceWriteFails, FirstWriteFails, ApprovalWriteFails,
       ModeWriteFails, Loses, Excuses
  <2> QED
    BY <1>3, <2>1
<1> QED
  BY <1>2, <1>4, <1>5, <1>6, <1>7, <1>8 DEF Quiet

LEMMA CurrentWithdrawing ==
    ASSUME CurrentInv, Withdrawing PROVE CurrentInv'
<1>1. CASE excused'
  BY <1>1 DEF CurrentInv
<1>2. CASE ~excused'
  <2>1. CASE Clear
    <3>1. Silent
      BY <1>2, <2>1 DEF Clear, Withdraws, CutShort
    <3>2. /\ UNCHANGED <<watched, panic, density, qos, limit, scripts>>
          /\ UNCHANGED <<connected, tells, handler, llm, excused>>
          /\ Latest' = Latest /\ ~Announced
      BY <2>1, <3>1 DEF Clear, MainClear, Silent, shownVars, OffLink, linkVars, crowdVars, modeVars,
         Latest, Announced
    <3> QED
      BY <3>2, CurrentFrame
  <2>2. ASSUME NEW z \in Zones, ActuationWriteFails(z) PROVE FALSE
    BY <1>2, <2>2 DEF ActuationWriteFails, Withdraws, CutShort, Excuses
  <2> QED
    BY <2>1, <2>2 DEF Withdrawing
<1> QED
  BY <1>1, <1>2

(* What happens outside the coroutines changes nothing that is shown.      *)
Unseen ==
    /\ UNCHANGED <<watched, panic, density, qos, limit, scripts>>
    /\ Announced => Announced'

LEMMA CurrentOutside == ASSUME CurrentInv, Outside PROVE CurrentInv'
<1> USE DEF crowdVars, modeVars, safetyVars, taskVars, Announced
<1>1. UNCHANGED <<connected, tells, handler, llm, excused>> /\ Latest' = Latest
  BY DEF Outside, OffLink, linkVars, Silent, shownVars, Latest
<1>2. CASE SlmReturns \/ MainBroadcastDone \/ (\E m \in Reading \cup {Malformed} : Ingest(m))
           \/ (\E q \in Requests : Ask(q))
  <2>1. Unseen
    BY <1>2 DEF Unseen, SlmReturns, MainBroadcastDone, Ingest, Ask
  <2> QED
    BY <1>1, <2>1, CurrentFrame DEF Unseen
<1>3. ASSUME NEW i \in Ids, TimerFires(i) \/ ApprovalBroadcastDone(i) \/ LifeBroadcastDone(i)
      PROVE  CurrentInv'
  <2>1. Unseen
    BY <1>3 DEF Unseen, TimerFires, ApprovalBroadcastDone, LifeBroadcastDone
  <2> QED
    BY <1>1, <2>1, CurrentFrame DEF Unseen
<1> QED
  BY <1>2, <1>3 DEF Outside

LEMMA CurrentDelivered ==
    ASSUME ServiceTypeOK, CurrentInv, NEW n \in DOMAIN sending, Delivered(n) PROVE CurrentInv'
<1>1. PICK k \in Ids : UNCHANGED vars \/ LifeBroadcastDone(k)
  BY SendingType DEF Delivered
<1>2. Latest' = Latest
  BY LatestArrives DEF Delivered
<1>3. UNCHANGED <<connected, tells, handler, llm, excused>>
  BY DEF Delivered, OffLink, linkVars
<1>4. Unseen
  BY <1>1 DEF Unseen, LifeBroadcastDone, vars, loopVars, crowdVars, modeVars, safetyVars, taskVars,
     Announced
<1> QED
  BY <1>2, <1>3, <1>4, CurrentFrame DEF Unseen

LEMMA CurrentStep ==
    ASSUME ServiceTypeOK, RegistryInv, LinkInv, CurrentInv, [ServiceNext]_serviceAll
    PROVE  CurrentInv'
<1>1. CASE Showing
  <2>1. Broadcast
    BY <1>1 DEF Showing, SwitchQos, ShowingStep, RunBroadcast, DashboardJoins, LaterWriteFails
  <2> QED
    BY <2>1, CurrentBroadcast
<1>2. CASE LastDashboardLeaves
  BY <1>2 DEF LastDashboardLeaves, Dashboards, CurrentInv
<1>3. ASSUME NEW k \in Ids, Announce(k) \/ Advise(k) PROVE CurrentInv'
  BY <1>3, CurrentTaken DEF Announce, Advise
<1>4. ASSUME NEW n \in DOMAIN sending, Delivered(n) PROVE CurrentInv'
  BY <1>4, CurrentDelivered
<1> QED
  BY <1>1, <1>2, <1>3, <1>4, CurrentWithdrawing, CurrentQuiet, CurrentOutside, SortedSteps

(* When nothing is left to run, no callback and no proposed task is about  *)
(* to have anything told, and no snapshot is on the way.                   *)
LEMMA SettledIsCurrent ==
    ASSUME ServiceTypeOK, NewOnce, CurrentInv PROVE DashboardsCurrent
<1> SUFFICES ASSUME Settled, watched, ~excused PROVE shown = {Display}
  BY DEF DashboardsCurrent
<1>1. PICK d \in shown : shown = {d} /\ Tells(d)
  BY DEF CurrentInv, Latest, Settled
<1>2. ~Announced
  BY DEF Announced, NewOnce, Settled, In
<1>3. d.connected = connected /\ d.llm = llm
  BY <1>1, <1>2 DEF Tells, LinkTold, LlmTold, Settled
<1>4. d \in Displays
  BY <1>1 DEF ServiceTypeOK
<1>5. d = [panic |-> d.panic, density |-> d.density, qos |-> d.qos, limit |-> d.limit,
           scripts |-> d.scripts, connected |-> d.connected, llm |-> d.llm]
  BY <1>4 DEF Displays
<1>6. d = Display
  BY <1>1, <1>3, <1>5 DEF Tells, Display
<1> QED
  BY <1>1, <1>6

(* Whenever the service comes to rest the dashboards show its state, for   *)
(* an inference engine that answers for the zone it was asked about: every *)
(* change, by the loop or by the MQTT thread, was followed by a snapshot   *)
(* that arrived last, unless an audit write failed or a send was cut short *)
(* since.                                                                  *)
THEOREM DashboardsAreCurrent == Foreign = {} /\ ServiceSafety => []DashboardsCurrent
<1>1. ServiceInit => CurrentInv
  BY DEF ServiceInit, Init, CurrentInv
<1>2. /\ ScreenInv /\ NewOnce /\ CurrentInv
      /\ ServiceTypeOK /\ ServiceTypeOK' /\ RegistryInv /\ RegistryInv' /\ LinkInv
      /\ [ServiceNext]_serviceAll
      => ScreenInv' /\ NewOnce' /\ CurrentInv'
  BY ScreenStep, CurrentStep
<1>3. ServiceTypeOK /\ NewOnce /\ CurrentInv => DashboardsCurrent
  BY SettledIsCurrent
<1> QED
  BY <1>1, <1>2, <1>3, ScreenStarts, ServiceTypeCorrect, ServiceRegistry, ServiceImplementsLink,
     LinkInvHolds, PTL
  DEF ServiceSafety, serviceAll

=============================================================================
