--------------------------- MODULE RoutingProofs ---------------------------
(***************************************************************************)
(* What both route searches return, for every finite graph and every       *)
(* distribution of the crowd: both routines agree, and a path is safe and  *)
(* a shortest one.  The search goes by distance; the induction over the    *)
(* length of routes is the one over its steps.                             *)
(***************************************************************************)
EXTENDS Routing, FiniteSetTheorems, TLAPS

-----------------------------------------------------------------------------
(* Sequences and iteration orders. *)

(* r holds what is behind the head of q, and ps. *)
IsTailThenMore(q, ps, r, S) ==
    /\ r \in Seq(S)
    /\ Len(r) = Len(q) - 1 + Len(ps)
    /\ \A k \in DOMAIN r : \/ \E j \in DOMAIN q : r[k] = q[j]
                           \/ \E j \in DOMAIN ps : r[k] = ps[j]
    /\ \A j \in DOMAIN q : j > 1 => \E k \in DOMAIN r : r[k] = q[j]
    /\ \A j \in DOMAIN ps : \E k \in DOMAIN r : r[k] = ps[j]

(* What the queue holds after its head was taken and paths were appended. *)
LEMMA TailThenMore ==
    ASSUME NEW S, NEW q \in Seq(S), q # <<>>, NEW ps \in Seq(S)
    PROVE  IsTailThenMore(q, ps, Tail(q) \o ps, S)
  <1>. DEFINE r == Tail(q) \o ps
  <1>1. Tail(q) \in Seq(S) /\ Len(Tail(q)) = Len(q) - 1
    OBVIOUS
  <1>2. \A k \in 1..Len(Tail(q)) : Tail(q)[k] = q[k + 1]
    OBVIOUS
  <1>3. r \in Seq(S) /\ Len(r) = Len(q) - 1 + Len(ps)
    BY <1>1
  <1>4. ASSUME NEW k \in DOMAIN r
        PROVE  \/ \E j \in DOMAIN q : r[k] = q[j]
               \/ \E j \in DOMAIN ps : r[k] = ps[j]
    <2>1. CASE k <= Len(Tail(q))
      <3>1. r[k] = Tail(q)[k] /\ k \in 1..Len(Tail(q))
        BY <1>1, <1>3, <2>1
      <3>2. k + 1 \in DOMAIN q /\ r[k] = q[k + 1]
        BY <1>1, <1>2, <3>1
      <3>. QED  BY <3>2
    <2>2. CASE ~(k <= Len(Tail(q)))
      <3>1. k - Len(Tail(q)) \in DOMAIN ps /\ r[k] = ps[k - Len(Tail(q))]
        BY <1>1, <1>3, <2>2
      <3>. QED  BY <3>1
    <2>. QED  BY <2>1, <2>2
  <1>5. ASSUME NEW j \in DOMAIN q, j > 1
        PROVE  \E k \in DOMAIN r : r[k] = q[j]
    <2>1. j - 1 \in 1..Len(Tail(q)) /\ j - 1 \in DOMAIN r
      BY <1>1, <1>3, <1>5
    <2>2. r[j - 1] = q[j]
      BY <1>1, <1>2, <1>3, <2>1, <1>5
    <2>. QED  BY <2>1, <2>2
  <1>6. ASSUME NEW j \in DOMAIN ps
        PROVE  \E k \in DOMAIN r : r[k] = ps[j]
    <2>1. Len(Tail(q)) + j \in DOMAIN r /\ r[Len(Tail(q)) + j] = ps[j]
      BY <1>1, <1>3
    <2>. QED  BY <2>1
  <1>. HIDE DEF r
  <1>7. IsTailThenMore(q, ps, r, S)
    BY <1>3, <1>4, <1>5, <1>6 DEF IsTailThenMore
  <1>. QED  BY <1>7 DEF r

(* An order of a set of zones lists it without repetition. *)
LEMMA OrderLists ==
    ASSUME NEW S \in SUBSET Zones, NEW o \in Orders(S)
    PROVE  /\ o \in Seq(S) /\ o \in Seq(Zones)
           /\ Cardinality(S) \in Nat
           /\ Len(o) = Cardinality(S) /\ DOMAIN o = 1..Cardinality(S)
           /\ \A k \in DOMAIN o : o[k] \in S
           /\ \A z \in S : \E k \in DOMAIN o : o[k] = z
  <1>1. IsFiniteSet(S)
    BY RoutingAssumption, FS_Subset
  <1>2. Cardinality(S) \in Nat
    BY <1>1, FS_CardinalityType
  <1>3. o \in [1..Cardinality(S) -> S]
    BY DEF Orders
  <1>4. o \in Seq(S)
    BY <1>2, <1>3
  <1>5. o \in Seq(Zones)
    BY <1>2, <1>3
  <1>. QED  BY <1>2, <1>3, <1>4, <1>5 DEF Orders

-----------------------------------------------------------------------------
(* One iteration of the egress search. *)

(* The queue after an iteration: the paths behind the head, and the head   *)
(* extended by each fresh zone.                                            *)
LEMMA ExtendedQueue ==
    ASSUME TypeOK, Extend
    PROVE  LET path == Head(queue)
               new == Fresh(Last(path))
           IN  /\ path \in Seq(Zones) /\ path # <<>> /\ path = queue[1] /\ 1 \in DOMAIN queue
               /\ Last(path) \in Zones
               /\ \A n \in Zones : Append(path, n) \in Seq(Zones) /\ Append(path, n) # <<>>
               /\ new \in SUBSET Zones
               /\ queue' \in Seq(Seq(Zones))
               /\ Len(queue') = Len(queue) - 1 + Cardinality(new)
               /\ \A k \in DOMAIN queue' : \/ \E j \in DOMAIN queue : queue'[k] = queue[j]
                                           \/ \E n \in new : queue'[k] = Append(path, n)
               /\ \A j \in DOMAIN queue : j > 1 => \E k \in DOMAIN queue' : queue'[k] = queue[j]
               /\ \A n \in new : \E k \in DOMAIN queue' : queue'[k] = Append(path, n)
  <1>. DEFINE path == Head(queue)
              fresh == Fresh(Last(path))
  <1>1. queue \in Seq(Seq(Zones)) /\ queue # <<>>
    BY DEF TypeOK, Extend
  <1>2. path = queue[1] /\ 1 \in DOMAIN queue /\ path \in Seq(Zones)
    BY <1>1
  <1>3. path # <<>>
    BY <1>2 DEF TypeOK
  <1>4. Last(path) \in Zones
    BY <1>2, <1>3 DEF Last
  <1>5. fresh \in SUBSET Zones
    BY DEF Fresh, Neighbours
  <1>6. PICK o \in Orders(fresh) :
          queue' = Tail(queue) \o [k \in DOMAIN o |-> Append(path, o[k])]
    BY DEF Extend, Enqueue
  <1>. DEFINE ps == [k \in DOMAIN o |-> Append(path, o[k])]
  <1>7. /\ o \in Seq(Zones) /\ Cardinality(fresh) \in Nat
        /\ DOMAIN o = 1..Cardinality(fresh)
        /\ \A k \in DOMAIN o : o[k] \in fresh
        /\ \A n \in fresh : \E k \in DOMAIN o : o[k] = n
    <2>. HIDE DEF fresh
    <2>. QED  BY <1>5, <1>6, OrderLists
  <1>8. \A n \in Zones : Append(path, n) \in Seq(Zones) /\ Append(path, n) # <<>>
    <2>. HIDE DEF path
    <2>. QED  BY <1>2
  <1>9. ps \in [1..Cardinality(fresh) -> Seq(Zones)]
    <2>. HIDE DEF path, fresh
    <2>. QED  BY <1>5, <1>7, <1>8
  <1>10. ps \in Seq(Seq(Zones)) /\ Len(ps) = Cardinality(fresh) /\ DOMAIN ps = DOMAIN o
    <2>. HIDE DEF ps, fresh
    <2>1. ps \in Seq(Seq(Zones)) /\ Len(ps) = Cardinality(fresh)
      BY <1>7, <1>9
    <2>. QED  BY <1>7, <1>9, <2>1
  <1>11. /\ queue' \in Seq(Seq(Zones))
         /\ Len(queue') = Len(queue) - 1 + Len(ps)
         /\ \A k \in DOMAIN queue' : \/ \E j \in DOMAIN queue : queue'[k] = queue[j]
                                     \/ \E j \in DOMAIN ps : queue'[k] = ps[j]
         /\ \A j \in DOMAIN queue : j > 1 => \E k \in DOMAIN queue' : queue'[k] = queue[j]
         /\ \A j \in DOMAIN ps : \E k \in DOMAIN queue' : queue'[k] = ps[j]
    <2>1. queue' = Tail(queue) \o ps
      BY <1>6
    <2>. DEFINE Paths == Seq(Zones)
    <2>2. queue \in Seq(Paths) /\ queue # <<>> /\ ps \in Seq(Paths)
      BY <1>1, <1>10
    <2>. HIDE DEF ps, Paths
    <2>3. IsTailThenMore(queue, ps, Tail(queue) \o ps, Paths)
      BY <2>2, TailThenMore
    <2>4. IsTailThenMore(queue, ps, queue', Paths)
      BY <2>1, <2>3
    <2>. QED  BY <2>4 DEF IsTailThenMore, Paths
  <1>12. ASSUME NEW k \in DOMAIN queue'
         PROVE  \/ \E j \in DOMAIN queue : queue'[k] = queue[j]
                \/ \E n \in fresh : queue'[k] = Append(path, n)
    <2>. HIDE DEF path, fresh
    <2>. QED  BY <1>7, <1>10, <1>11
  <1>13. ASSUME NEW n \in fresh
         PROVE  \E k \in DOMAIN queue' : queue'[k] = Append(path, n)
    <2>1. PICK j \in DOMAIN o : o[j] = n
      BY <1>7, <1>13
    <2>2. j \in DOMAIN ps /\ ps[j] = Append(path, n)
      BY <1>10, <2>1
    <2>. HIDE DEF ps, path
    <2>. QED  BY <1>11, <2>2
  <1>14. Len(queue') = Len(queue) - 1 + Cardinality(fresh)
    BY <1>10, <1>11
  <1>. HIDE DEF path, fresh, ps
  <1>. QED  BY <1>2, <1>3, <1>4, <1>5, <1>8, <1>11, <1>12, <1>13, <1>14 DEF path, fresh

-----------------------------------------------------------------------------
(* Types. *)

(* The routines only ever hold zones, paths of zones and positions in the  *)
(* list of neighbours.                                                     *)
THEOREM RoutingTypeCorrect == Spec => []TypeOK
  <1>1. Init => TypeOK
    <2>. SUFFICES ASSUME Init PROVE TypeOK
      OBVIOUS
    <2>1. edges \subseteq Zones \X Zones /\ source \in Zones
      BY RoutingAssumption DEF Init
    <2>2. order \in Seq(Zones) /\ looked \in 0..Len(order)
      BY DEF Init
    <2>3. best \in Seq(Zones) /\ Len(best) <= 1 /\ result \in Seq(Zones)
      BY DEF Init
    <2>4. queue \in Seq(Seq(Zones)) /\ DOMAIN queue = {}
      BY DEF Init
    <2>. QED  BY <2>1, <2>2, <2>3, <2>4 DEF Init, TypeOK
  <1>2. TypeOK /\ [Next]_vars => TypeOK'
    <2>. SUFFICES ASSUME TypeOK, [Next]_vars PROVE TypeOK'
      OBVIOUS
    <2>. USE DEF TypeOK
    <2>1. CASE CallAlternative
      <3>1. order' \in Seq(Zones)
        <4>1. Neighbours(source) \in SUBSET Zones /\ order' \in Orders(Neighbours(source))
          BY <2>1 DEF CallAlternative, Neighbours
        <4>. QED  BY <4>1, OrderLists
      <3>2. looked' \in 0..Len(order')
        BY <2>1, <3>1 DEF CallAlternative
      <3>. QED  BY <2>1, <3>1, <3>2 DEF CallAlternative, graphVars, egressVars
    <2>2. CASE Look
      BY <2>2 DEF Look, graphVars, callVars, egressVars
    <2>3. CASE ReturnAlternative
      BY <2>3 DEF ReturnAlternative, graphVars, callVars, alternativeVars, egressVars
    <2>4. ASSUME NEW T \in SUBSET Zones, CallEgress(T) PROVE TypeOK'
      <3>1. <<source>> \in Seq(Zones) /\ <<source>> # <<>>
        OBVIOUS
      <3>2. <<<<source>>>> \in Seq(Seq(Zones)) /\ \A k \in DOMAIN <<<<source>>>> : <<<<source>>>>[k] = <<source>>
        BY <3>1
      <3>3. /\ queue' \in Seq(Seq(Zones))
            /\ \A k \in DOMAIN queue' : queue'[k] # <<>>
        BY <2>4, <3>1, <3>2 DEF CallEgress, FirstPath
      <3>4. pending' \in BOOLEAN /\ visited' \subseteq Zones /\ result' \in Seq(Zones)
        BY <2>4, <3>1 DEF CallEgress
      <3>. QED  BY <2>4, <3>3, <3>4 DEF CallEgress, graphVars, alternativeVars
    <2>5. CASE Arrive
      <3>1. result' \in Seq(Zones)
        BY <2>5 DEF Arrive
      <3>2. rounds' \in Nat
        BY <2>5 DEF Arrive
      <3>4. pending' = FALSE
        BY <2>5 DEF Arrive
      <3>3. UNCHANGED <<graphVars, callVars, alternativeVars, queue, visited>>
        BY <2>5 DEF Arrive
      <3>. QED  BY <3>1, <3>2, <3>3, <3>4 DEF graphVars, callVars, alternativeVars
    <2>6. CASE Extend
      <3>1. queue' \in Seq(Seq(Zones)) /\ \A k \in DOMAIN queue' : queue'[k] # <<>>
        <4>. SUFFICES ASSUME NEW k \in DOMAIN queue' PROVE queue'[k] # <<>>
          BY <2>6, ExtendedQueue
        <4>1. CASE \E j \in DOMAIN queue : queue'[k] = queue[j]
          BY <4>1
        <4>2. CASE \E n \in Fresh(Last(Head(queue))) : queue'[k] = Append(Head(queue), n)
          BY <2>6, <4>2, ExtendedQueue
        <4>. QED  BY <2>6, <4>1, <4>2, ExtendedQueue
      <3>2. visited' \subseteq Zones
        BY <2>6 DEF Extend, Mark, Fresh, Neighbours
      <3>3. rounds' \in Nat
        BY <2>6 DEF Extend
      <3>. QED  BY <2>6, <3>1, <3>2, <3>3 DEF Extend, graphVars, callVars, alternativeVars
    <2>7. CASE GiveUp
      BY <2>7 DEF GiveUp, graphVars, callVars, alternativeVars, egressVars
    <2>8. CASE UNCHANGED vars
      BY <2>8 DEF vars, graphVars, callVars, alternativeVars, egressVars
    <2>. QED  BY <2>1, <2>2, <2>3, <2>4, <2>5, <2>6, <2>7, <2>8 DEF Next
  <1>. QED  BY <1>1, <1>2, PTL DEF Spec

-----------------------------------------------------------------------------
(* get_alternative_route *)

(* b is the first of the greatest among the first n zones of an order. *)
IsBestOf(b, n, ord, sp) ==
    \/ b = <<>> /\ \A j \in 1..n : ~(sp[ord[j]] > 0)
    \/ \E k \in 1..n :
         /\ b = <<ord[k]>> /\ sp[ord[k]] > 0
         /\ \A j \in 1..n : sp[ord[j]] > 0 =>
               \/ sp[ord[j]] < sp[ord[k]]
               \/ sp[ord[j]] = sp[ord[k]] /\ k <= j

AlternativeInv == call = "alternative" =>
    IF pending THEN IsBestOf(best, looked, order, spare) ELSE result = Interpreted

(* A complete scan has found what max returns. *)
LEMMA BestIsInterpreted ==
    ASSUME TypeOK, IsBestOf(best, Len(order), order, spare)
    PROVE  best = Interpreted
  <1>1. order \in Seq(Zones) /\ DOMAIN order = 1..Len(order) /\ Len(order) \in Nat
    BY DEF TypeOK
  <1>2. CASE best = <<>> /\ \A j \in 1..Len(order) : ~(spare[order[j]] > 0)
    <2>1. Candidates = {}
      BY <1>1, <1>2 DEF Candidates, HasRoom
    <2>. QED  BY <1>2, <2>1 DEF Interpreted
  <1>3. ASSUME NEW k \in 1..Len(order),
               best = <<order[k]>>, spare[order[k]] > 0,
               \A j \in 1..Len(order) : spare[order[j]] > 0 =>
                  \/ spare[order[j]] < spare[order[k]]
                  \/ spare[order[j]] = spare[order[k]] /\ k <= j
        PROVE  best = Interpreted
    <2>1. k \in Candidates /\ IsFirstBest(k)
      BY <1>1, <1>3 DEF Candidates, IsFirstBest, HasRoom
    <2>2. \A j \in Candidates : order[j] \in Zones /\ spare[order[j]] \in Nat /\ j \in Nat
      BY <1>1 DEF Candidates, TypeOK
    <2>3. ASSUME NEW j \in Candidates, IsFirstBest(j) PROVE j = k
      <3>1. spare[order[k]] = spare[order[j]] /\ j <= k /\ k <= j
        BY <2>1, <2>2, <2>3 DEF IsFirstBest
      <3>. QED  BY <2>1, <2>2, <3>1
    <2>4. (CHOOSE j \in Candidates : IsFirstBest(j)) = k
      BY <2>1, <2>3
    <2>5. Candidates # {}
      BY <2>1
    <2>6. Interpreted = <<order[k]>>
      BY <2>4, <2>5 DEF Interpreted
    <2>. QED  BY <1>3, <2>6
  <1>. QED  BY <1>2, <1>3 DEF IsBestOf

(* One comparison of the loop. *)
LEMMA LookKeepsBest ==
    ASSUME TypeOK, IsBestOf(best, looked, order, spare), Look
    PROVE  IsBestOf(best', looked + 1, order, spare)
  <1>. DEFINE n == looked + 1
              z == order[n]
  <1>1. /\ order \in Seq(Zones) /\ looked \in Nat /\ n \in 1..Len(order) /\ Len(order) \in Nat
        /\ \A k \in 1..n : order[k] \in Zones /\ spare[order[k]] \in Nat
        /\ 1..n = (1..looked) \cup {n}
    BY DEF TypeOK, Look
  <1>2. best' = IF spare[z] > 0 /\ Better(z) THEN <<z>> ELSE best
    BY DEF Look, HasRoom
  <1>3. CASE best = <<>> /\ \A j \in 1..looked : ~(spare[order[j]] > 0)
    <2>1. CASE spare[z] > 0
      <3>1. best' = <<z>>
        BY <1>2, <1>3, <2>1 DEF Better
      <3>2. \A j \in 1..n : spare[order[j]] > 0 => j = n
        BY <1>1, <1>3
      <3>. QED  BY <1>1, <2>1, <3>1, <3>2 DEF IsBestOf
    <2>2. CASE ~(spare[z] > 0)
      <3>1. best' = <<>> /\ \A j \in 1..n : ~(spare[order[j]] > 0)
        BY <1>1, <1>2, <1>3, <2>2
      <3>. QED  BY <3>1 DEF IsBestOf
    <2>. QED  BY <2>1, <2>2
  <1>4. ASSUME NEW k \in 1..looked,
               best = <<order[k]>>, spare[order[k]] > 0,
               \A j \in 1..looked : spare[order[j]] > 0 =>
                  \/ spare[order[j]] < spare[order[k]]
                  \/ spare[order[j]] = spare[order[k]] /\ k <= j
        PROVE  IsBestOf(best', n, order, spare)
    <2>1. best # <<>> /\ best[1] = order[k] /\ k \in 1..n /\ k <= n
      BY <1>1, <1>4
    <2>2. CASE spare[z] > spare[order[k]]
      <3>1. best' = <<z>> /\ spare[z] > 0
        BY <1>1, <1>2, <1>4, <2>1, <2>2 DEF Better
      <3>2. \A j \in 1..n : spare[order[j]] > 0 =>
               \/ spare[order[j]] < spare[z]
               \/ spare[order[j]] = spare[z] /\ n <= j
        <4>. SUFFICES ASSUME NEW j \in 1..n, spare[order[j]] > 0
                      PROVE  \/ spare[order[j]] < spare[z]
                             \/ spare[order[j]] = spare[z] /\ n <= j
          OBVIOUS
        <4>1. CASE j = n
          BY <1>1, <4>1
        <4>2. CASE j \in 1..looked
          BY <1>1, <1>4, <2>1, <2>2, <4>2
        <4>. QED  BY <1>1, <4>1, <4>2
      <3>. QED  BY <1>1, <3>1, <3>2 DEF IsBestOf
    <2>3. CASE ~(spare[z] > spare[order[k]])
      <3>1. best' = <<order[k]>>
        BY <1>2, <1>4, <2>1, <2>3 DEF Better
      <3>2. \A j \in 1..n : spare[order[j]] > 0 =>
               \/ spare[order[j]] < spare[order[k]]
               \/ spare[order[j]] = spare[order[k]] /\ k <= j
        <4>. SUFFICES ASSUME NEW j \in 1..n, spare[order[j]] > 0
                      PROVE  \/ spare[order[j]] < spare[order[k]]
                             \/ spare[order[j]] = spare[order[k]] /\ k <= j
          OBVIOUS
        <4>1. CASE j = n
          BY <1>1, <2>1, <2>3, <4>1
        <4>2. CASE j \in 1..looked
          BY <1>4, <4>2
        <4>. QED  BY <1>1, <4>1, <4>2
      <3>. QED  BY <1>4, <2>1, <3>1, <3>2 DEF IsBestOf
    <2>. QED  BY <2>2, <2>3
  <1>. QED  BY <1>3, <1>4 DEF IsBestOf

LEMMA AlternativeStep == TypeOK /\ AlternativeInv /\ [Next]_vars => AlternativeInv'
  <1>. SUFFICES ASSUME TypeOK, AlternativeInv, [Next]_vars PROVE AlternativeInv'
    OBVIOUS
  <1>1. CASE CallAlternative
    <2>1. looked' = 0 /\ best' = <<>> /\ pending'
      BY <1>1 DEF CallAlternative
    <2>. QED  BY <2>1 DEF AlternativeInv, IsBestOf
  <1>2. CASE Look
    <2>1. call = "alternative" /\ pending /\ call' = call /\ pending' = pending /\ looked' = looked + 1
      BY <1>2 DEF Look, callVars
    <2>2. IsBestOf(best', looked + 1, order, spare)
      BY <1>2, <2>1, LookKeepsBest DEF AlternativeInv
    <2>3. order' = order /\ spare' = spare
      BY <1>2 DEF Look, graphVars
    <2>. QED  BY <2>1, <2>2, <2>3 DEF AlternativeInv
  <1>3. CASE ReturnAlternative
    <2>1. best = Interpreted
      BY <1>3, BestIsInterpreted DEF ReturnAlternative, AlternativeInv
    <2>2. /\ ~pending' /\ result' = best
          /\ order' = order /\ spare' = spare
      BY <1>3 DEF ReturnAlternative, graphVars, alternativeVars
    <2>. QED  BY <2>1, <2>2 DEF AlternativeInv, Interpreted, Candidates, IsFirstBest, HasRoom
  <1>4. ASSUME NEW T \in SUBSET Zones, CallEgress(T) PROVE AlternativeInv'
    BY <1>4 DEF CallEgress, AlternativeInv
  <1>5. CASE Arrive \/ Extend \/ GiveUp
    BY <1>5 DEF Arrive, Extend, GiveUp, callVars, AlternativeInv
  <1>6. CASE UNCHANGED vars
    BY <1>6 DEF vars, graphVars, callVars, alternativeVars, AlternativeInv, Interpreted,
                Candidates, IsFirstBest, HasRoom
  <1>. QED  BY <1>1, <1>2, <1>3, <1>4, <1>5, <1>6 DEF Next

(* The compiled and the interpreted get_alternative_route propose the same *)
(* zone, for every graph and every distribution of spare capacity.         *)
THEOREM CompiledAgrees == Spec => []RoutinesAgree
  <1>1. Init => AlternativeInv
    BY DEF Init, AlternativeInv
  <1>2. AlternativeInv => RoutinesAgree
    BY DEF AlternativeInv, RoutinesAgree
  <1>. QED  BY <1>1, <1>2, RoutingTypeCorrect, AlternativeStep, PTL DEF Spec

-----------------------------------------------------------------------------
(* find_optimal_egress_path *)

(* A zone someone is still to be led on from, or that has been left by     *)
(* every edge to a zone with room and is no exit.                          *)
Waiting(z) == \E k \in DOMAIN queue : Last(queue[k]) = z
Explored(z) == z \notin targets /\ \A n \in Neighbours(z) : HasRoom(n) => n \in visited

(* The paths in the queue are routes over zones marked, and whatever is    *)
(* marked is waiting or explored.                                          *)
PathsAreRoutes ==
    \A k \in DOMAIN queue : /\ IsRoute(queue[k]) /\ Simple(queue[k])
                            /\ \A j \in DOMAIN queue[k] : queue[k][j] \in visited

SearchInv == call = "egress" /\ pending =>
    /\ PathsAreRoutes
    /\ source \in visited
    /\ \A z \in visited : Waiting(z) \/ Explored(z)

CallInv == /\ call = "none" => ~pending
           /\ pending \/ call = "none" => result = <<>>

ReturnInv == PathIsSafe /\ NoneMeansCutOff
EgressInv == CallInv /\ SearchInv /\ ReturnInv

(* A route extended by a fresh zone next to its end is a route. *)
LEMMA RouteExtends ==
    ASSUME TypeOK, NEW p \in Seq(Zones), p # <<>>, IsRoute(p), Simple(p),
           \A j \in DOMAIN p : p[j] \in visited,
           NEW n \in Fresh(Last(p))
    PROVE  /\ IsRoute(Append(p, n)) /\ Simple(Append(p, n))
           /\ \A j \in DOMAIN Append(p, n) : Append(p, n)[j] \in visited \cup {n}
  <1>. DEFINE q == Append(p, n)
  <1>1. n \in Zones /\ n \in Neighbours(Last(p)) /\ HasRoom(n) /\ n \notin visited
    BY DEF Fresh, Neighbours
  <1>2. /\ Len(p) \in Nat /\ Len(p) >= 1 /\ Len(q) = Len(p) + 1
        /\ DOMAIN p = 1..Len(p) /\ DOMAIN q = 1..Len(q)
        /\ \A j \in 1..Len(p) : q[j] = p[j]
        /\ q[Len(q)] = n
    BY <1>1
  <1>. HIDE DEF q
  <1>3. \A j \in 1..Len(q) : j \in 1..Len(p) \/ j = Len(q)
    BY <1>2
  <1>4. IsRoute(q)
    <2>1. q[1] = source
      BY <1>2 DEF IsRoute
    <2>2. ASSUME NEW k \in 1..(Len(q) - 1)
          PROVE  q[k + 1] \in Neighbours(q[k]) /\ HasRoom(q[k + 1])
      <3>1. CASE k = Len(p)
        BY <1>1, <1>2, <3>1 DEF Last
      <3>2. CASE k # Len(p)
        <4>1. k \in 1..(Len(p) - 1) /\ k \in 1..Len(p) /\ k + 1 \in 1..Len(p)
          <5>1. PICK L \in Nat : L = Len(p)
            BY <1>2
          <5>2. k \in 1..L /\ k # L
            <6>1. Len(q) - 1 = L
              BY <1>2, <5>1
            <6>. QED  BY <3>2, <5>1, <6>1
          <5>3. k \in 1..(L - 1) /\ k + 1 \in 1..L
            BY <5>2
          <5>. QED  BY <5>1, <5>2, <5>3
        <4>2. q[k] = p[k] /\ q[k + 1] = p[k + 1]
          BY <1>2, <4>1
        <4>. QED  BY <4>1, <4>2 DEF IsRoute
      <3>. QED  BY <3>1, <3>2
    <2>. QED  BY <2>1, <2>2 DEF IsRoute
  <1>5. Simple(q)
    <2>. SUFFICES ASSUME NEW j \in 1..Len(q), NEW k \in 1..Len(q), q[j] = q[k] PROVE k = j
      BY <1>2 DEF Simple
    <2>1. CASE j \in 1..Len(p) /\ k \in 1..Len(p)
      BY <1>2, <2>1 DEF Simple
    <2>2. CASE j = Len(q) /\ k \in 1..Len(p)
      BY <1>1, <1>2, <2>2
    <2>3. CASE k = Len(q) /\ j \in 1..Len(p)
      BY <1>1, <1>2, <2>3
    <2>. QED  BY <1>3, <2>1, <2>2, <2>3
  <1>6. \A j \in DOMAIN q : q[j] \in visited \cup {n}
    BY <1>2, <1>3
  <1>. QED  BY <1>4, <1>5, <1>6 DEF q

LEMMA ExtendKeepsSearch ==
    ASSUME TypeOK, SearchInv, Extend
    PROVE  SearchInv'
  <1>. DEFINE path == Head(queue)
              here == Last(path)
              new == Fresh(here)
  <1>1. /\ path \in Seq(Zones) /\ path # <<>> /\ path = queue[1] /\ 1 \in DOMAIN queue
        /\ here \in Zones /\ new \in SUBSET Zones
        /\ queue' \in Seq(Seq(Zones))
        /\ \A k \in DOMAIN queue' : \/ \E j \in DOMAIN queue : queue'[k] = queue[j]
                                    \/ \E n \in new : queue'[k] = Append(path, n)
        /\ \A j \in DOMAIN queue : j > 1 => \E k \in DOMAIN queue' : queue'[k] = queue[j]
        /\ \A n \in new : \E k \in DOMAIN queue' : queue'[k] = Append(path, n)
    BY ExtendedQueue
  <1>2. /\ PathsAreRoutes /\ source \in visited
        /\ \A z \in visited : Waiting(z) \/ Explored(z)
    BY DEF SearchInv, Extend
  <1>3. /\ edges' = edges /\ spare' = spare /\ source' = source /\ targets' = targets
        /\ visited' = visited \cup new /\ here \notin targets
    BY DEF Extend, graphVars, callVars, Mark
  <1>4. IsRoute(path) /\ Simple(path) /\ \A j \in DOMAIN path : path[j] \in visited
    BY <1>1, <1>2 DEF PathsAreRoutes
  <1>. HIDE DEF path, here, new
  <1>5. ASSUME NEW k \in DOMAIN queue'
        PROVE  /\ IsRoute(queue'[k]) /\ Simple(queue'[k])
               /\ \A j \in DOMAIN queue'[k] : queue'[k][j] \in visited'
    <2>1. ASSUME NEW j \in DOMAIN queue, queue'[k] = queue[j]
          PROVE  /\ IsRoute(queue'[k]) /\ Simple(queue'[k])
                 /\ \A i \in DOMAIN queue'[k] : queue'[k][i] \in visited'
      BY <1>2, <1>3, <2>1 DEF PathsAreRoutes
    <2>2. ASSUME NEW n \in new, queue'[k] = Append(path, n)
          PROVE  /\ IsRoute(queue'[k]) /\ Simple(queue'[k])
                 /\ \A i \in DOMAIN queue'[k] : queue'[k][i] \in visited'
      <3>1. n \in Fresh(Last(path))
        BY <2>2 DEF new, here
      <3>2. /\ IsRoute(Append(path, n)) /\ Simple(Append(path, n))
            /\ \A j \in DOMAIN Append(path, n) : Append(path, n)[j] \in visited \cup {n}
        BY <1>1, <1>4, <3>1, RouteExtends
      <3>. QED  BY <1>3, <2>2, <3>2
    <2>. QED  BY <1>1, <2>1, <2>2
  <1>6. ASSUME NEW p, IsRoute(p) PROVE IsRoute(p)'
    BY <1>3, <1>6 DEF IsRoute, Neighbours, HasRoom
  <1>7. PathsAreRoutes'
    BY <1>5, <1>6 DEF PathsAreRoutes, Simple
  <1>8. ASSUME NEW z \in visited'
        PROVE  Waiting(z)' \/ Explored(z)'
    <2>1. CASE z \in new
      <3>1. Last(Append(path, z)) = z
        BY <1>1, <2>1 DEF Last
      <3>. QED  BY <1>1, <2>1, <3>1 DEF Waiting
    <2>2. CASE z = here
      <3>1. \A n \in Neighbours(z) : HasRoom(n) => n \in visited'
        BY <1>3, <2>2 DEF new, Fresh
      <3>. QED  BY <1>3, <2>2, <3>1 DEF Explored, Neighbours, HasRoom
    <2>3. CASE z \in visited /\ z # here
      <3>1. CASE Waiting(z)
        <4>1. PICK j \in DOMAIN queue : Last(queue[j]) = z
          BY <3>1 DEF Waiting
        <4>2. j > 1
          <5>1. j # 1
            BY <1>1, <2>3, <4>1 DEF here
          <5>. QED  BY <5>1 DEF TypeOK
        <4>. QED  BY <1>1, <4>1, <4>2 DEF Waiting
      <3>2. CASE Explored(z)
        BY <1>3, <3>2 DEF Explored, Neighbours, HasRoom
      <3>. QED  BY <1>2, <2>3, <3>1, <3>2
    <2>. QED  BY <1>3, <2>1, <2>2, <2>3
  <1>. QED  BY <1>2, <1>3, <1>7, <1>8 DEF SearchInv

LEMMA EgressStep == TypeOK /\ EgressInv /\ [Next]_vars => EgressInv'
  <1>. SUFFICES ASSUME TypeOK, EgressInv, [Next]_vars PROVE CallInv' /\ SearchInv' /\ ReturnInv'
    BY DEF EgressInv
  <1>1. CASE CallAlternative
    BY <1>1 DEF CallAlternative, EgressInv, CallInv, SearchInv, ReturnInv, PathIsSafe, NoneMeansCutOff
  <1>2. CASE Look
    BY <1>2 DEF Look, callVars, EgressInv, CallInv, SearchInv, ReturnInv, PathIsSafe, NoneMeansCutOff
  <1>3. CASE ReturnAlternative
    BY <1>3 DEF ReturnAlternative, callVars, EgressInv, CallInv, SearchInv, ReturnInv, PathIsSafe, NoneMeansCutOff
  <1>4. ASSUME NEW T \in SUBSET Zones, CallEgress(T) PROVE CallInv' /\ SearchInv' /\ ReturnInv'
    <2>1. /\ edges' = edges /\ spare' = spare /\ source' = source /\ targets' = T /\ source \in Zones
          /\ ~pending /\ result = <<>> /\ call' = "egress"
      BY <1>4 DEF CallEgress, graphVars, TypeOK, EgressInv, CallInv
    <2>6. source \in Zones => <<source>> \in Seq(Zones)
      OBVIOUS
    <2>7. PICK p \in Seq(Zones) : p = <<source>>
      BY <2>1, <2>6
    <2>2. p # <<>> /\ Len(p) = 1 /\ DOMAIN p = {1} /\ p[1] = source
      BY <2>7
    <2>3. IsRoute(p)' /\ Simple(p) /\ Last(p) = source
      BY <2>1, <2>2 DEF IsRoute, Simple, Last
    <2>4. CASE source \in T
      <3>1. result' = p /\ ~pending'
        BY <1>4, <2>1, <2>4, <2>7 DEF CallEgress
      <3>. QED  BY <2>1, <2>2, <2>3, <2>4, <3>1
                DEF CallInv, SearchInv, ReturnInv, PathIsSafe, NoneMeansCutOff, Last, Simple, IsRoute
    <2>5. CASE source \notin T
      <3>1. pending' /\ queue' = <<p>> /\ visited' = {source} /\ result' = result
        BY <1>4, <2>5, <2>7 DEF CallEgress, FirstPath
      <3>2. DOMAIN queue' = {1} /\ queue'[1] = p
        BY <3>1
      <3>3. PathsAreRoutes'
        BY <2>2, <2>3, <3>1, <3>2 DEF PathsAreRoutes, Simple
      <3>4. \E k \in DOMAIN queue' : Last(queue'[k]) = source
        BY <2>3, <3>2
      <3>5. \A z \in visited' : Waiting(z)'
        BY <2>1, <3>1, <3>4 DEF Waiting
      <3>6. SearchInv'
        BY <2>1, <3>1, <3>3, <3>5 DEF SearchInv
      <3>. QED  BY <2>1, <3>1, <3>6 DEF CallInv, ReturnInv, PathIsSafe, NoneMeansCutOff
    <2>. QED  BY <2>4, <2>5
  <1>5. CASE Arrive
    <2>1. call = "egress" /\ pending /\ queue # <<>> /\ Last(Head(queue)) \in targets
          /\ result' = Head(queue) /\ ~pending'
          /\ edges' = edges /\ spare' = spare /\ source' = source /\ targets' = targets
      BY <1>5 DEF Arrive, graphVars, callVars
    <2>2. Head(queue) = queue[1] /\ 1 \in DOMAIN queue /\ queue[1] # <<>>
      BY <2>1 DEF TypeOK
    <2>3. IsRoute(result') /\ Simple(result')
      BY <2>1, <2>2 DEF EgressInv, SearchInv, PathsAreRoutes
    <2>4. IsRoute(result)'
      BY <2>1, <2>3 DEF IsRoute, Neighbours, HasRoom
    <2>5. Simple(result)' /\ (Last(result) \in targets)'
      BY <2>1, <2>3 DEF Simple, Last
    <2>6. PathIsSafe' /\ NoneMeansCutOff'
      BY <2>1, <2>2, <2>4, <2>5 DEF PathIsSafe, NoneMeansCutOff
    <2>. QED  BY <2>1, <2>6, <1>5 DEF CallInv, SearchInv, ReturnInv, Arrive, callVars
  <1>6. CASE Extend
    <2>1. SearchInv'
      BY <1>6, ExtendKeepsSearch DEF EgressInv
    <2>2. pending' = pending /\ pending
      BY <1>6 DEF Extend
    <2>3. result' = result /\ call' = call
      BY <1>6 DEF Extend, callVars
    <2>. QED  BY <2>1, <2>2, <2>3 DEF EgressInv, CallInv, ReturnInv, PathIsSafe, NoneMeansCutOff
  <1>7. CASE GiveUp
    <2>1. /\ call = "egress" /\ pending /\ DOMAIN queue = {} /\ ~pending' /\ result' = result
          /\ edges' = edges /\ spare' = spare /\ source' = source /\ targets' = targets
      BY <1>7 DEF GiveUp, graphVars, callVars
    <2>2. source \in visited /\ \A z \in visited : Explored(z)
      BY <2>1 DEF EgressInv, SearchInv, Waiting
    <2>3. visited \in SUBSET Zones /\ visited \cap targets = {}
      BY <2>2 DEF TypeOK, Explored
    <2>4. \A z \in visited : \A n \in Neighbours(z) : HasRoom(n) => n \in visited
      BY <2>2 DEF Explored
    <2>5. NoneMeansCutOff'
      BY <2>1, <2>2, <2>3, <2>4 DEF NoneMeansCutOff, Neighbours, HasRoom
    <2>6. result = <<>> /\ call' = call
      BY <1>7, <2>1 DEF GiveUp, callVars, EgressInv, CallInv
    <2>. QED  BY <2>1, <2>5, <2>6 DEF CallInv, SearchInv, ReturnInv, PathIsSafe
  <1>8. CASE UNCHANGED vars
    BY <1>8 DEF vars, graphVars, callVars, egressVars, EgressInv, CallInv, SearchInv, ReturnInv, PathIsSafe,
                NoneMeansCutOff, PathsAreRoutes, IsRoute, Simple, Waiting, Explored, Neighbours, HasRoom
  <1>. QED  BY <1>1, <1>2, <1>3, <1>4, <1>5, <1>6, <1>7, <1>8 DEF Next

LEMMA EgressAlways == Spec => []EgressInv
  <1>1. Init => EgressInv
    BY DEF Init, EgressInv, CallInv, SearchInv, ReturnInv, PathIsSafe, NoneMeansCutOff
  <1>. QED  BY <1>1, RoutingTypeCorrect, EgressStep, PTL DEF Spec

(* On every graph, a path that is returned leads along edges, through zones *)
(* with room and never twice through one, to an exit.                       *)
THEOREM EgressIsSafe == Spec => []PathIsSafe
  <1>1. EgressInv => PathIsSafe
    BY DEF EgressInv, ReturnInv
  <1>. QED  BY <1>1, EgressAlways, PTL

(* On every graph, None is returned only when no exit can be reached. *)
THEOREM EgressIsComplete == Spec => []NoneMeansCutOff
  <1>1. EgressInv => NoneMeansCutOff
    BY DEF EgressInv, ReturnInv
  <1>. QED  BY <1>1, EgressAlways, PTL

-----------------------------------------------------------------------------
(* The search goes by distance. *)

(* The queue is in the order of lengths, which differ by one at most.      *)
ByLength ==
    \A j, k \in DOMAIN queue : j <= k => /\ Len(queue[j]) <= Len(queue[k])
                                         /\ Len(queue[k]) <= Len(queue[j]) + 1

WaitingAt(z, n) == \E k \in DOMAIN queue : Last(queue[k]) = z /\ Len(queue[k]) = n

(* Where routes shorter than the next path end is explored; where routes   *)
(* of its length end is explored, or waits with a path of that length.     *)
LevelInv == call = "egress" /\ pending /\ queue # <<>> =>
    /\ ByLength
    /\ \A n \in Nat \ {0} : \A z \in Reached(n) :
         /\ n < Len(queue[1]) => Explored(z)
         /\ n = Len(queue[1]) => Explored(z) \/ WaitingAt(z, n)

(* A route is one to the zone before its last, and a step from there. *)
LEMMA ReachedNext ==
    ASSUME NEW n \in Nat \ {0}, NEW z \in Reached(n + 1)
    PROVE  z \in Zones /\ HasRoom(z) /\ \E y \in Reached(n) : y \in Zones /\ z \in Neighbours(y)
  <1>1. PICK p \in [1..(n + 1) -> Zones] : IsRoute(p) /\ p[n + 1] = z
    BY DEF Reached
  <1>2. Len(p) = n + 1
    OBVIOUS
  <1>3. /\ p[1] = source
        /\ \A k \in 1..n : p[k + 1] \in Neighbours(p[k]) /\ HasRoom(p[k + 1])
    BY <1>1, <1>2 DEF IsRoute
  <1>4. PICK q \in [1..n -> Zones] : \A k \in 1..n : q[k] = p[k]
    <2>1. [k \in 1..n |-> p[k]] \in [1..n -> Zones]
      OBVIOUS
    <2>. QED  BY <2>1
  <1>5. Len(q) = n
    OBVIOUS
  <1>6. IsRoute(q)
    <2>1. q[1] = source
      BY <1>3, <1>4
    <2>2. \A k \in 1..(n - 1) : q[k] = p[k] /\ q[k + 1] = p[k + 1]
      BY <1>4
    <2>. QED  BY <1>3, <1>5, <2>1, <2>2 DEF IsRoute
  <1>7. q[n] \in Reached(n) /\ q[n] = p[n] /\ q[n] \in Zones
    BY <1>4, <1>6 DEF Reached
  <1>. QED  BY <1>1, <1>3, <1>7

LEMMA ReachedFirst == \A z \in Reached(1) : z = source
  BY DEF Reached, IsRoute

(* Where the paths stand in the queue after an iteration. *)
LEMMA QueuePositions ==
    ASSUME NEW S, NEW q \in Seq(S), q # <<>>, NEW ps \in Seq(S), NEW r, r = Tail(q) \o ps
    PROVE  /\ Len(q) \in Nat /\ Len(q) >= 1 /\ Len(ps) \in Nat
           /\ DOMAIN r = 1..(Len(q) - 1 + Len(ps))
           /\ \A k \in 1..(Len(q) - 1) : r[k] = q[k + 1]
           /\ \A k \in Len(q)..(Len(q) - 1 + Len(ps)) :
                 k - Len(q) + 1 \in DOMAIN ps /\ r[k] = ps[k - Len(q) + 1]
  <1>1. PICK t : t = Tail(q)
    OBVIOUS
  <1>2. /\ t \in Seq(S) /\ Len(t) = Len(q) - 1 /\ Len(q) \in Nat /\ Len(q) >= 1 /\ Len(ps) \in Nat
        /\ \A k \in 1..(Len(q) - 1) : t[k] = q[k + 1]
    BY <1>1
  <1>3. /\ DOMAIN r = 1..(Len(t) + Len(ps)) /\ \A k \in 1..Len(t) : r[k] = t[k]
        /\ \A k \in (Len(t) + 1)..(Len(t) + Len(ps)) : r[k] = ps[k - Len(t)]
    BY <1>1, <1>2
  <1>4. PICK a, b \in Nat : a = Len(q) /\ b = Len(ps) /\ a >= 1
    BY <1>2
  <1>5. \A k \in a..(a - 1 + b) : /\ k \in ((a - 1) + 1)..((a - 1) + b)
                                  /\ k - (a - 1) = k - a + 1 /\ k - a + 1 \in 1..b
    BY <1>4
  <1>. QED  BY <1>2, <1>3, <1>4, <1>5

LEMMA ExtendedPositions ==
    ASSUME TypeOK, Extend
    PROVE  /\ Len(queue) \in Nat /\ Len(queue) >= 1 /\ DOMAIN queue = 1..Len(queue)
           /\ \A k \in DOMAIN queue : Len(queue[k]) \in Nat /\ Len(queue[k]) >= 1
           /\ \E b \in Nat :
                /\ DOMAIN queue' = 1..(Len(queue) - 1 + b)
                /\ \A k \in 1..(Len(queue) - 1) : queue'[k] = queue[k + 1]
                /\ \A k \in Len(queue)..(Len(queue) - 1 + b) : Len(queue'[k]) = Len(queue[1]) + 1
  <1>. DEFINE fresh == Fresh(Last(Head(queue)))
  <1>1. queue \in Seq(Seq(Zones)) /\ queue # <<>>
    BY DEF TypeOK, Extend
  <1>2. /\ Len(queue) \in Nat /\ Len(queue) >= 1 /\ DOMAIN queue = 1..Len(queue)
        /\ Head(queue) = queue[1]
    BY <1>1
  <1>3. \A k \in DOMAIN queue : queue[k] \in Seq(Zones) /\ queue[k] # <<>>
    BY <1>1 DEF TypeOK
  <1>4. \A k \in DOMAIN queue : Len(queue[k]) \in Nat /\ Len(queue[k]) >= 1
    <2>1. \A p \in Seq(Zones) : p # <<>> => Len(p) \in Nat /\ Len(p) >= 1
      OBVIOUS
    <2>. QED  BY <1>3, <2>1
  <1>5. PICK o \in Orders(fresh) :
          queue' = Tail(queue) \o [k \in DOMAIN o |-> Append(Head(queue), o[k])]
    BY DEF Extend, Enqueue
  <1>6. fresh \in SUBSET Zones
    BY DEF Fresh, Neighbours
  <1>7. PICK b \in Nat : DOMAIN o = 1..b /\ \A k \in 1..b : o[k] \in Zones
    <2>. HIDE DEF fresh
    <2>. QED  BY <1>5, <1>6, OrderLists
  <1>8. PICK ps : ps = [k \in 1..b |-> Append(queue[1], o[k])]
    OBVIOUS
  <1>9. \A k \in 1..b : /\ Append(queue[1], o[k]) \in Seq(Zones)
                        /\ Len(Append(queue[1], o[k])) = Len(queue[1]) + 1
    <2>1. \A p \in Seq(Zones), n \in Zones : Append(p, n) \in Seq(Zones) /\ Len(Append(p, n)) = Len(p) + 1
      OBVIOUS
    <2>. QED  BY <1>2, <1>3, <1>7, <2>1
  <1>10. ps \in Seq(Seq(Zones)) /\ Len(ps) = b /\ \A k \in 1..b : Len(ps[k]) = Len(queue[1]) + 1
    <2>1. ps \in [1..b -> Seq(Zones)]
      BY <1>8, <1>9
    <2>. QED  BY <1>8, <1>9, <2>1
  <1>11. queue' = Tail(queue) \o ps
    BY <1>2, <1>5, <1>7, <1>8
  <1>12. /\ DOMAIN queue' = 1..(Len(queue) - 1 + Len(ps))
         /\ \A k \in 1..(Len(queue) - 1) : queue'[k] = queue[k + 1]
         /\ \A k \in Len(queue)..(Len(queue) - 1 + Len(ps)) :
               k - Len(queue) + 1 \in DOMAIN ps /\ queue'[k] = ps[k - Len(queue) + 1]
    <2>. DEFINE Paths == Seq(Zones)
    <2>1. queue \in Seq(Paths) /\ queue # <<>> /\ ps \in Seq(Paths)
      BY <1>1, <1>10
    <2>. HIDE DEF Paths
    <2>. QED  BY <1>11, <2>1, QueuePositions
  <1>13. \A k \in Len(queue)..(Len(queue) - 1 + b) : Len(queue'[k]) = Len(queue[1]) + 1
    <2>1. DOMAIN ps = 1..b
      BY <1>8
    <2>. QED  BY <1>10, <1>12, <2>1
  <1>. QED  BY <1>2, <1>4, <1>10, <1>12, <1>13

LEMMA OrderKept ==
    ASSUME TypeOK, Extend, ByLength
    PROVE  /\ ByLength'
           /\ \A k \in DOMAIN queue' : Len(queue'[k]) \in {Len(queue[1]), Len(queue[1]) + 1}
           /\ \A j \in DOMAIN queue : j > 1 => j - 1 \in DOMAIN queue' /\ queue'[j - 1] = queue[j]
  <1>1. PICK a \in Nat : a = Len(queue) /\ a >= 1
    BY ExtendedPositions
  <1>2. PICK b \in Nat :
          /\ DOMAIN queue' = 1..(a - 1 + b) /\ DOMAIN queue = 1..a
          /\ \A k \in 1..(a - 1) : queue'[k] = queue[k + 1]
          /\ \A k \in a..(a - 1 + b) : Len(queue'[k]) = Len(queue[1]) + 1
    BY <1>1, ExtendedPositions
  <1>3. PICK old, new : old = [k \in 1..a |-> Len(queue[k])] /\ new = [k \in 1..(a - 1 + b) |-> Len(queue'[k])]
    OBVIOUS
  <1>4. /\ old \in [1..a -> Nat] /\ \A k \in 1..a : old[k] = Len(queue[k])
        /\ \A k \in 1..(a - 1 + b) : new[k] = Len(queue'[k])
    BY <1>2, <1>3, ExtendedPositions
  <1>5. /\ \A k \in 1..(a - 1) : new[k] = old[k + 1]
        /\ \A k \in a..(a - 1 + b) : new[k] = old[1] + 1
    <2>1. \A k \in 1..(a - 1) : k \in 1..(a - 1 + b) /\ k + 1 \in 1..a
      BY <1>1
    <2>2. \A k \in a..(a - 1 + b) : k \in 1..(a - 1 + b)
      BY <1>1
    <2>3. 1 \in 1..a
      BY <1>1
    <2>. QED  BY <1>2, <1>4, <2>1, <2>2, <2>3
  <1>6. \A j, k \in 1..a : j <= k => old[j] <= old[k] /\ old[k] <= old[j] + 1
    <2>1. \A j, k \in 1..a : j <= k => /\ Len(queue[j]) <= Len(queue[k])
                                      /\ Len(queue[k]) <= Len(queue[j]) + 1
      BY <1>2 DEF ByLength
    <2>. QED  BY ONLY <1>4, <2>1
  <1>7. \A k \in 1..(a - 1) : new[k] \in Nat /\ old[1] <= new[k] /\ new[k] <= old[1] + 1
    <2>1. \A k \in 1..(a - 1) : k + 1 \in 1..a /\ 1 \in 1..a /\ 1 <= k + 1
      BY <1>1
    <2>. QED  BY <1>4, <1>5, <1>6, <2>1
  <1>8. old[1] \in Nat
    BY <1>1, <1>4
  <1>9. \A k \in 1..(a - 1 + b) : k \in 1..(a - 1) \/ k \in a..(a - 1 + b)
    BY <1>1
  <1>10. ASSUME NEW j \in 1..(a - 1 + b), NEW k \in 1..(a - 1 + b), j <= k
         PROVE  new[j] <= new[k] /\ new[k] <= new[j] + 1
    <2>1. CASE j \in 1..(a - 1) /\ k \in 1..(a - 1)
      <3>1. j + 1 \in 1..a /\ k + 1 \in 1..a /\ j + 1 <= k + 1
        BY <1>1, <1>10, <2>1
      <3>. QED  BY <1>5, <1>6, <2>1, <3>1
    <2>2. CASE j \in 1..(a - 1) /\ k \in a..(a - 1 + b)
      BY <1>5, <1>7, <1>8, <2>2
    <2>3. CASE j \in a..(a - 1 + b) /\ k \in a..(a - 1 + b)
      BY <1>5, <1>8, <2>3
    <2>4. CASE j \in a..(a - 1 + b) /\ k \in 1..(a - 1)
      BY <1>1, <1>10, <2>4
    <2>. QED  BY <1>9, <2>1, <2>2, <2>3, <2>4
  <1>11. ByLength'
    <2>1. \A j, k \in 1..(a - 1 + b) : j <= k => /\ Len(queue'[j]) <= Len(queue'[k])
                                                /\ Len(queue'[k]) <= Len(queue'[j]) + 1
      BY ONLY <1>4, <1>10
    <2>. QED  BY <1>2, <2>1 DEF ByLength
  <1>12. \A k \in 1..(a - 1 + b) : new[k] \in {old[1], old[1] + 1}
    BY <1>5, <1>7, <1>8, <1>9
  <1>13. \A k \in DOMAIN queue' : Len(queue'[k]) \in {Len(queue[1]), Len(queue[1]) + 1}
    <2>1. 1 \in 1..a
      BY <1>1
    <2>. QED  BY <1>2, <1>4, <1>12, <2>1
  <1>14. ASSUME NEW j \in DOMAIN queue, j > 1
         PROVE  j - 1 \in DOMAIN queue' /\ queue'[j - 1] = queue[j]
    <2>1. j - 1 \in 1..(a - 1) /\ j - 1 \in 1..(a - 1 + b) /\ (j - 1) + 1 = j
      BY <1>1, <1>2, <1>14
    <2>. QED  BY <1>2, <2>1
  <1>. QED  BY <1>11, <1>13, <1>14

(* An iteration explores the zone at the head. *)
LEMMA ExtendKeepsLevels ==
    ASSUME TypeOK, SearchInv, SearchInv', LevelInv, Extend
    PROVE  LevelInv'
  <1>1. PICK length \in Nat : length = Len(queue[1]) /\ length >= 1
    BY ExtendedPositions
  <1>2. /\ ByLength
        /\ \A n \in Nat \ {0} : n < length => \A z \in Reached(n) : Explored(z)
        /\ \A z \in Reached(length) : Explored(z) \/ WaitingAt(z, length)
    BY <1>1 DEF LevelInv, Extend
  <1>3. /\ ByLength'
        /\ \A k \in DOMAIN queue' : Len(queue'[k]) \in {length, length + 1}
        /\ \A j \in DOMAIN queue : j > 1 => j - 1 \in DOMAIN queue' /\ queue'[j - 1] = queue[j]
    BY <1>1, <1>2, OrderKept
  <1>4. PICK here : here = Last(queue[1])
    OBVIOUS
  <1>5. Head(queue) = queue[1]
    BY DEF TypeOK, Extend
  <1>6. /\ edges' = edges /\ spare' = spare /\ source' = source /\ targets' = targets
        /\ call' = call /\ pending' = pending /\ call = "egress" /\ pending
        /\ here \notin targets /\ visited' = visited \cup Fresh(here)
    BY <1>4, <1>5 DEF Extend, graphVars, callVars, Mark
  <1>7. \A n : Reached(n)' = Reached(n)
    BY <1>6 DEF Reached, IsRoute, Neighbours, HasRoom
  <1>8. \A z : Explored(z) => Explored(z)'
    BY <1>6 DEF Explored, Neighbours, HasRoom
  <1>9. Explored(here)'
    BY <1>6 DEF Explored, Neighbours, HasRoom, Fresh
  <1>10. ASSUME NEW z \in Reached(length), ~Explored(z)' PROVE WaitingAt(z, length)'
    <2>1. PICK k \in DOMAIN queue : Last(queue[k]) = z /\ Len(queue[k]) = length
      BY <1>2, <1>8, <1>10 DEF WaitingAt
    <2>2. k # 1
      BY <1>4, <1>9, <1>10, <2>1
    <2>3. k > 1
      BY <2>2, ExtendedPositions
    <2>4. k - 1 \in DOMAIN queue' /\ queue'[k - 1] = queue[k]
      BY <1>3, <2>3
    <2>. QED  BY <2>1, <2>4 DEF WaitingAt
  <1>. SUFFICES ASSUME queue' # <<>>
                PROVE  \A n \in Nat \ {0} : \A z \in Reached(n) :
                         /\ n < Len(queue'[1]) => Explored(z)'
                         /\ n = Len(queue'[1]) => Explored(z)' \/ WaitingAt(z, n)'
    BY <1>3, <1>7 DEF LevelInv
  <1>11. queue' \in Seq(Seq(Zones)) /\ 1 \in DOMAIN queue'
    <2>1. queue' \in Seq(Seq(Zones))
      BY ExtendedQueue
    <2>. QED  BY <2>1
  <1>12. CASE Len(queue'[1]) = length
    BY <1>2, <1>8, <1>10, <1>12
  <1>13. CASE Len(queue'[1]) = length + 1
    <2>1. \A k \in DOMAIN queue' : Len(queue'[k]) = length + 1
      <3>1. \A k \in DOMAIN queue' : k \in Nat /\ k >= 1
        BY <1>11
      <3>2. \A k \in DOMAIN queue' : Len(queue'[1]) <= Len(queue'[k])
        BY <1>3, <1>11, <3>1 DEF ByLength
      <3>. QED  BY <1>1, <1>3, <1>13, <3>2
    <2>2. \A z \in Reached(length) : Explored(z)'
      BY <1>1, <1>10, <2>1 DEF WaitingAt
    <2>3. \A n \in Nat \ {0} : n < length + 1 => \A z \in Reached(n) : Explored(z)'
      <3>1. \A n \in Nat \ {0} : n < length + 1 => n = length \/ n < length
        OBVIOUS
      <3>. QED  BY <1>2, <1>8, <2>2, <3>1
    <2>4. ASSUME NEW z \in Reached(length + 1), ~Explored(z)' PROVE WaitingAt(z, length + 1)'
      <3>1. PICK y \in Reached(length) : z \in Zones /\ HasRoom(z) /\ z \in Neighbours(y)
        <4>1. length \in Nat \ {0}
          BY <1>1
        <4>2. z \in Reached(length + 1)
          OBVIOUS
        <4>. QED  BY ONLY <4>1, <4>2, ReachedNext
      <3>2. z \in visited'
        BY <1>6, <2>2, <3>1 DEF Explored, Neighbours, HasRoom
      <3>3. Waiting(z)'
        BY <1>6, <2>4, <3>2 DEF SearchInv
      <3>. QED  BY <2>1, <3>3 DEF Waiting, WaitingAt
    <2>. QED  BY <1>13, <2>3, <2>4
  <1>. QED  BY <1>3, <1>11, <1>12, <1>13

LEMMA LevelStep == TypeOK /\ EgressInv /\ EgressInv' /\ LevelInv /\ PathIsShortest /\ [Next]_vars
                     => LevelInv' /\ PathIsShortest'
  <1>. SUFFICES ASSUME TypeOK, EgressInv, EgressInv', LevelInv, PathIsShortest, [Next]_vars
                PROVE  LevelInv' /\ PathIsShortest'
    OBVIOUS
  <1>1. CASE CallAlternative
    BY <1>1 DEF CallAlternative, LevelInv, PathIsShortest
  <1>2. CASE Look
    BY <1>2 DEF Look, callVars, LevelInv, PathIsShortest
  <1>3. CASE ReturnAlternative
    BY <1>3 DEF ReturnAlternative, callVars, LevelInv, PathIsShortest
  <1>4. ASSUME NEW T \in SUBSET Zones, CallEgress(T) PROVE LevelInv' /\ PathIsShortest'
    <2>1. ~pending /\ result = <<>>
      BY <1>4 DEF CallEgress, EgressInv, CallInv
    <2>2. PICK first : first = <<source>>
      OBVIOUS
    <2>3. Len(first) = 1 /\ Last(first) = source
      BY <2>2 DEF Last
    <2>4. CASE source \in T
      <3>1. ~pending' /\ Len(result') = 1
        BY <1>4, <2>1, <2>2, <2>3, <2>4 DEF CallEgress
      <3>. QED  BY <3>1 DEF LevelInv, PathIsShortest
    <2>5. CASE source \notin T
      <3>1. pending' /\ queue' = <<first>> /\ source' = source
        BY <1>4, <2>2, <2>5 DEF CallEgress, FirstPath
      <3>2. DOMAIN queue' = {1} /\ queue'[1] = first
        BY <3>1
      <3>3. ByLength'
        BY <2>3, <3>2 DEF ByLength
      <3>4. \A z : z = source => WaitingAt(z, 1)'
        BY <2>3, <3>2 DEF WaitingAt
      <3>5. \A z \in Reached(1)' : z = source
        BY <3>1, ReachedFirst DEF Reached, IsRoute
      <3>6. LevelInv'
        <4>1. \A n \in Nat \ {0} : ~(n < 1)
          OBVIOUS
        <4>2. \A n \in Nat \ {0} : n = 1 => \A z \in Reached(n)' : WaitingAt(z, n)'
          BY <3>4, <3>5
        <4>3. Len(queue'[1]) = 1
          BY <2>3, <3>2
        <4>. QED  BY <3>3, <4>1, <4>2, <4>3 DEF LevelInv
      <3>. QED  BY <3>1, <3>6 DEF PathIsShortest
    <2>. QED  BY <2>4, <2>5
  <1>5. CASE Arrive
    <2>1. /\ queue \in Seq(Seq(Zones)) /\ queue # <<>> /\ call = "egress" /\ pending
          /\ result' = Head(queue) /\ ~pending'
          /\ edges' = edges /\ spare' = spare /\ source' = source /\ targets' = targets
      BY <1>5 DEF Arrive, TypeOK, graphVars, callVars
    <2>2. Head(queue) = queue[1] /\ queue[1] \in Seq(Zones)
      BY <2>1
    <2>3. Len(queue[1]) \in Nat
      BY <2>2
    <2>4. \A n \in 1..(Len(queue[1]) - 1) : \A z \in Reached(n) : Explored(z)
      BY <2>1, <2>3 DEF LevelInv
    <2>5. \A n \in 1..(Len(queue[1]) - 1) : Reached(n) \cap targets = {}
      BY <2>4 DEF Explored
    <2>6. \A n : Reached(n)' = Reached(n)
      BY <2>1 DEF Reached, IsRoute, Neighbours, HasRoom
    <2>. QED  BY <2>1, <2>2, <2>5, <2>6 DEF LevelInv, PathIsShortest
  <1>6. CASE Extend
    <2>1. LevelInv'
      BY <1>6, ExtendKeepsLevels DEF EgressInv
    <2>2. pending'
      BY <1>6 DEF Extend
    <2>. QED  BY <2>1, <2>2 DEF PathIsShortest
  <1>7. CASE GiveUp
    <2>1. ~pending' /\ result' = <<>>
      BY <1>7 DEF GiveUp, EgressInv, CallInv
    <2>. QED  BY <2>1 DEF LevelInv, PathIsShortest
  <1>8. CASE UNCHANGED vars
    BY <1>8 DEF vars, graphVars, callVars, egressVars, LevelInv, PathIsShortest, ByLength, Reached, IsRoute,
                Explored, WaitingAt, Neighbours, HasRoom
  <1>. QED  BY <1>1, <1>2, <1>3, <1>4, <1>5, <1>6, <1>7, <1>8 DEF Next

(* On every graph, no exit is nearer to the zone asked about than the one   *)
(* the returned path leads to.                                              *)
THEOREM EgressIsShortest == Spec => []PathIsShortest
  <1>1. Init => LevelInv /\ PathIsShortest
    BY DEF Init, LevelInv, PathIsShortest
  <1>. QED  BY <1>1, RoutingTypeCorrect, EgressAlways, LevelStep, PTL DEF Spec

-----------------------------------------------------------------------------
(* The work of a search. *)

(* Every zone marked had one path queued; an iteration takes one away. *)
WorkInv == /\ call = "egress" /\ pending => rounds + Len(queue) = Cardinality(visited)
           /\ call = "none" => ~pending
           /\ rounds <= Cardinality(Zones)

(* Marking fresh zones adds their number to that of the marked ones. *)
LEMMA MarkedGrow ==
    ASSUME TypeOK, NEW new \in SUBSET Zones, new \cap visited = {}
    PROVE  /\ Cardinality(visited) \in Nat /\ Cardinality(new) \in Nat
           /\ Cardinality(visited) <= Cardinality(Zones)
           /\ Cardinality(visited \cup new) = Cardinality(visited) + Cardinality(new)
  <1>1. IsFiniteSet(visited) /\ IsFiniteSet(new) /\ Cardinality(visited) <= Cardinality(Zones)
    BY RoutingAssumption, FS_Subset DEF TypeOK
  <1>2. Cardinality(visited) \in Nat /\ Cardinality(new) \in Nat /\ Cardinality(visited \cap new) = 0
    <2>1. visited \cap new = {}
      OBVIOUS
    <2>. QED  BY <1>1, <2>1, FS_CardinalityType, FS_EmptySet
  <1>3. Cardinality(visited \cup new)
          = Cardinality(visited) + Cardinality(new) - Cardinality(visited \cap new)
    BY <1>1, FS_Union
  <1>. QED  BY <1>1, <1>2, <1>3

LEMMA WorkStep == TypeOK /\ WorkInv /\ [Next]_vars => WorkInv'
  <1>. SUFFICES ASSUME TypeOK, WorkInv, [Next]_vars PROVE WorkInv'
    OBVIOUS
  <1>1. /\ Cardinality(visited) \in Nat /\ Cardinality(visited) <= Cardinality(Zones)
        /\ Cardinality(Zones) \in Nat /\ rounds \in Nat /\ Len(queue) \in Nat
    <2>1. Cardinality(Zones) \in Nat
      BY RoutingAssumption, FS_CardinalityType
    <2>2. {} \in SUBSET Zones /\ {} \cap visited = {}
      OBVIOUS
    <2>3. Cardinality(visited) \in Nat /\ Cardinality(visited) <= Cardinality(Zones)
      BY <2>2, MarkedGrow
    <2>4. rounds \in Nat /\ Len(queue) \in Nat
      BY DEF TypeOK
    <2>. QED  BY <2>1, <2>3, <2>4
  <1>2. CASE CallAlternative \/ Look \/ ReturnAlternative
    BY <1>2 DEF CallAlternative, Look, ReturnAlternative, callVars, egressVars, WorkInv
  <1>3. ASSUME NEW T \in SUBSET Zones, CallEgress(T) PROVE WorkInv'
    <2>1. rounds' = 0 /\ call' = "egress"
      BY <1>3 DEF CallEgress
    <2>2. CASE source \in T
      <3>1. ~pending'
        BY <1>3, <2>2 DEF CallEgress, WorkInv
      <3>. QED  BY <1>1, <2>1, <3>1 DEF WorkInv
    <2>3. CASE source \notin T
      <3>1. Len(queue') = 1 /\ Cardinality(visited') = 1
        <4>1. queue' = <<FirstPath>> /\ visited' = {source}
          BY <1>3, <2>3 DEF CallEgress
        <4>2. Cardinality({source}) = 1
          BY FS_Singleton
        <4>3. Len(<<FirstPath>>) = 1
          OBVIOUS
        <4>. QED  BY <4>1, <4>2, <4>3
      <3>. QED  BY <1>1, <2>1, <3>1 DEF WorkInv
    <2>. QED  BY <2>2, <2>3
  <1>4. CASE Arrive
    <2>1. /\ rounds' = rounds + 1 /\ ~pending' /\ call' = "egress"
          /\ rounds + Len(queue) = Cardinality(visited)
      BY <1>4 DEF Arrive, callVars, WorkInv
    <2>2. Len(queue) >= 1
      BY <1>4 DEF Arrive, TypeOK
    <2>. QED  BY <1>1, <2>1, <2>2 DEF WorkInv
  <1>5. CASE Extend
    <2>. DEFINE new == Fresh(Last(Head(queue)))
    <2>1. /\ rounds' = rounds + 1 /\ call' = "egress"
          /\ rounds + Len(queue) = Cardinality(visited)
          /\ visited' = visited \cup new
      BY <1>5 DEF Extend, Mark, callVars, WorkInv
    <2>2. new \in SUBSET Zones /\ Len(queue') = Len(queue) - 1 + Cardinality(new)
      BY <1>5, ExtendedQueue
    <2>3. new \cap visited = {}
      BY DEF Fresh
    <2>. HIDE DEF new
    <2>4. Cardinality(new) \in Nat /\ Cardinality(visited') = Cardinality(visited) + Cardinality(new)
      BY <2>1, <2>2, <2>3, MarkedGrow
    <2>5. Len(queue) >= 1
      BY <1>5 DEF Extend, TypeOK
    <2>. QED  BY <1>1, <2>1, <2>2, <2>4, <2>5 DEF WorkInv
  <1>6. CASE GiveUp
    BY <1>6 DEF GiveUp, egressVars, callVars, WorkInv
  <1>7. CASE UNCHANGED vars
    BY <1>7 DEF vars, callVars, egressVars, WorkInv
  <1>. QED  BY <1>2, <1>3, <1>4, <1>5, <1>6, <1>7 DEF Next

(* On every graph, with whatever cycles, the search ends after at most one *)
(* iteration for each zone.                                                *)
THEOREM EgressIsBounded == Spec => []WorkIsBounded
  <1>1. Init => WorkInv
    <2>1. Cardinality(Zones) \in Nat
      BY RoutingAssumption, FS_CardinalityType
    <2>. QED  BY <2>1 DEF Init, WorkInv
  <1>2. WorkInv => WorkIsBounded
    BY DEF WorkInv, WorkIsBounded
  <1>. QED  BY <1>1, <1>2, RoutingTypeCorrect, WorkStep, PTL DEF Spec
=============================================================================
