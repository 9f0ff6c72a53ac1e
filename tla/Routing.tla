------------------------------ MODULE Routing ------------------------------
(***************************************************************************)
(* The two route searches of SpatialGraph (src/models.py), which are also  *)
(* written in Cython (src/routing.pyx) and use that version when it was    *)
(* built.                                                                  *)
(*                                                                         *)
(* get_alternative_route looks at the neighbours of a zone for the one     *)
(* with the most spare capacity.  The compiled routine keeps the best so   *)
(* far in a loop, one step per neighbour here; the interpreted one collects*)
(* the candidates and takes max of them.                                   *)
(*                                                                         *)
(* find_optimal_egress_path is a breadth-first search over zones with room,*)
(* the same in both languages; a step is one iteration of its loop.  The   *)
(* edges of a zone are visited in the order they were added, which is any. *)
(*                                                                         *)
(* A name the graph does not know behaves as a zone without edges.  Both   *)
(* searches run without an await, so the graph is fixed during a call.     *)
(***************************************************************************)
EXTENDS Naturals, Sequences, FiniteSets

CONSTANTS
    Zones,      \* zone identifiers
    Graphs,     \* the sets of edges to be searched
    Sources,    \* zones a search may start from
    MaxSpare    \* bound: spare capacity of a zone

ASSUME RoutingAssumption ==
    /\ IsFiniteSet(Zones)
    /\ Graphs \subseteq SUBSET (Zones \X Zones)
    /\ Sources \subseteq Zones
    /\ MaxSpare \in Nat

VARIABLES
    edges,      \* adjacency: the pairs of zones with an edge
    spare,      \* capacity - current_density, 0 where that is not positive
    call,       \* the routine called, if any
    pending,    \* whether it has not returned yet
    source,     \* overloaded_zone or source_zone
    targets,    \* target_zones
    order,      \* the neighbours of the overloaded zone, as iterated
    looked,     \* how many of them the loop has looked at
    best,       \* best_target of the loop: <<>> or <<zone>>
    queue,      \* the paths still to be extended
    visited,    \* the zones some path was queued for
    rounds,     \* iterations of the search so far (auxiliary)
    result      \* what is returned: <<>> for None, <<zone>>, or a path

graphVars == <<edges, spare>>
callVars == <<call, source, targets>>
alternativeVars == <<order, looked, best>>
egressVars == <<queue, visited, rounds>>
vars == <<graphVars, callVars, pending, alternativeVars, egressVars, result>>

HasRoom(z) == spare[z] > 0              \* current_density < capacity
Neighbours(z) == {n \in Zones : <<z, n>> \in edges}

(* The orders in which a set of zones may be iterated. *)
Orders(S) == {o \in [1..Cardinality(S) -> S] : \A z \in S : \E k \in DOMAIN o : o[k] = z}

TypeOK ==
    /\ edges \subseteq Zones \X Zones
    /\ spare \in [Zones -> 0..MaxSpare]
    /\ call \in {"none", "alternative", "egress"}
    /\ pending \in BOOLEAN
    /\ source \in Zones
    /\ targets \subseteq Zones
    /\ order \in Seq(Zones)
    /\ looked \in 0..Len(order)
    /\ best \in Seq(Zones) /\ Len(best) <= 1
    /\ queue \in Seq(Seq(Zones))
    /\ \A k \in DOMAIN queue : queue[k] # <<>>
    /\ visited \subseteq Zones
    /\ rounds \in Nat
    /\ result \in Seq(Zones)

Init ==
    /\ edges \in Graphs
    /\ spare \in [Zones -> 0..MaxSpare]
    /\ call = "none"
    /\ pending = FALSE
    /\ source \in Sources
    /\ targets = {}
    /\ order = <<>>
    /\ looked = 0
    /\ best = <<>>
    /\ queue = <<>>
    /\ visited = {}
    /\ rounds = 0
    /\ result = <<>>

-----------------------------------------------------------------------------
(* get_alternative_route *)

CallAlternative ==
    /\ call = "none"
    /\ call' = "alternative"
    /\ pending' = TRUE
    /\ order' \in Orders(Neighbours(source))
    /\ looked' = 0
    /\ best' = <<>>
    /\ UNCHANGED <<graphVars, source, targets, egressVars, result>>

(* Fault: of equally good neighbours the last is kept. *)
Better_OrEqual(z) == best = <<>> \/ spare[z] >= spare[best[1]]

Better(z) == best = <<>> \/ spare[z] > spare[best[1]]

Look ==
    /\ call = "alternative" /\ pending /\ looked < Len(order)
    /\ LET z == order[looked + 1] IN
         best' = IF HasRoom(z) /\ Better(z) THEN <<z>> ELSE best
    /\ looked' = looked + 1
    /\ UNCHANGED <<graphVars, callVars, pending, order, egressVars, result>>

ReturnAlternative ==
    /\ call = "alternative" /\ pending /\ looked = Len(order)
    /\ pending' = FALSE
    /\ result' = best
    /\ UNCHANGED <<graphVars, callVars, alternativeVars, egressVars>>

(* The interpreted routine: max returns the first of the greatest. *)
Candidates == {k \in DOMAIN order : HasRoom(order[k])}

IsFirstBest(k) ==
    /\ k \in Candidates
    /\ \A j \in Candidates : \/ spare[order[j]] < spare[order[k]]
                             \/ spare[order[j]] = spare[order[k]] /\ k <= j

Interpreted == IF Candidates = {} THEN <<>> ELSE <<order[CHOOSE k \in Candidates : IsFirstBest(k)]>>

-----------------------------------------------------------------------------
(* find_optimal_egress_path *)

(* Fault: the path queued first does not hold the source. *)
FirstPath_Empty == <<>>

FirstPath == <<source>>

CallEgress(T) ==
    /\ call = "none"
    /\ call' = "egress"
    /\ targets' = T
    /\ rounds' = 0
    /\ IF source \in T
         THEN /\ result' = <<source>>
              /\ UNCHANGED <<pending, queue, visited>>
         ELSE /\ pending' = TRUE
              /\ queue' = <<FirstPath>>
              /\ visited' = {source}
              /\ UNCHANGED result
    /\ UNCHANGED <<graphVars, source, alternativeVars>>

(* Faults: the capacity of the next zone is not looked at; a zone without  *)
(* room, the source included, is not left.                                 *)
Fresh_Crowded(z) == {n \in Neighbours(z) : n \notin visited}
Fresh_RoomOfHere(z) == {n \in Neighbours(z) : n \notin visited /\ HasRoom(n) /\ HasRoom(z)}

Fresh(z) == {n \in Neighbours(z) : n \notin visited /\ HasRoom(n)}

Last(path) == path[Len(path)]

(* Faults: a zone is marked when its path is extended, not when queued;    *)
(* new paths go to the front of the queue.                                 *)
Mark_WhenExtended(here, new) == visited' = visited \cup {here}
Enqueue_Front(rest, paths) == queue' = paths \o rest

Mark(here, new) == visited' = visited \cup new
Enqueue(rest, paths) == queue' = rest \o paths

Arrive ==
    /\ call = "egress" /\ pending /\ queue # <<>>
    /\ Last(Head(queue)) \in targets
    /\ pending' = FALSE
    /\ result' = Head(queue)
    /\ rounds' = rounds + 1
    /\ UNCHANGED <<graphVars, callVars, alternativeVars, queue, visited>>

Extend ==
    /\ call = "egress" /\ pending /\ queue # <<>>
    /\ LET path == Head(queue)
           here == Last(path) IN
         /\ here \notin targets
         /\ \E new \in Orders(Fresh(here)) :
              Enqueue(Tail(queue), [k \in DOMAIN new |-> Append(path, new[k])])
         /\ Mark(here, Fresh(here))
    /\ rounds' = rounds + 1
    /\ UNCHANGED <<graphVars, callVars, pending, alternativeVars, result>>

GiveUp ==
    /\ call = "egress" /\ pending /\ queue = <<>>
    /\ pending' = FALSE
    /\ UNCHANGED <<graphVars, callVars, alternativeVars, egressVars, result>>

Next ==
    \/ CallAlternative \/ Look \/ ReturnAlternative
    \/ \E T \in SUBSET Zones : CallEgress(T)
    \/ Arrive \/ Extend \/ GiveUp

Spec == Init /\ [][Next]_vars

-----------------------------------------------------------------------------
(* Properties. *)

(* Whether the extension module was built makes no difference to the zone  *)
(* proposed, also when several are equally good.                           *)
RoutinesAgree == call = "alternative" /\ ~pending => result = Interpreted

(* A route: along edges, and past its first zone only through zones with   *)
(* room, none of them twice.                                               *)
IsRoute(p) ==
    /\ p[1] = source
    /\ \A k \in 1..(Len(p) - 1) : p[k + 1] \in Neighbours(p[k]) /\ HasRoom(p[k + 1])

Simple(p) == \A j, k \in DOMAIN p : p[j] = p[k] => j = k

(* The path returned is a route from the zone asked about to an exit. *)
PathIsSafe ==
    call = "egress" /\ ~pending /\ result # <<>> =>
        IsRoute(result) /\ Simple(result) /\ Last(result) \in targets

(* None is returned only if no exit can be reached: some set of zones      *)
(* holds the zone asked about and no exit, and every edge that leaves it   *)
(* leads to a zone without room.                                           *)
NoneMeansCutOff ==
    call = "egress" /\ ~pending /\ result = <<>> =>
        \E S \in SUBSET Zones :
            /\ source \in S /\ S \cap targets = {}
            /\ \A z \in S : \A n \in Neighbours(z) : HasRoom(n) => n \in S

(* The zones some route of n zones ends at. *)
Reached(n) == {p[n] : p \in {q \in [1..n -> Zones] : IsRoute(q)}}

(* No exit is nearer than the one the returned path leads to: no route     *)
(* with fewer zones ends at one.                                           *)
PathIsShortest ==
    call = "egress" /\ ~pending => \A n \in 1..(Len(result) - 1) : Reached(n) \cap targets = {}

(* However many cycles the graph has, no zone is extended twice. *)
WorkIsBounded == rounds <= Cardinality(Zones)
=============================================================================
