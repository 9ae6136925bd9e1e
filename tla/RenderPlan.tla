----------------------------- MODULE RenderPlan -----------------------------
(***************************************************************************)
(* How buildPlan (src/core/primitives/RenderPlan.cpp) orders the units: it *)
(* counts for each unit the routes from other units it waits for, and      *)
(* takes units that wait for none from a queue until it is empty.  The     *)
(* real-time thread renders the nodes in this order, each mixing what its  *)
(* sources left in their buffers in the same block.                        *)
(*                                                                         *)
(* A route instance is its place in one of the two vectors, so that equal  *)
(* routes count twice.  Channel maps are left out.                         *)
(***************************************************************************)
EXTENDS Project, Integers, Sequences, SequencesExt

CONSTANTS MaxAudio, MaxMidi   \* bounds of the two vectors, for TLC

ASSUME BoundsAssumption == MaxAudio \in Nat /\ MaxMidi \in Nat

VARIABLES
  audioRoutes, midiRoutes,   \* Project::_routes and _midiRoutes
  unitIds,                   \* the units of the project
  stage,
  indegree, queue, order,    \* of topoSort; order is its out
  nodes, outputs             \* of the plan that is returned

vars == <<audioRoutes, midiRoutes, unitIds, stage, indegree, queue, order, nodes, outputs>>

project == <<audioRoutes, midiRoutes, unitIds>>

RoutesOf(kind) == {r \in Routes : r.kind = kind}

Instances == ({"audio"} \X DOMAIN audioRoutes) \cup ({"midi"} \X DOMAIN midiRoutes)

Route(e) == IF e[1] = "audio" THEN audioRoutes[e[2]] ELSE midiRoutes[e[2]]

\* The units some route names, without duplicates.
Named == UNION {Endpoints(Route(e)) : e \in Instances}

\* The dependencies with a unit at both ends.
Internal == {e \in Instances : EXT \notin {Route(e).source, Route(e).target}}

Into(n) == {e \in Internal : Route(e).target = n}

Between(m, n) == {e \in Into(n) : Route(e).source = m}

Ascending(s) == \A i, j \in DOMAIN s : i < j => s[i] < s[j]

Init ==
  /\ audioRoutes \in SeqOf(RoutesOf("audio"), MaxAudio)
  /\ midiRoutes \in SeqOf(RoutesOf("midi"), MaxMidi)
  /\ unitIds \in SUBSET UNION {Endpoints(r) : r \in Routes}
  /\ stage = "count"
  /\ indegree = <<>> /\ queue = <<>> /\ order = <<>>
  /\ nodes = <<>> /\ outputs = {}

\* Mutant: only audio dependencies are counted.
MutWaitsFor(n) == Cardinality({e \in Into(n) : e[1] = "audio"})

WaitsFor(n) == Cardinality(Into(n))

\* The first units of the queue come out of a hash map, in any order.
Count ==
  /\ stage = "count"
  /\ stage' = "sort"
  /\ indegree' = [n \in Named |-> WaitsFor(n)]
  /\ queue' \in SetToSeqs({n \in Named : indegree'[n] = 0})
  /\ UNCHANGED <<project, order, nodes, outputs>>

\* The targets of n whose counter came to zero.
Ready(n, after) == {m \in Named : Between(n, m) # {} /\ after[m] = 0}

\* Mutant: a target is counted down once, however many routes lead to it.
MutTake ==
  /\ stage = "sort" /\ queue # <<>>
  /\ LET n == Head(queue) IN
       /\ order' = Append(order, n)
       /\ indegree' = [m \in Named |-> IF Between(n, m) # {} THEN indegree[m] - 1 ELSE indegree[m]]
       /\ \E s \in SetToSeqs(Ready(n, indegree')) : Ascending(s) /\ queue' = Tail(queue) \o s
  /\ UNCHANGED <<project, stage, nodes, outputs>>

\* The edges of n were entered by ascending ID of their target, one for each route.
Take ==
  /\ stage = "sort" /\ queue # <<>>
  /\ LET n == Head(queue) IN
       /\ order' = Append(order, n)
       /\ indegree' = [m \in Named |-> indegree[m] - Cardinality(Between(n, m))]
       /\ \E s \in SetToSeqs(Ready(n, indegree')) : Ascending(s) /\ queue' = Tail(queue) \o s
  /\ UNCHANGED <<project, stage, nodes, outputs>>

Complete == Len(order) = Cardinality(Named)

\* A cycle, or no unit to render.
ReturnDummy ==
  /\ stage = "sort" /\ queue = <<>>
  /\ ~Complete \/ order = <<>>
  /\ stage' = "dummy"
  /\ UNCHANGED <<project, indegree, queue, order, nodes, outputs>>

\* LOG_FATAL: a route names a unit that is not in the project.
Fail ==
  /\ stage = "sort" /\ queue = <<>>
  /\ Complete /\ order # <<>>
  /\ ~(Named \subseteq unitIds)
  /\ stage' = "fatal"
  /\ UNCHANGED <<project, indegree, queue, order, nodes, outputs>>

\* A node has a dependency for each route to its unit, from a port or from a unit.
\* A unit has one output dependency, however many routes lead from it to ports.
Build ==
  /\ stage = "sort" /\ queue = <<>>
  /\ Complete /\ order # <<>>
  /\ Named \subseteq unitIds
  /\ stage' = "built"
  /\ nodes' = [i \in 1..Len(order) |->
                 [target |-> order[i], deps |-> {e \in Instances : Route(e).target = order[i]}]]
  /\ outputs' = {n \in Named : \E e \in Instances :
                                 e[1] = "audio" /\ Route(e).source = n /\ Route(e).target = EXT}
  /\ UNCHANGED <<project, indegree, queue, order>>

Next == Count \/ Take \/ ReturnDummy \/ Fail \/ Build

Spec == Init /\ [][Next]_vars

(* ------------------------------- properties ------------------------------ *)

TypeOK ==
  /\ audioRoutes \in Seq(Routes) /\ midiRoutes \in Seq(Routes)
  /\ stage \in {"count", "sort", "dummy", "fatal", "built"}
  /\ stage # "count" => indegree \in [Named -> Int]
  /\ queue \in Seq(Named) /\ order \in Seq(Named)
  /\ outputs \subseteq Named

\* A node mixes the buffers of its sources after they were filled in the same block:
\* every unit a node depends on is the target of an earlier node.
SourcesComeFirst ==
  stage = "built" =>
    \A i \in DOMAIN nodes : \A e \in nodes[i].deps :
      Route(e).source # EXT => \E j \in 1..(i - 1) : nodes[j].target = Route(e).source

RouteBag == [r \in Routes |-> Cardinality({e \in Instances : Route(e) = r})]

UnitObjects == {[id |-> n, life |-> 0] : n \in unitIds}

\* The outcome is what the rest of the model takes it to be: a plan with every unit a
\* route names, no unit at all when units wait for each other in a circle, and the end
\* of the process when one is missing; in no order of the hash map anything else.
OutcomeAsSpecified ==
  /\ stage = "fatal" => PlanIsFatal(UnitObjects, RouteBag)
  /\ stage \in {"built", "dummy"} =>
       /\ ~PlanIsFatal(UnitObjects, RouteBag)
       /\ \A i, j \in DOMAIN nodes : nodes[i].target = nodes[j].target => i = j
       /\ {nodes[i].target : i \in DOMAIN nodes} = Ids(BuildPlan(UnitObjects, RouteBag))
=============================================================================
