------------------------------ MODULE Project ------------------------------
(***************************************************************************)
(* The data of a project that the edits change: the audio units, the audio *)
(* and midi routes between them, and the render plan built from both       *)
(* (src/core/Project.cpp, src/core/primitives/RenderPlan.cpp).             *)
(*                                                                         *)
(* A unit is the C++ object, not its ID: [id, life], where life tells two  *)
(* objects apart that carried the same ID at different times (an undone    *)
(* and redone creation).  The route vectors are bags, a function from      *)
(* Routes to the number of copies: the position of a route in its vector   *)
(* changes nothing here.  A plan is the set of unit objects it renders;    *)
(* the order of the nodes is the subject of another module.                *)
(***************************************************************************)
EXTENDS Naturals, FiniteSets

CONSTANTS
  Routes,   \* the routes a user can ask for: [kind, source, target]
  EXT       \* an endpoint that is a port of the sound card, not a unit

ASSUME RoutesAssumption ==
  Routes \subseteq [kind : {"audio", "midi"}, source : Nat \cup {EXT}, target : Nat \cup {EXT}]

ASSUME EXTAssumption == EXT \notin Nat

Units == [id : Nat, life : Nat]

RouteBags == [Routes -> Nat]

NoRoutes == [r \in Routes |-> 0]

\* The unit IDs a route names (its INT endpoints).
Endpoints(r) == {r.source, r.target} \ {EXT}

Present(rs) == {r \in Routes : rs[r] > 0}

\* Project::unitHaveRoutes
UnitHaveRoutes(rs, id) == \E r \in Present(rs) : id \in Endpoints(r)

\* Project::removeRoutesForId
RemoveRoutesForId(rs, id) == [r \in Routes |-> IF id \in Endpoints(r) THEN 0 ELSE rs[r]]

\* Mutant: only the routes from the unit are saved.
MutRoutesToSave(rs, id) == [r \in Routes |-> IF r.source = id THEN rs[r] ELSE 0]

\* What DeleteUnitAction::saveAndRemoveRoutes appends to the saved vectors: a
\* route is pushed once for each of its ends that is the unit.
RoutesToSave(rs, id) ==
  [r \in Routes |-> IF r.source = id /\ r.target = id THEN 2 * rs[r]
                    ELSE IF id \in Endpoints(r) THEN rs[r] ELSE 0]

AddRoutes(rs, more) == [r \in Routes |-> rs[r] + more[r]]

Ids(us) == {u.id : u \in us}

\* buildPlan, 1: every unit some route names.
Targets(rs) == UNION {Endpoints(r) : r \in Present(rs)}

Edges(rs) == {<<r.source, r.target>> : r \in {q \in Present(rs) : EXT \notin {q.source, q.target}}}

\* topoSort finds no order: some units all wait for one another.
Cyclic(rs) ==
  \E S \in SUBSET Targets(rs) :
    S # {} /\ \A n \in S : \E m \in S : <<m, n>> \in Edges(rs)

\* The LOG_FATAL of buildPlan: a route names a unit that is not in the project.
\* A cycle is noticed before any unit is looked up.
PlanIsFatal(us, rs) == ~Cyclic(rs) /\ ~(Targets(rs) \subseteq Ids(us))

\* The units of the plan; a cycle, or no route at all, gives dummyPlan.
BuildPlan(us, rs) == IF Cyclic(rs) THEN {} ELSE {u \in us : u.id \in Targets(rs)}
=============================================================================
