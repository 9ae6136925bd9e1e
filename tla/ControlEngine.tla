--------------------------- MODULE ControlEngine ---------------------------
(***************************************************************************)
(* The control engine: user interface threads emit actions, the control    *)
(* thread executes them step by step in passes over one list, the          *)
(* real-time callback executes the tasks they send through a bounded ring, *)
(* and finished undoable actions move between the undo list, the redo list *)
(* and the action list (src/core/ControlEngine.cpp, the project actions in *)
(* src/core/Actions/Project, src/core/RtEngine.cpp).                       *)
(*                                                                         *)
(* One step of the control thread is one call of exec() or of              *)
(* checkWaitingCondition(), except that an edit which rebuilds the render  *)
(* plan takes two: the slot of the new plan is chosen in the first, the    *)
(* slot is written and the task is sent in the second, and the real-time   *)
(* thread may run between them.                                            *)
(***************************************************************************)
EXTENDS Project, SequencesExt

CONSTANTS
  ActionIds,      \* names for the action objects that exist at one time
  Edits,          \* the kinds of action the user interface emits
  SwapPlans,      \* the values of swapPlan it puts in a new route
  InitialUnits,   \* number of units of the project that was loaded, IDs 1, 2, ...
  InitialRoutes,  \* its routes
  QueueCapacity,  \* tasks the ring holds: 255, one less than its size
  UndoLimit,      \* 64: longest undo and redo list
  MaxEmits,       \* bound: actions emitted in a behaviour
  MaxInFlight     \* bound: length of the action list at which nothing is emitted

Kinds == {"CreateNewUnit", "DeleteUnit", "AddNewRoute", "UpdateRenderPlan", "Undo", "Redo"}

Undoables == {"CreateNewUnit", "DeleteUnit", "AddNewRoute"}

ASSUME EngineAssumption ==
  /\ ActionIds # {}
  /\ Edits \subseteq Kinds
  /\ SwapPlans \subseteq BOOLEAN
  /\ InitialUnits \in Nat
  /\ InitialRoutes \subseteq Routes
  /\ QueueCapacity \in Nat
  /\ UndoLimit \in Nat \ {0}
  /\ MaxEmits \in Nat
  /\ MaxInFlight \in Nat

VARIABLES
  units,          \* Project::_unitList
  routes,         \* Project::_routes and _midiRoutes
  plan,           \* plan[0] is _renderPlan1, plan[1] is _renderPlan2
  planInWork,     \* Project::_planInWork
  unitIdCounter,  \* Project::_unitIDCounter
  lives,          \* number of unit objects constructed so far
  unitViews,      \* IDs in ProjectView::_unitViewList
  routeViews,     \* ProjectView::_routes and _midiRoutes
  act,            \* the action objects
  actions,        \* _actions
  undoList,       \* _undoList
  redoList,       \* _redoList
  pc,             \* where the control thread is in its pass
  idx,            \* the position of the pass in _actions
  pending,        \* a built plan not yet written to its slot
  rtTasks,        \* RtEngine::_rtTasks, the actions whose task is queued
  rtPhase,        \* where the real-time callback is
  rtPlan,         \* the plan it renders
  emits,          \* actions emitted so far
  fault           \* why the process died

projectVars == <<units, routes, plan, planInWork, unitIdCounter, lives>>
viewVars == <<unitViews, routeViews>>
listVars == <<actions, undoList, redoList>>
rtVars == <<rtTasks, rtPhase, rtPlan>>
vars == <<projectVars, viewVars, act, listVars, pc, idx, pending, rtVars, emits, fault>>

NoRoute == [kind |-> "none", source |-> EXT, target |-> EXT]

NoUnit == [id |-> 0, life |-> 0]

NoPending == [action |-> CHOOSE a \in ActionIds : TRUE, slot |-> 0, plan |-> {}]

\* An action as its constructor leaves it.
NewAction(kind, id, route, swap) ==
  [kind |-> kind, id |-> id, route |-> route, swap |-> swap, step |-> 1,
   direction |-> "Forward", state |-> "Executing", completed |-> FALSE,
   unit |-> NoUnit, saved |-> NoRoutes]

Blank == NewAction("Undo", 0, NoRoute, TRUE)

\* Every action object is owned by one of the three lists.
Owned == ToSet(actions) \cup ToSet(undoList) \cup ToSet(redoList)

Free == ActionIds \ Owned

\* Removed units that a DeleteUnit action keeps for its undo.
Held == {act[a].unit : a \in ActionIds} \ {NoUnit}

AtRest == actions = <<>>

(* ---------------------------- initial state ----------------------------- *)

LoadedUnits == {[id |-> i, life |-> 0] : i \in 1..InitialUnits}

LoadedRoutes == [r \in Routes |-> IF r \in InitialRoutes THEN 1 ELSE 0]

\* A project was loaded and its plan is in work; LoadProject emptied the undo list.
Init ==
  /\ units = LoadedUnits
  /\ routes = LoadedRoutes
  /\ plan = [s \in {0, 1} |-> IF s = 1 THEN BuildPlan(LoadedUnits, LoadedRoutes) ELSE {}]
  /\ planInWork = 1
  /\ unitIdCounter = InitialUnits
  /\ lives = 0
  /\ unitViews = 1..InitialUnits
  /\ routeViews = routes
  /\ act = [a \in ActionIds |-> Blank]
  /\ actions = <<>> /\ undoList = <<>> /\ redoList = <<>>
  /\ pc = "walk" /\ idx = 1 /\ pending = NoPending
  /\ rtTasks = <<>> /\ rtPhase = "tasks" /\ rtPlan = {}
  /\ emits = 0
  /\ fault = "none"

(* --------------------------- the emitting side --------------------------- *)

\* EmitAction: construct the action and append it to the list under the lock.
\* At most MaxEmits actions, and none while MaxInFlight are on the list.
EmitAction(kind, id, route, swap) ==
  /\ fault = "none"
  /\ kind \in Edits
  /\ emits < MaxEmits
  /\ Len(actions) < MaxInFlight
  /\ Free # {}
  /\ LET a == CHOOSE b \in Free : TRUE
     IN /\ act' = [act EXCEPT ![a] = NewAction(kind, id, route, swap)]
        /\ actions' = Append(actions, a)
  /\ emits' = emits + 1
  /\ UNCHANGED <<projectVars, viewVars, undoList, redoList, pc, idx, pending, rtVars, fault>>

\* The user interface offers the units its snapshot shows.
EmitCreateNewUnit == EmitAction("CreateNewUnit", 0, NoRoute, TRUE)

EmitDeleteUnit == \E id \in unitViews : EmitAction("DeleteUnit", id, NoRoute, TRUE)

EmitAddNewRoute ==
  \E r \in {q \in Routes : Endpoints(q) \subseteq unitViews}, swap \in SwapPlans :
    EmitAction("AddNewRoute", 0, r, swap)

EmitOther == \E kind \in {"UpdateRenderPlan", "Undo", "Redo"} : EmitAction(kind, 0, NoRoute, TRUE)

(* ------------------- the control thread: walking the list ---------------- *)

\* The pass has reached action a.
At(a) == fault = "none" /\ pc = "walk" /\ idx <= Len(actions) /\ a = actions[idx]

\* It is to run the given step.
Runs(a, kind, direction, step) ==
  /\ At(a)
  /\ act[a].state = "Executing"
  /\ act[a].kind = kind /\ act[a].direction = direction /\ act[a].step = step

Finish(a) == act' = [act EXCEPT ![a].state = "Finished"]

Abort(a) == act' = [act EXCEPT ![a].state = "Abort"]

StepTwo(a) == act' = [act EXCEPT ![a].step = 2]

\* Mutant: the new plan goes into the slot in work.
MutPreparePlan(a) ==
  IF PlanIsFatal(units', routes')
  THEN /\ fault' = "plan"
       /\ UNCHANGED <<pc, idx, pending>>
  ELSE /\ pending' = [action |-> a, slot |-> planInWork, plan |-> BuildPlan(units', routes')]
       /\ pc' = "publish"
       /\ UNCHANGED <<idx, fault>>

\* prepareSwappablePlan up to the load of _planInWork: the plan is built from
\* the edited project; a route to a missing unit ends the process.
PreparePlan(a) ==
  IF PlanIsFatal(units', routes')
  THEN /\ fault' = "plan"
       /\ UNCHANGED <<pc, idx, pending>>
  ELSE /\ pending' = [action |-> a, slot |-> 1 - planInWork, plan |-> BuildPlan(units', routes')]
       /\ pc' = "publish"
       /\ UNCHANGED <<idx, fault>>

\* Mutant: a ring that refuses its last slot.
MutPublishPlan ==
  /\ fault = "none"
  /\ pc = "publish"
  /\ plan' = [plan EXCEPT ![pending.slot] = pending.plan]
  /\ act' = [act EXCEPT ![pending.action].state = "Waiting", ![pending.action].completed = FALSE]
  /\ rtTasks' = IF Len(rtTasks) + 1 < QueueCapacity THEN Append(rtTasks, pending.action) ELSE rtTasks
  /\ pc' = "walk" /\ idx' = idx + 1
  /\ pending' = NoPending
  /\ UNCHANGED <<units, routes, planInWork, unitIdCounter, lives, viewVars, listVars,
                 rtPhase, rtPlan, emits, fault>>

\* The rest of it: the slot is written, the action waits, its task is pushed.
\* addTask ignores the result of push: a task for which the ring has no room is lost.
PublishPlan ==
  /\ fault = "none"
  /\ pc = "publish"
  /\ plan' = [plan EXCEPT ![pending.slot] = pending.plan]
  /\ act' = [act EXCEPT ![pending.action].state = "Waiting", ![pending.action].completed = FALSE]
  /\ rtTasks' = IF Len(rtTasks) < QueueCapacity THEN Append(rtTasks, pending.action) ELSE rtTasks
  /\ pc' = "walk" /\ idx' = idx + 1
  /\ pending' = NoPending
  /\ UNCHANGED <<units, routes, planInWork, unitIdCounter, lives, viewVars, listVars,
                 rtPhase, rtPlan, emits, fault>>

\* A step that goes on to the next action of the pass.
NextAction == idx' = idx + 1 /\ UNCHANGED <<pc, pending, fault>>

\* Mutant: IDs by the number of units.
MutNextUnitId == Cardinality(units) + 1

\* Project::getNextUnitId
NextUnitId == unitIdCounter + 1

\* CreateNewUnit in one step.  A redo asks for the ID of the first execution.
CreateForward(a) ==
  /\ Runs(a, "CreateNewUnit", "Forward", 1)
  /\ LET id == IF act[a].id = 0 THEN NextUnitId ELSE act[a].id
     IN IF id \in Ids(units)
        THEN Abort(a) /\ UNCHANGED <<units, unitIdCounter, lives, unitViews>>
        ELSE /\ units' = units \cup {[id |-> id, life |-> lives + 1]}
             /\ lives' = lives + 1
             /\ unitIdCounter' = IF unitIdCounter + 1 > id THEN unitIdCounter + 1 ELSE id
             /\ unitViews' = unitViews \cup {id}
             /\ act' = [act EXCEPT ![a].id = id, ![a].state = "Finished"]
  /\ NextAction
  /\ UNCHANGED <<routes, plan, planInWork, routeViews, listVars, rtVars, emits>>

\* Its undo destroys the unit at once, without a word to the real-time thread;
\* removeUnit of an absent ID gives a null pointer that is dereferenced.
CreateBackward(a) ==
  /\ Runs(a, "CreateNewUnit", "Backward", 1)
  /\ IF act[a].id \notin Ids(units)
     THEN /\ fault' = "unit"
          /\ UNCHANGED <<units, unitViews, act, idx, pc, pending>>
     ELSE /\ units' = {u \in units : u.id # act[a].id}
          /\ unitViews' = unitViews \ {act[a].id}
          /\ Finish(a)
          /\ NextAction
  /\ UNCHANGED <<routes, plan, planInWork, unitIdCounter, lives, routeViews, listVars, rtVars, emits>>

\* Mutant: the snapshot is taken of the routes before the change.
MutShowRoutes(kind) ==
  routeViews' = [r \in Routes |-> IF r.kind = kind THEN routes[r] ELSE routeViews[r]]

\* The snapshot of the routes of one kind is replaced.
ShowRoutes(kind) ==
  routeViews' = [r \in Routes |-> IF r.kind = kind THEN routes'[r] ELSE routeViews[r]]

\* DeleteUnit first takes the routes of the unit out of the project and out of
\* the plan.  Only the audio routes of the snapshot are replaced.
DeleteForward1(a) ==
  /\ Runs(a, "DeleteUnit", "Forward", 1)
  /\ IF UnitHaveRoutes(routes, act[a].id)
     THEN /\ routes' = RemoveRoutesForId(routes, act[a].id)
          /\ act' = [act EXCEPT ![a].saved = AddRoutes(@, RoutesToSave(routes, act[a].id))]
          /\ ShowRoutes("audio")
          /\ UNCHANGED units
          /\ PreparePlan(a)
     ELSE StepTwo(a) /\ NextAction /\ UNCHANGED <<units, routes, routeViews>>
  /\ UNCHANGED <<plan, planInWork, unitIdCounter, lives, unitViews, listVars, rtVars, emits>>

\* Then the unit moves from the project into the action, alive.
DeleteForward2(a) ==
  /\ Runs(a, "DeleteUnit", "Forward", 2)
  /\ IF act[a].id \notin unitViews
     THEN Abort(a) /\ UNCHANGED <<units, unitViews>>
     ELSE /\ unitViews' = unitViews \ {act[a].id}
          /\ IF act[a].id \notin Ids(units)
             THEN Abort(a) /\ UNCHANGED units
             ELSE LET u == CHOOSE v \in units : v.id = act[a].id
                  IN /\ units' = units \ {u}
                     /\ act' = [act EXCEPT ![a].unit = u, ![a].state = "Finished"]
  /\ NextAction
  /\ UNCHANGED <<routes, plan, planInWork, unitIdCounter, lives, routeViews, listVars, rtVars, emits>>

\* The undo of a deletion: unit and saved routes return; the saved routes are kept.
DeleteBackward1(a) ==
  /\ Runs(a, "DeleteUnit", "Backward", 1)
  /\ units' = units \cup {act[a].unit}
  /\ unitViews' = unitViews \cup {act[a].id}
  /\ IF act[a].saved = NoRoutes
     THEN /\ act' = [act EXCEPT ![a].unit = NoUnit, ![a].step = 2]
          /\ NextAction
          /\ UNCHANGED <<routes, routeViews>>
     ELSE /\ act' = [act EXCEPT ![a].unit = NoUnit]
          /\ routes' = AddRoutes(routes, act[a].saved)
          /\ ShowRoutes("audio")
          /\ PreparePlan(a)
  /\ UNCHANGED <<plan, planInWork, unitIdCounter, lives, listVars, rtVars, emits>>

DeleteBackward2(a) ==
  /\ Runs(a, "DeleteUnit", "Backward", 2)
  /\ Finish(a)
  /\ NextAction
  /\ UNCHANGED <<projectVars, viewVars, listVars, rtVars, emits>>

\* Both kinds of route: what AddNewAudioRoute and AddNewMidiRoute share.
RebuildOrStepTwo(a) ==
  IF act[a].swap
  THEN PreparePlan(a) /\ UNCHANGED act
  ELSE StepTwo(a) /\ NextAction

RouteForward1(a) ==
  /\ Runs(a, "AddNewRoute", "Forward", 1)
  /\ routes' = [routes EXCEPT ![act[a].route] = @ + 1]
  /\ UNCHANGED units
  /\ RebuildOrStepTwo(a)
  /\ UNCHANGED <<plan, planInWork, unitIdCounter, lives, viewVars, listVars, rtVars, emits>>

RouteBackward1(a) ==
  /\ Runs(a, "AddNewRoute", "Backward", 1)
  /\ UNCHANGED units
  /\ IF routes[act[a].route] = 0
     THEN Abort(a) /\ NextAction /\ UNCHANGED routes
     ELSE routes' = [routes EXCEPT ![act[a].route] = @ - 1] /\ RebuildOrStepTwo(a)
  /\ UNCHANGED <<plan, planInWork, unitIdCounter, lives, viewVars, listVars, rtVars, emits>>

Route2(a) ==
  /\ \E direction \in {"Forward", "Backward"} : Runs(a, "AddNewRoute", direction, 2)
  /\ UNCHANGED routes
  /\ ShowRoutes(act[a].route.kind)
  /\ Finish(a)
  /\ NextAction
  /\ UNCHANGED <<units, plan, planInWork, unitIdCounter, lives, unitViews, listVars, rtVars, emits>>

UpdateRenderPlan1(a) ==
  /\ Runs(a, "UpdateRenderPlan", "Forward", 1)
  /\ UNCHANGED <<units, routes, act>>
  /\ PreparePlan(a)
  /\ UNCHANGED <<plan, planInWork, unitIdCounter, lives, viewVars, listVars, rtVars, emits>>

UpdateRenderPlan2(a) ==
  /\ Runs(a, "UpdateRenderPlan", "Forward", 2)
  /\ Finish(a)
  /\ NextAction
  /\ UNCHANGED <<projectVars, viewVars, listVars, rtVars, emits>>

\* Undoable::undo and redo: the newest finished action returns to the list, to
\* be executed again in the other direction, still in this pass.
Replay(a, b, direction) ==
  /\ act' = [act EXCEPT ![a].state = "Finished", ![b].state = "Executing",
                        ![b].direction = direction, ![b].step = 1]
  /\ actions' = Append(actions, b)

\* Mutant: pop_back is forgotten.
MutUndoKeeps(a) ==
  /\ Runs(a, "Undo", "Forward", 1)
  /\ IF Len(undoList) = 0
     THEN Finish(a) /\ UNCHANGED actions
     ELSE Replay(a, Last(undoList), "Backward")
  /\ NextAction
  /\ UNCHANGED <<projectVars, viewVars, undoList, redoList, rtVars, emits>>

UndoExec(a) ==
  /\ Runs(a, "Undo", "Forward", 1)
  /\ IF Len(undoList) = 0
     THEN Finish(a) /\ UNCHANGED <<actions, undoList>>
     ELSE Replay(a, Last(undoList), "Backward") /\ undoList' = Front(undoList)
  /\ NextAction
  /\ UNCHANGED <<projectVars, viewVars, redoList, rtVars, emits>>

RedoExec(a) ==
  /\ Runs(a, "Redo", "Forward", 1)
  /\ IF Len(redoList) = 0
     THEN Finish(a) /\ UNCHANGED <<actions, redoList>>
     ELSE Replay(a, Last(redoList), "Forward") /\ redoList' = Front(redoList)
  /\ NextAction
  /\ UNCHANGED <<projectVars, viewVars, undoList, rtVars, emits>>

\* Mutant: the flag is not looked at.
MutCheckWaitingCondition(a) ==
  /\ At(a)
  /\ act[a].state = "Waiting"
  /\ act' = [act EXCEPT ![a].step = 2, ![a].state = "Executing"]
  /\ NextAction
  /\ UNCHANGED <<projectVars, viewVars, listVars, rtVars, emits>>

\* checkWaitingCondition of every action that sends a SwapRenderPlan.
CheckWaitingCondition(a) ==
  /\ At(a)
  /\ act[a].state = "Waiting"
  /\ IF act[a].completed
     THEN act' = [act EXCEPT ![a].step = 2, ![a].state = "Executing"]
     ELSE UNCHANGED act
  /\ NextAction
  /\ UNCHANGED <<projectVars, viewVars, listVars, rtVars, emits>>

(* ------------------ the control thread: end of the pass ------------------ *)

EndWalk ==
  /\ fault = "none"
  /\ pc = "walk" /\ idx > Len(actions)
  /\ pc' = "sweep" /\ idx' = 1
  /\ UNCHANGED <<projectVars, viewVars, act, listVars, pending, rtVars, emits, fault>>

Sweeps(a) == fault = "none" /\ pc = "sweep" /\ idx <= Len(actions) /\ a = actions[idx]

\* Mutant: an aborted action stays on the list.
MutSweepKeep(a) ==
  /\ Sweeps(a)
  /\ act[a].state # "Finished"
  /\ NextAction
  /\ UNCHANGED <<projectVars, viewVars, act, listVars, rtVars, emits>>

SweepKeep(a) ==
  /\ Sweeps(a)
  /\ act[a].state \notin {"Finished", "Abort"}
  /\ NextAction
  /\ UNCHANGED <<projectVars, viewVars, act, listVars, rtVars, emits>>

\* Destroyed: what the action still holds goes with it.
SweepErase(a) ==
  /\ Sweeps(a)
  /\ act[a].state = "Abort" \/ (act[a].state = "Finished" /\ act[a].kind \notin Undoables)
  /\ actions' = RemoveAt(actions, idx)
  /\ act' = [act EXCEPT ![a] = Blank]
  /\ UNCHANGED <<projectVars, viewVars, undoList, redoList, pc, idx, pending, rtVars, emits, fault>>

\* push_back onto a full list destroys its oldest action.
Retire(list, a) == Append(IF Len(list) >= UndoLimit THEN Tail(list) ELSE list, a)

Evict(list) == IF Len(list) >= UndoLimit THEN [act EXCEPT ![Head(list)] = Blank] ELSE act

SweepRetire(a) ==
  /\ Sweeps(a)
  /\ act[a].state = "Finished" /\ act[a].kind \in Undoables
  /\ actions' = RemoveAt(actions, idx)
  /\ IF act[a].direction = "Forward"
     THEN undoList' = Retire(undoList, a) /\ act' = Evict(undoList) /\ UNCHANGED redoList
     ELSE redoList' = Retire(redoList, a) /\ act' = Evict(redoList) /\ UNCHANGED undoList
  /\ UNCHANGED <<projectVars, viewVars, pc, idx, pending, rtVars, emits, fault>>

EndPass ==
  /\ fault = "none"
  /\ pc = "sweep" /\ idx > Len(actions)
  /\ pc' = "walk" /\ idx' = 1
  /\ UNCHANGED <<projectVars, viewVars, act, listVars, pending, rtVars, emits, fault>>

(* -------------------------- the real-time thread ------------------------- *)

\* SwapRenderPlan::execRT: _planInWork ^= 1, then completed.
RtExecTask ==
  /\ fault = "none"
  /\ rtPhase = "tasks" /\ Len(rtTasks) > 0
  /\ planInWork' = 1 - planInWork
  /\ act' = [act EXCEPT ![Head(rtTasks)].completed = TRUE]
  /\ rtTasks' = Tail(rtTasks)
  /\ UNCHANGED <<units, routes, plan, unitIdCounter, lives, viewVars, listVars, pc, idx, pending,
                 rtPhase, rtPlan, emits, fault>>

\* The queue is empty: the block renders the plan in work.
RtRender ==
  /\ fault = "none"
  /\ rtPhase = "tasks" /\ Len(rtTasks) = 0
  /\ rtPhase' = "render" /\ rtPlan' = plan[planInWork]
  /\ UNCHANGED <<projectVars, viewVars, act, listVars, pc, idx, pending, rtTasks, emits, fault>>

RtEndBlock ==
  /\ fault = "none"
  /\ rtPhase = "render"
  /\ rtPhase' = "tasks" /\ rtPlan' = {}
  /\ UNCHANGED <<projectVars, viewVars, act, listVars, pc, idx, pending, rtTasks, emits, fault>>

(* ----------------------------- specification ----------------------------- *)

Emit == EmitCreateNewUnit \/ EmitDeleteUnit \/ EmitAddNewRoute \/ EmitOther

Exec(a) ==
  \/ CreateForward(a) \/ CreateBackward(a)
  \/ DeleteForward1(a) \/ DeleteForward2(a) \/ DeleteBackward1(a) \/ DeleteBackward2(a)
  \/ RouteForward1(a) \/ RouteBackward1(a) \/ Route2(a)
  \/ UpdateRenderPlan1(a) \/ UpdateRenderPlan2(a)
  \/ UndoExec(a) \/ RedoExec(a)

ControlStep ==
  \/ \E a \in ActionIds :
       Exec(a) \/ CheckWaitingCondition(a) \/ SweepKeep(a) \/ SweepErase(a) \/ SweepRetire(a)
  \/ PublishPlan
  \/ EndWalk
  \/ EndPass

RtStep == RtExecTask \/ RtRender \/ RtEndBlock

Next == Emit \/ ControlStep \/ RtStep

Spec == Init /\ [][Next]_vars

\* The control thread loops until shutdown and the driver calls back for every
\* block; the user owes nothing.
FairSpec == Spec /\ WF_vars(ControlStep) /\ WF_vars(RtStep)

(* ------------------------------ properties ------------------------------- *)

\* The types of the state.
ActionRecords ==
  [kind : Kinds, id : Nat, route : Routes \cup {NoRoute}, swap : BOOLEAN, step : {1, 2},
   direction : {"Forward", "Backward"}, state : {"Abort", "Executing", "Waiting", "Finished"},
   completed : BOOLEAN, unit : Units, saved : RouteBags]

TypeOK ==
  /\ units \subseteq Units
  /\ routes \in RouteBags
  /\ plan \in [{0, 1} -> SUBSET Units]
  /\ planInWork \in {0, 1}
  /\ unitIdCounter \in Nat
  /\ lives \in Nat
  /\ unitViews \subseteq Nat
  /\ routeViews \in RouteBags
  /\ act \in [ActionIds -> ActionRecords]
  /\ actions \in Seq(ActionIds)
  /\ undoList \in Seq(ActionIds)
  /\ redoList \in Seq(ActionIds)
  /\ pc \in {"walk", "publish", "sweep"}
  /\ idx \in Nat \ {0}
  /\ pending \in [action : ActionIds, slot : {0, 1}, plan : SUBSET Units]
  /\ rtTasks \in Seq(ActionIds)
  /\ rtPhase \in {"tasks", "render"}
  /\ rtPlan \subseteq Units
  /\ emits \in Nat
  /\ fault \in {"none", "plan", "unit"}

\* A unique_ptr owns each action: no object is on two of the three lists, or twice
\* on one.  Undo, redo and the end of a pass move raw pointers between them.
OneOwner ==
  /\ IsInjective(actions) /\ IsInjective(undoList) /\ IsInjective(redoList)
  /\ ToSet(actions) \cap ToSet(undoList) = {}
  /\ ToSet(actions) \cap ToSet(redoList) = {}
  /\ ToSet(undoList) \cap ToSet(redoList) = {}

\* A queued task points into an action object.  That object is on the action list,
\* waiting, not yet told of the completion, and it has no other task in the ring:
\* no pass, undo, redo or eviction may have destroyed or restarted it.
TaskHasItsAction ==
  /\ IsInjective(rtTasks)
  /\ \A a \in ToSet(rtTasks) :
       /\ a \in ToSet(actions)
       /\ act[a].state = "Waiting"
       /\ ~act[a].completed

\* The walk meets no aborted action, the case the code asserts away ("Shouldn't be
\* here"), and no finished one: whoever ended in a pass was swept in that pass.  An
\* action that is between the two halves of its step is where the pass stands.
Live(a) == act[a].state \in {"Executing", "Waiting"}

PassMeetsLiveActions ==
  /\ \A i \in DOMAIN actions : (pc # "sweep" /\ i >= idx) => Live(actions[i])
  /\ \A i \in DOMAIN actions : (pc = "sweep" /\ i < idx) => Live(actions[i])
  /\ pc = "publish" =>
       /\ idx \in DOMAIN actions
       /\ pending.action = actions[idx]
       /\ act[pending.action].state = "Executing"

\* Neither the ring nor the pass reaches an action that is over.
OnlyLiveActions == TaskHasItsAction /\ PassMeetsLiveActions

\* The undo list holds what was done, the redo list what was undone, and neither
\* holds an action that is still under way.
ListsHoldTheirKind ==
  /\ \A a \in ToSet(undoList) : act[a].state = "Finished" /\ act[a].direction = "Forward"
  /\ \A a \in ToSet(redoList) : act[a].state = "Finished" /\ act[a].direction = "Backward"

\* An ID names one unit, counting the removed units that an undo would bring back,
\* and no unit, present, removed or undone, has an ID that createUnit will give out.
UnitIdsAreUnique ==
  /\ \A u, v \in units \cup Held : u.id = v.id => u = v
  /\ \A u \in units \cup Held : u.id <= unitIdCounter
  /\ \A a \in Owned : act[a].kind = "CreateNewUnit" => act[a].id <= unitIdCounter

\* A removed unit has one place: a unit object is never both in the project and in
\* an action, nor in two actions.
UnitHasOnePlace ==
  /\ units \cap Held = {}
  /\ \A a, b \in ActionIds : act[a].unit = act[b].unit /\ act[a].unit # NoUnit => a = b

\* Whatever is undone and redone in whatever order, units are told apart by ID and by owner.
UnitsAreUnique == UnitIdsAreUnique /\ UnitHasOnePlace

\* The real-time thread renders no destroyed unit: not now, nor when it next picks
\* up the plan in work.  And no edit ends the process: buildPlan is never given a
\* route to a missing unit, the undo of a creation finds the unit it destroys.
RtRendersLiveUnits ==
  /\ fault = "none"
  /\ (rtPlan \cup plan[planInWork]) \subseteq (units \cup Held)

\* Whenever the engine has caught up, what is heard is what the routes say.
PlanFollowsRoutes ==
  fault = "none" /\ AtRest => plan[planInWork] = BuildPlan(units, routes)

\* Whenever the engine has caught up, the snapshot shows the units and the audio
\* routes of the project.
ViewsFollowProject ==
  fault = "none" /\ AtRest =>
    /\ unitViews = Ids(units)
    /\ \A r \in Routes : r.kind = "audio" => routeViews[r] = routes[r]

\* Every action leaves the action list, unless the process dies first.
ActionsSettle ==
  \A a \in ActionIds : a \in ToSet(actions) ~> (a \notin ToSet(actions) \/ fault # "none")
=============================================================================
