------------------------ MODULE ControlEngineProofs ------------------------
(***************************************************************************)
(* What holds of the control engine for every set of routes and actions,   *)
(* every kind of edit and every bound.                                     *)
(***************************************************************************)
EXTENDS ControlEngine, SequenceLemmas

(* -------------------------------- types --------------------------------- *)

\* Taking routes out of a project, saving them and putting them back gives routes.
LEMMA RouteBagTypes ==
  /\ NoRoutes \in RouteBags
  /\ \A rs \in RouteBags : \A id : /\ RemoveRoutesForId(rs, id) \in RouteBags
                                  /\ RoutesToSave(rs, id) \in RouteBags
  /\ \A rs, more \in RouteBags : AddRoutes(rs, more) \in RouteBags
BY DEF RouteBags, RemoveRoutesForId, RoutesToSave, AddRoutes, NoRoutes

\* A plan renders units of the project.
LEMMA PlanType ==
  ASSUME NEW us, NEW rs
  PROVE  BuildPlan(us, rs) \subseteq us
BY DEF BuildPlan

\* A new action is a well-typed record.
LEMMA NewActionType ==
  ASSUME NEW kind \in Kinds, NEW id \in Nat, NEW route \in Routes \cup {NoRoute}, NEW swap \in BOOLEAN
  PROVE  NewAction(kind, id, route, swap) \in ActionRecords
<1>1. NoUnit \in Units
  BY DEF NoUnit, Units
<1>2. NoRoutes \in RouteBags
  BY DEF RouteBags, NoRoutes
<1> QED
  BY <1>1, <1>2 DEF NewAction, ActionRecords

\* So is an action object that holds nothing.
LEMMA BlankType == Blank \in ActionRecords
BY NewActionType DEF Blank, Kinds

\* The placeholder for a plan under way is well typed.
LEMMA NoPendingType == NoPending \in [action : ActionIds, slot : {0, 1}, plan : SUBSET Units]
BY EngineAssumption DEF NoPending

\* The loaded project is well typed.
LEMMA InitType == Init => TypeOK
<1> SUFFICES ASSUME Init
             PROVE  TypeOK
  OBVIOUS
<1>1. units \subseteq Units
  BY EngineAssumption DEF Init, LoadedUnits, Units
<1>2. LoadedRoutes \in RouteBags
  BY DEF LoadedRoutes, RouteBags
<1>3. plan \in [{0, 1} -> SUBSET Units]
  BY <1>1, PlanType DEF Init
<1>4. act \in [ActionIds -> ActionRecords]
  BY BlankType DEF Init
<1>5. pending \in [action : ActionIds, slot : {0, 1}, plan : SUBSET Units]
  BY NoPendingType DEF Init
<1>6. /\ unitIdCounter \in Nat
      /\ unitViews \subseteq Nat
  BY EngineAssumption DEF Init
<1> QED
  BY <1>1, <1>2, <1>3, <1>4, <1>5, <1>6 DEF Init, TypeOK

\* Emission keeps the types: it appends one new action.
LEMMA EmitActionType ==
  ASSUME TypeOK, NEW kind \in Kinds, NEW id \in Nat, NEW route \in Routes \cup {NoRoute},
         NEW swap \in BOOLEAN, EmitAction(kind, id, route, swap)
  PROVE  TypeOK'
<1>1. PICK a \in ActionIds : /\ act' = [act EXCEPT ![a] = NewAction(kind, id, route, swap)]
                            /\ actions' = Append(actions, a)
  BY DEF EmitAction, Free
<1>2. act' \in [ActionIds -> ActionRecords]
  BY <1>1, NewActionType DEF TypeOK
<1>3. actions' \in Seq(ActionIds)
  BY <1>1 DEF TypeOK
<1>4. emits' \in Nat
  BY DEF EmitAction, TypeOK
<1> QED
  BY <1>2, <1>3, <1>4 DEF EmitAction, TypeOK, projectVars, viewVars, rtVars

\* The four ways the user interface emits keep the types.
LEMMA EmitType ==
  ASSUME TypeOK, Emit
  PROVE  TypeOK'
<1>1. CASE EmitCreateNewUnit
  BY <1>1, EmitActionType DEF EmitCreateNewUnit, Kinds
<1>2. CASE EmitDeleteUnit
  BY <1>2, EmitActionType DEF EmitDeleteUnit, Kinds, TypeOK
<1>3. CASE EmitAddNewRoute
  BY <1>3, EmitActionType, EngineAssumption DEF EmitAddNewRoute, Kinds
<1>4. CASE EmitOther
  BY <1>4, EmitActionType DEF EmitOther, Kinds
<1> QED
  BY <1>1, <1>2, <1>3, <1>4 DEF Emit

\* The half of a step that rebuilds the plan of the edited project.
LEMMA PreparePlanType ==
  ASSUME TypeOK, NEW a \in ActionIds, PreparePlan(a), units' \subseteq Units
  PROVE  /\ pc' \in {"walk", "publish", "sweep"}
         /\ idx' \in Nat \ {0}
         /\ pending' \in [action : ActionIds, slot : {0, 1}, plan : SUBSET Units]
         /\ fault' \in {"none", "plan", "unit"}
<1>1. BuildPlan(units', routes') \subseteq Units
  BY PlanType
<1> QED
  BY <1>1 DEF PreparePlan, TypeOK

\* Going on to the next action of the pass keeps the position positive.
LEMMA NextActionType ==
  ASSUME TypeOK, NextAction
  PROVE  /\ pc' \in {"walk", "publish", "sweep"}
         /\ idx' \in Nat \ {0}
         /\ pending' \in [action : ActionIds, slot : {0, 1}, plan : SUBSET Units]
         /\ fault' \in {"none", "plan", "unit"}
BY DEF NextAction, TypeOK

\* The snapshot of the routes stays a bag of routes.
LEMMA ShowRoutesType ==
  ASSUME TypeOK, routes' \in RouteBags, NEW kind, ShowRoutes(kind)
  PROVE  routeViews' \in RouteBags
BY DEF ShowRoutes, TypeOK, RouteBags

\* What the steps write into an action.
LEMMA ActionUpdateTypes ==
  ASSUME TypeOK, NEW a \in ActionIds
  PROVE  /\ act[a] \in ActionRecords
         /\ \A s \in {"Abort", "Executing", "Waiting", "Finished"} :
              [act EXCEPT ![a].state = s] \in [ActionIds -> ActionRecords]
         /\ \A n \in {1, 2} : [act EXCEPT ![a].step = n] \in [ActionIds -> ActionRecords]
         /\ \A id \in Nat :
              [act EXCEPT ![a].id = id, ![a].state = "Finished"] \in [ActionIds -> ActionRecords]
         /\ \A u \in Units :
              /\ [act EXCEPT ![a].unit = u] \in [ActionIds -> ActionRecords]
              /\ [act EXCEPT ![a].unit = u, ![a].state = "Finished"] \in [ActionIds -> ActionRecords]
              /\ [act EXCEPT ![a].unit = u, ![a].step = 2] \in [ActionIds -> ActionRecords]
         /\ \A rs \in RouteBags : [act EXCEPT ![a].saved = rs] \in [ActionIds -> ActionRecords]
         /\ [act EXCEPT ![a].step = 2, ![a].state = "Executing"] \in [ActionIds -> ActionRecords]
         /\ [act EXCEPT ![a].state = "Waiting", ![a].completed = FALSE] \in [ActionIds -> ActionRecords]
         /\ [act EXCEPT ![a].completed = TRUE] \in [ActionIds -> ActionRecords]
         /\ [act EXCEPT ![a] = Blank] \in [ActionIds -> ActionRecords]
<1>1. act \in [ActionIds -> ActionRecords]
  BY DEF TypeOK
<1>2. Blank \in ActionRecords
  BY BlankType
<1> QED
  BY <1>1, <1>2 DEF ActionRecords

\* Finished, aborted or sent to its second step, an action keeps its type.
LEMMA OutcomeTypes ==
  ASSUME TypeOK, NEW a \in ActionIds, Finish(a) \/ Abort(a) \/ StepTwo(a)
  PROVE  act' \in [ActionIds -> ActionRecords]
<1>1. CASE Finish(a)
  BY <1>1, ActionUpdateTypes DEF Finish
<1>2. CASE Abort(a)
  BY <1>2, ActionUpdateTypes DEF Abort
<1>3. CASE StepTwo(a)
  BY <1>3, ActionUpdateTypes DEF StepTwo
<1> QED
  BY <1>1, <1>2, <1>3

\* Creating a unit, and undoing that, keep the types.
LEMMA CreateType ==
  ASSUME TypeOK, NEW a \in ActionIds, CreateForward(a) \/ CreateBackward(a)
  PROVE  TypeOK'
<1>1. CASE CreateForward(a)
  <2> DEFINE id == IF act[a].id = 0 THEN NextUnitId ELSE act[a].id
  <2>1. id \in Nat
    BY DEF TypeOK, NextUnitId, ActionRecords
  <2>2. /\ \/ Abort(a) /\ UNCHANGED <<units, unitIdCounter, lives, unitViews>>
           \/ /\ units' = units \cup {[id |-> id, life |-> lives + 1]}
              /\ lives' = lives + 1
              /\ unitIdCounter' = IF unitIdCounter + 1 > id THEN unitIdCounter + 1 ELSE id
              /\ unitViews' = unitViews \cup {id}
              /\ act' = [act EXCEPT ![a].id = id, ![a].state = "Finished"]
        /\ NextAction
        /\ UNCHANGED <<routes, plan, planInWork, routeViews, listVars, rtVars, emits>>
    BY <1>1, Zenon DEF CreateForward
  <2> HIDE DEF id
  <2>3. units' \subseteq Units /\ lives' \in Nat /\ unitIdCounter' \in Nat /\ unitViews' \subseteq Nat
    BY <2>1, <2>2 DEF TypeOK, Units
  <2>4. act' \in [ActionIds -> ActionRecords]
    <3>1. [act EXCEPT ![a].id = id, ![a].state = "Finished"] \in [ActionIds -> ActionRecords]
      BY <2>1, ActionUpdateTypes
    <3> QED
      BY <2>2, <3>1, OutcomeTypes
  <2> QED
    BY <2>2, <2>3, <2>4, NextActionType DEF TypeOK, listVars, rtVars
<1>2. CASE CreateBackward(a)
  <2>1. units' \subseteq Units /\ unitViews' \subseteq Nat
    BY <1>2 DEF CreateBackward, TypeOK
  <2>2. act' \in [ActionIds -> ActionRecords]
    BY <1>2, OutcomeTypes DEF CreateBackward, TypeOK
  <2>3. /\ pc' \in {"walk", "publish", "sweep"}
        /\ idx' \in Nat \ {0}
        /\ pending' \in [action : ActionIds, slot : {0, 1}, plan : SUBSET Units]
        /\ fault' \in {"none", "plan", "unit"}
    BY <1>2, NextActionType DEF CreateBackward, TypeOK
  <2> QED
    BY <1>2, <2>1, <2>2, <2>3 DEF CreateBackward, TypeOK, listVars, rtVars
<1> QED
  BY <1>1, <1>2

\* So do the four steps of a deletion.
LEMMA DeleteType ==
  ASSUME TypeOK, NEW a \in ActionIds,
         DeleteForward1(a) \/ DeleteForward2(a) \/ DeleteBackward1(a) \/ DeleteBackward2(a)
  PROVE  TypeOK'
<1> USE DEF listVars, rtVars
<1>0. act[a] \in ActionRecords
  BY DEF TypeOK
<1>1. CASE DeleteForward1(a)
  <2>1. CASE UnitHaveRoutes(routes, act[a].id)
    <3> DEFINE saved == AddRoutes(act[a].saved, RoutesToSave(routes, act[a].id))
    <3>1. saved \in RouteBags
      BY <1>0, RouteBagTypes DEF TypeOK, ActionRecords
    <3>2. act' = [act EXCEPT ![a].saved = saved]
      BY <1>1, <2>1 DEF DeleteForward1
    <3> HIDE DEF saved
    <3>3. act' \in [ActionIds -> ActionRecords]
      BY <3>1, <3>2, ActionUpdateTypes
    <3>4. routes' \in RouteBags
      BY <1>1, <2>1, RouteBagTypes DEF DeleteForward1, TypeOK
    <3>5. routeViews' \in RouteBags
      BY <1>1, <2>1, <3>4, ShowRoutesType DEF DeleteForward1
    <3>6. units' \subseteq Units
      BY <1>1, <2>1 DEF DeleteForward1, TypeOK
    <3> QED
      BY <1>1, <2>1, <3>3, <3>4, <3>5, <3>6, PreparePlanType DEF DeleteForward1, TypeOK
  <2>2. CASE ~UnitHaveRoutes(routes, act[a].id)
    <3>1. act' \in [ActionIds -> ActionRecords]
      BY <1>1, <2>2, OutcomeTypes DEF DeleteForward1
    <3> QED
      BY <1>1, <2>2, <3>1, NextActionType DEF DeleteForward1, TypeOK
  <2> QED
    BY <2>1, <2>2
<1>2. CASE DeleteForward2(a)
  <2>1. CASE act[a].id \in unitViews /\ act[a].id \in Ids(units)
    <3>1. PICK u \in units : units' = units \ {u} /\ act' = [act EXCEPT ![a].unit = u, ![a].state = "Finished"]
      BY <1>2, <2>1 DEF DeleteForward2, Ids
    <3>2. act' \in [ActionIds -> ActionRecords]
      BY <3>1, ActionUpdateTypes DEF TypeOK
    <3> QED
      BY <1>2, <2>1, <3>1, <3>2, NextActionType DEF DeleteForward2, TypeOK
  <2>2. CASE ~(act[a].id \in unitViews /\ act[a].id \in Ids(units))
    <3>1. Abort(a) /\ UNCHANGED units
      BY <1>2, <2>2 DEF DeleteForward2
    <3>2. act' \in [ActionIds -> ActionRecords]
      BY <3>1, OutcomeTypes
    <3>3. unitViews' \subseteq Nat
      BY <1>2 DEF DeleteForward2, TypeOK
    <3> QED
      BY <1>2, <3>1, <3>2, <3>3, NextActionType DEF DeleteForward2, TypeOK
  <2> QED
    BY <2>1, <2>2
<1>3. CASE DeleteBackward1(a)
  <2>1. units' \subseteq Units /\ unitViews' \subseteq Nat
    BY <1>0, <1>3 DEF DeleteBackward1, TypeOK, ActionRecords
  <2>2. NoUnit \in Units
    BY DEF NoUnit, Units
  <2>3. act' \in [ActionIds -> ActionRecords]
    <3>1. /\ [act EXCEPT ![a].unit = NoUnit] \in [ActionIds -> ActionRecords]
          /\ [act EXCEPT ![a].unit = NoUnit, ![a].step = 2] \in [ActionIds -> ActionRecords]
      BY <2>2, ActionUpdateTypes
    <3> QED
      BY <1>3, <3>1 DEF DeleteBackward1
  <2>4. CASE act[a].saved = NoRoutes
    BY <1>3, <2>1, <2>3, <2>4, NextActionType DEF DeleteBackward1, TypeOK
  <2>5. CASE act[a].saved # NoRoutes
    <3>1. routes' \in RouteBags
      BY <1>0, <1>3, <2>5, RouteBagTypes DEF DeleteBackward1, TypeOK, ActionRecords
    <3>2. routeViews' \in RouteBags
      BY <1>3, <2>5, <3>1, ShowRoutesType DEF DeleteBackward1
    <3> QED
      BY <1>3, <2>1, <2>3, <2>5, <3>1, <3>2, PreparePlanType DEF DeleteBackward1, TypeOK
  <2> QED
    BY <2>4, <2>5
<1>4. CASE DeleteBackward2(a)
  <2>1. act' \in [ActionIds -> ActionRecords]
    BY <1>4, OutcomeTypes DEF DeleteBackward2
  <2> QED
    BY <1>4, <2>1, NextActionType DEF DeleteBackward2, TypeOK, projectVars, viewVars
<1> QED
  BY <1>1, <1>2, <1>3, <1>4

\* So do the steps of a route; a count is taken down only when it is above zero.
LEMMA RouteType ==
  ASSUME TypeOK, NEW a \in ActionIds, RouteForward1(a) \/ RouteBackward1(a) \/ Route2(a)
  PROVE  TypeOK'
<1> USE DEF listVars, viewVars, rtVars
<1>1. CASE RouteForward1(a) \/ RouteBackward1(a)
  <2>1. routes' \in RouteBags
    <3>1. routes \in [Routes -> Nat]
      BY DEF TypeOK, RouteBags
    <3>2. \/ routes' = [routes EXCEPT ![act[a].route] = @ + 1]
          \/ routes' = routes
          \/ routes[act[a].route] # 0 /\ routes' = [routes EXCEPT ![act[a].route] = @ - 1]
      BY <1>1 DEF RouteForward1, RouteBackward1
    <3> QED
      BY <3>1, <3>2 DEF RouteBags
  <2>2. act' \in [ActionIds -> ActionRecords]
    BY <1>1, OutcomeTypes DEF RouteForward1, RouteBackward1, RebuildOrStepTwo, TypeOK
  <2>3. units' \subseteq Units
    BY <1>1 DEF RouteForward1, RouteBackward1, TypeOK
  <2>4. PreparePlan(a) \/ NextAction
    BY <1>1 DEF RouteForward1, RouteBackward1, RebuildOrStepTwo
  <2>5. /\ pc' \in {"walk", "publish", "sweep"}
        /\ idx' \in Nat \ {0}
        /\ pending' \in [action : ActionIds, slot : {0, 1}, plan : SUBSET Units]
        /\ fault' \in {"none", "plan", "unit"}
    BY <2>3, <2>4, PreparePlanType, NextActionType
  <2> QED
    BY <1>1, <2>1, <2>2, <2>3, <2>5 DEF RouteForward1, RouteBackward1, TypeOK
<1>2. CASE Route2(a)
  <2>1. routes' \in RouteBags
    BY <1>2 DEF Route2, TypeOK
  <2>2. routeViews' \in RouteBags
    BY <1>2, <2>1, ShowRoutesType DEF Route2
  <2>3. act' \in [ActionIds -> ActionRecords]
    BY <1>2, OutcomeTypes DEF Route2
  <2> QED
    BY <1>2, <2>1, <2>2, <2>3, NextActionType DEF Route2, TypeOK
<1> QED
  BY <1>1, <1>2

\* So do the two steps of an update of the plan.
LEMMA UpdateRenderPlanType ==
  ASSUME TypeOK, NEW a \in ActionIds, UpdateRenderPlan1(a) \/ UpdateRenderPlan2(a)
  PROVE  TypeOK'
<1> USE DEF listVars, viewVars, rtVars, projectVars
<1>1. CASE UpdateRenderPlan1(a)
  <2>1. units' \subseteq Units
    BY <1>1 DEF UpdateRenderPlan1, TypeOK
  <2> QED
    BY <1>1, <2>1, PreparePlanType DEF UpdateRenderPlan1, TypeOK
<1>2. CASE UpdateRenderPlan2(a)
  <2>1. act' \in [ActionIds -> ActionRecords]
    BY <1>2, OutcomeTypes DEF UpdateRenderPlan2
  <2> QED
    BY <1>2, <2>1, NextActionType DEF UpdateRenderPlan2, TypeOK
<1> QED
  BY <1>1, <1>2

\* An action that returns to the list is executed from its first step.
LEMMA ReplayType ==
  ASSUME TypeOK, NEW a \in ActionIds, NEW b \in ActionIds,
         NEW direction \in {"Forward", "Backward"}, Replay(a, b, direction)
  PROVE  /\ act' \in [ActionIds -> ActionRecords]
         /\ actions' \in Seq(ActionIds)
<1>1. act \in [ActionIds -> ActionRecords] /\ actions \in Seq(ActionIds)
  BY DEF TypeOK
<1>2. actions' \in Seq(ActionIds)
  BY <1>1 DEF Replay
<1>3. [act EXCEPT ![a].state = "Finished"] \in [ActionIds -> ActionRecords]
  BY ActionUpdateTypes
<1>4. \A f \in [ActionIds -> ActionRecords] :
        [f EXCEPT ![b].state = "Executing", ![b].direction = direction, ![b].step = 1]
          \in [ActionIds -> ActionRecords]
  <2> SUFFICES ASSUME NEW f \in [ActionIds -> ActionRecords]
               PROVE  [f EXCEPT ![b].state = "Executing", ![b].direction = direction, ![b].step = 1]
                        \in [ActionIds -> ActionRecords]
    OBVIOUS
  <2>1. f[b] \in ActionRecords
    OBVIOUS
  <2> DEFINE g == [f[b] EXCEPT !.state = "Executing", !.direction = direction, !.step = 1]
  <2>2. g \in ActionRecords
    BY <2>1 DEF ActionRecords
  <2>3. [f EXCEPT ![b].state = "Executing", ![b].direction = direction, ![b].step = 1] = [f EXCEPT ![b] = g]
    BY <2>1 DEF ActionRecords
  <2> QED
    BY <2>2, <2>3
<1> QED
  BY <1>2, <1>3, <1>4 DEF Replay

\* Undo and redo move actions that are actions, and restart them.
LEMMA UndoRedoType ==
  ASSUME TypeOK, NEW a \in ActionIds, UndoExec(a) \/ RedoExec(a)
  PROVE  TypeOK'
<1> USE DEF viewVars, rtVars, projectVars
<1>1. CASE UndoExec(a)
  <2>1. CASE Len(undoList) = 0
    <3>1. act' \in [ActionIds -> ActionRecords]
      BY <1>1, <2>1, OutcomeTypes DEF UndoExec
    <3> QED
      BY <1>1, <2>1, <3>1, NextActionType DEF UndoExec, TypeOK
  <2>2. CASE Len(undoList) # 0
    <3>1. Last(undoList) \in ActionIds /\ Front(undoList) \in Seq(ActionIds)
      BY <2>2, FrontLast DEF TypeOK
    <3>2. act' \in [ActionIds -> ActionRecords] /\ actions' \in Seq(ActionIds)
      BY <1>1, <2>2, <3>1, ReplayType DEF UndoExec
    <3> QED
      BY <1>1, <2>2, <3>1, <3>2, NextActionType DEF UndoExec, TypeOK
  <2> QED
    BY <2>1, <2>2
<1>2. CASE RedoExec(a)
  <2>1. CASE Len(redoList) = 0
    <3>1. act' \in [ActionIds -> ActionRecords]
      BY <1>2, <2>1, OutcomeTypes DEF RedoExec
    <3> QED
      BY <1>2, <2>1, <3>1, NextActionType DEF RedoExec, TypeOK
  <2>2. CASE Len(redoList) # 0
    <3>1. Last(redoList) \in ActionIds /\ Front(redoList) \in Seq(ActionIds)
      BY <2>2, FrontLast DEF TypeOK
    <3>2. act' \in [ActionIds -> ActionRecords] /\ actions' \in Seq(ActionIds)
      BY <1>2, <2>2, <3>1, ReplayType DEF RedoExec
    <3> QED
      BY <1>2, <2>2, <3>1, <3>2, NextActionType DEF RedoExec, TypeOK
  <2> QED
    BY <2>1, <2>2
<1> QED
  BY <1>1, <1>2

\* The two ends of a pass and the publication of a plan keep the types.
LEMMA PassType ==
  ASSUME TypeOK, PublishPlan \/ EndWalk \/ EndPass
  PROVE  TypeOK'
<1> USE DEF listVars, viewVars, rtVars, projectVars
<1>1. CASE PublishPlan
  <2>1. pending.action \in ActionIds /\ pending.slot \in {0, 1} /\ pending.plan \subseteq Units
    BY DEF TypeOK
  <2>2. act' \in [ActionIds -> ActionRecords]
    BY <1>1, <2>1, ActionUpdateTypes DEF PublishPlan
  <2>3. rtTasks' \in Seq(ActionIds)
    BY <1>1, <2>1 DEF PublishPlan, TypeOK
  <2>4. plan' \in [{0, 1} -> SUBSET Units]
    BY <1>1, <2>1 DEF PublishPlan, TypeOK
  <2> QED
    BY <1>1, <2>2, <2>3, <2>4, NoPendingType DEF PublishPlan, TypeOK
<1>2. CASE EndWalk
  BY <1>2 DEF EndWalk, TypeOK
<1>3. CASE EndPass
  BY <1>3 DEF EndPass, TypeOK
<1> QED
  BY <1>1, <1>2, <1>3

\* Polling a waiting action keeps the types.
LEMMA CheckWaitingType ==
  ASSUME TypeOK, NEW a \in ActionIds, CheckWaitingCondition(a)
  PROVE  TypeOK'
<1>1. act' \in [ActionIds -> ActionRecords]
  <2>1. /\ [act EXCEPT ![a].step = 2, ![a].state = "Executing"] \in [ActionIds -> ActionRecords]
        /\ act \in [ActionIds -> ActionRecords]
    BY ActionUpdateTypes DEF TypeOK
  <2> QED
    BY <2>1 DEF CheckWaitingCondition
<1> QED
  BY <1>1, NextActionType DEF CheckWaitingCondition, TypeOK, listVars, viewVars, rtVars, projectVars

\* A finished action moves to a full or not yet full list.
LEMMA RetireType ==
  ASSUME TypeOK, NEW a \in ActionIds, NEW list \in Seq(ActionIds)
  PROVE  /\ Retire(list, a) \in Seq(ActionIds)
         /\ Evict(list) \in [ActionIds -> ActionRecords]
<1>1. CASE Len(list) >= UndoLimit
  <2>1. Len(list) # 0 /\ list # <<>>
    BY <1>1, EngineAssumption
  <2>2. Head(list) \in ActionIds /\ Tail(list) \in Seq(ActionIds)
    BY <2>1, HeadTailProperties
  <2> QED
    <3>1. Append(Tail(list), a) \in Seq(ActionIds)
      BY <2>2
    <3>2. [act EXCEPT ![Head(list)] = Blank] \in [ActionIds -> ActionRecords]
      BY <2>2, ActionUpdateTypes
    <3> QED
      BY <1>1, <3>1, <3>2, Zenon DEF Retire, Evict
<1>2. CASE ~(Len(list) >= UndoLimit)
  BY <1>2 DEF Retire, Evict, TypeOK
<1> QED
  BY <1>1, <1>2

\* The sweep keeps the types of the lists and of the actions it blanks.
LEMMA SweepType ==
  ASSUME TypeOK, NEW a \in ActionIds, SweepKeep(a) \/ SweepErase(a) \/ SweepRetire(a)
  PROVE  TypeOK'
<1> USE DEF listVars, viewVars, rtVars, projectVars
<1>1. CASE SweepKeep(a)
  BY <1>1, NextActionType DEF SweepKeep, TypeOK
<1>2. ASSUME Sweeps(a)
      PROVE  RemoveAt(actions, idx) \in Seq(ActionIds)
  BY <1>2, RemoveAtElements DEF Sweeps, TypeOK
<1>3. CASE SweepErase(a)
  <2>1. act' \in [ActionIds -> ActionRecords]
    BY <1>3, ActionUpdateTypes DEF SweepErase
  <2> QED
    BY <1>2, <1>3, <2>1 DEF SweepErase, TypeOK
<1>4. CASE SweepRetire(a)
  <2>1. /\ act' \in [ActionIds -> ActionRecords]
        /\ undoList' \in Seq(ActionIds)
        /\ redoList' \in Seq(ActionIds)
    BY <1>4, RetireType DEF SweepRetire, TypeOK
  <2> QED
    BY <1>2, <1>4, <2>1 DEF SweepRetire, TypeOK
<1> QED
  BY <1>1, <1>3, <1>4

\* The real-time thread keeps the types.
LEMMA RtType ==
  ASSUME TypeOK, RtStep
  PROVE  TypeOK'
<1> USE DEF listVars, viewVars, rtVars, projectVars
<1>1. CASE RtExecTask
  <2>1. Len(rtTasks) # 0 /\ rtTasks # <<>>
    BY <1>1 DEF RtExecTask, TypeOK
  <2>2. Head(rtTasks) \in ActionIds /\ Tail(rtTasks) \in Seq(ActionIds)
    BY <2>1, HeadTailProperties DEF TypeOK
  <2>3. act' \in [ActionIds -> ActionRecords]
    BY <1>1, <2>2, ActionUpdateTypes DEF RtExecTask
  <2>4. planInWork' \in {0, 1}
    BY <1>1 DEF RtExecTask, TypeOK
  <2> QED
    BY <1>1, <2>2, <2>3, <2>4 DEF RtExecTask, TypeOK
<1>2. CASE RtRender
  BY <1>2 DEF RtRender, TypeOK
<1>3. CASE RtEndBlock
  BY <1>3 DEF RtEndBlock, TypeOK
<1> QED
  BY <1>1, <1>2, <1>3 DEF RtStep

\* Every step keeps the types.
LEMMA NextType == TypeOK /\ [Next]_vars => TypeOK'
<1> SUFFICES ASSUME TypeOK, [Next]_vars
             PROVE  TypeOK'
  OBVIOUS
<1>1. CASE Emit
  BY <1>1, EmitType
<1>2. CASE ControlStep
  <2>1. ASSUME NEW a \in ActionIds, Exec(a)
        PROVE  TypeOK'
    BY <2>1, CreateType, DeleteType, RouteType, UpdateRenderPlanType, UndoRedoType DEF Exec
  <2> QED
    BY <1>2, <2>1, CheckWaitingType, SweepType, PassType DEF ControlStep
<1>3. CASE RtStep
  BY <1>3, RtType
<1>4. CASE UNCHANGED vars
  BY <1>4 DEF vars, projectVars, viewVars, listVars, rtVars, TypeOK
<1> QED
  BY <1>1, <1>2, <1>3, <1>4 DEF Next

\* The state of the engine is always of its type.
THEOREM TypeCorrect == Spec => []TypeOK
BY InitType, NextType, PTL DEF Spec

(* ------------------------------ ownership ------------------------------- *)

(***************************************************************************)
(* The inductive invariant: who owns an action, which of them a task in    *)
(* the ring points to, what the pass has left behind and what the undo and *)
(* redo lists hold depend on one another.  An undo may move an action only *)
(* because no task points to it; a task points only to a waiting action    *)
(* because the pass restarts none before its completion; and so on.        *)
(***************************************************************************)
Inv ==
  /\ TypeOK
  /\ OneOwner
  /\ TaskHasItsAction
  /\ PassMeetsLiveActions
  /\ ListsHoldTheirKind

\* The action list by its positions, and where the pass stands.
LEMMA Positions ==
  ASSUME TypeOK
  PROVE  /\ DOMAIN actions = 1..Len(actions)
         /\ Len(actions) \in Nat
         /\ \A i \in 1..Len(actions) : actions[i] \in ActionIds /\ actions[i] \in ToSet(actions)
         /\ \A a \in ToSet(actions) : \E i \in 1..Len(actions) : actions[i] = a
         /\ ToSet(actions) \subseteq ActionIds
         /\ ToSet(undoList) \subseteq ActionIds
         /\ ToSet(redoList) \subseteq ActionIds
         /\ ToSet(rtTasks) \subseteq ActionIds
BY ElementsAtPositions DEF TypeOK

\* The invariant holds of the loaded project, whose lists are empty.
LEMMA InitInv == Init => Inv
<1> SUFFICES ASSUME Init
             PROVE  Inv
  OBVIOUS
<1>1. TypeOK
  BY InitType
<1>2. actions = <<>> /\ undoList = <<>> /\ redoList = <<>> /\ rtTasks = <<>> /\ pc = "walk"
  BY DEF Init
<1>3. ToSet(<<>>) = {} /\ IsInjective(<<>>)
  BY DEF ToSet, IsInjective
<1>4. DOMAIN actions = {}
  BY <1>2
<1> QED
  BY <1>1, <1>2, <1>3, <1>4
  DEF Inv, OneOwner, TaskHasItsAction, PassMeetsLiveActions, ListsHoldTheirKind

\* The step of an action that no task points to: nothing else changes hands.
LEMMA StepOfOne ==
  ASSUME Inv, TypeOK', NEW a \in ActionIds, At(a), a \notin ToSet(rtTasks),
         \A b \in ActionIds : b # a => act'[b] = act[b],
         UNCHANGED <<actions, undoList, redoList, rtTasks>>,
         \/ pc' = "walk" /\ idx' = idx + 1
         \/ pc' \in {"walk", "publish"} /\ idx' = idx /\ act'[a].state = "Executing",
         pc' = "publish" => pending'.action = a
  PROVE  Inv'
<1>1. idx \in 1..Len(actions) /\ a = actions[idx] /\ pc = "walk"
  BY Positions DEF At, Inv, TypeOK
<1>2. \A i \in 1..Len(actions) : i # idx => actions[i] # a
  BY <1>1, Positions DEF Inv, OneOwner, IsInjective
<1>3. OneOwner'
  BY DEF Inv, OneOwner
<1>4. TaskHasItsAction'
  <2>1. \A b \in ToSet(rtTasks) : b \in ActionIds /\ act'[b] = act[b]
    BY Positions DEF Inv
  <2> QED
    BY <2>1 DEF Inv, TaskHasItsAction
<1>5. ListsHoldTheirKind'
  <2>1. a \in ToSet(actions)
    BY <1>1, Positions DEF Inv
  <2>2. \A b \in ToSet(undoList) \cup ToSet(redoList) : act'[b] = act[b]
    BY <2>1, Positions DEF Inv, OneOwner
  <2> QED
    BY <2>2 DEF Inv, ListsHoldTheirKind
<1>6. PassMeetsLiveActions'
  <2>1. \A i \in 1..Len(actions) : i > idx => act'[actions[i]].state \in {"Executing", "Waiting"}
    BY <1>1, <1>2, Positions DEF Inv, PassMeetsLiveActions, Live, TypeOK
  <2>2. CASE pc' = "walk" /\ idx' = idx + 1
    BY <1>1, <2>1, <2>2, Positions DEF Inv, PassMeetsLiveActions, Live
  <2>3. CASE pc' \in {"walk", "publish"} /\ idx' = idx /\ act'[a].state = "Executing"
    <3>1. \A i \in 1..Len(actions) : i >= idx => act'[actions[i]].state \in {"Executing", "Waiting"}
      BY <1>1, <2>1, <2>3
    <3> QED
      BY <1>1, <2>3, <3>1, Positions DEF Inv, PassMeetsLiveActions, Live
  <2> QED
    BY <2>2, <2>3
<1> QED
  BY <1>3, <1>4, <1>5, <1>6 DEF Inv

\* Whatever the first or second step of an edit does to the project, StepOfOne fits.
LEMMA EditInv ==
  ASSUME Inv, TypeOK', NEW a \in ActionIds,
         \/ CreateForward(a) \/ CreateBackward(a)
         \/ DeleteForward1(a) \/ DeleteForward2(a) \/ DeleteBackward1(a) \/ DeleteBackward2(a)
         \/ RouteForward1(a) \/ RouteBackward1(a) \/ Route2(a)
         \/ UpdateRenderPlan1(a) \/ UpdateRenderPlan2(a)
  PROVE  Inv'
<1> USE DEF Runs, listVars, rtVars
<1>0. act \in [ActionIds -> ActionRecords]
  BY DEF Inv, TypeOK
<1>1. At(a) /\ act[a].state = "Executing"
  BY DEF CreateForward, CreateBackward, DeleteForward1, DeleteForward2, DeleteBackward1,
         DeleteBackward2, RouteForward1, RouteBackward1, Route2, UpdateRenderPlan1, UpdateRenderPlan2
<1>2. a \notin ToSet(rtTasks)
  BY <1>1 DEF Inv, TaskHasItsAction
<1>3. UNCHANGED <<actions, undoList, redoList, rtTasks>>
  BY DEF CreateForward, CreateBackward, DeleteForward1, DeleteForward2, DeleteBackward1,
         DeleteBackward2, RouteForward1, RouteBackward1, Route2, UpdateRenderPlan1, UpdateRenderPlan2
<1>4. \A b \in ActionIds : b # a => act'[b] = act[b]
  <2>1. CASE CreateForward(a) \/ CreateBackward(a)
    BY <1>0, <2>1 DEF CreateForward, CreateBackward, Abort, Finish
  <2>2. CASE DeleteForward1(a) \/ DeleteForward2(a)
    BY <1>0, <2>2 DEF DeleteForward1, DeleteForward2, Abort, StepTwo
  <2>3. CASE DeleteBackward1(a) \/ DeleteBackward2(a)
    BY <1>0, <2>3 DEF DeleteBackward1, DeleteBackward2, Finish
  <2>4. CASE RouteForward1(a) \/ RouteBackward1(a) \/ Route2(a)
    BY <1>0, <2>4 DEF RouteForward1, RouteBackward1, Route2, RebuildOrStepTwo, Abort, StepTwo, Finish
  <2>5. CASE UpdateRenderPlan1(a) \/ UpdateRenderPlan2(a)
    BY <1>0, <2>5 DEF UpdateRenderPlan1, UpdateRenderPlan2, Finish
  <2> QED
    BY <2>1, <2>2, <2>3, <2>4, <2>5
<1>5. ASSUME NextAction
      PROVE  pc' = "walk" /\ idx' = idx + 1
  BY <1>1, <1>5 DEF NextAction, At
<1>6. ASSUME PreparePlan(a), act'[a].state = "Executing"
      PROVE  /\ pc' \in {"walk", "publish"} /\ idx' = idx /\ act'[a].state = "Executing"
             /\ pc' = "publish" => pending'.action = a
  BY <1>1, <1>6 DEF PreparePlan, At
<1>7. \/ pc' = "walk" /\ idx' = idx + 1
      \/ /\ pc' \in {"walk", "publish"} /\ idx' = idx /\ act'[a].state = "Executing"
         /\ pc' = "publish" => pending'.action = a
  <2>1. CASE CreateForward(a) \/ DeleteForward2(a) \/ DeleteBackward2(a) \/ Route2(a) \/ UpdateRenderPlan2(a)
    BY <1>5, <2>1 DEF CreateForward, DeleteForward2, DeleteBackward2, Route2, UpdateRenderPlan2
  <2>2. CASE CreateBackward(a)
    BY <1>1, <1>5, <2>2 DEF CreateBackward, At
  <2>3. CASE DeleteForward1(a)
    <3>1. CASE UnitHaveRoutes(routes, act[a].id)
      <4>1. act'[a].state = "Executing"
        BY <1>0, <1>1, <2>3, <3>1 DEF DeleteForward1, ActionRecords
      <4> QED
        BY <1>6, <2>3, <3>1, <4>1 DEF DeleteForward1
    <3>2. CASE ~UnitHaveRoutes(routes, act[a].id)
      BY <1>5, <2>3, <3>2 DEF DeleteForward1
    <3> QED
      BY <3>1, <3>2
  <2>4. CASE DeleteBackward1(a)
    <3>1. CASE act[a].saved # NoRoutes
      <4>1. act'[a].state = "Executing"
        BY <1>0, <1>1, <2>4, <3>1 DEF DeleteBackward1, ActionRecords
      <4> QED
        BY <1>6, <2>4, <3>1, <4>1 DEF DeleteBackward1
    <3>2. CASE act[a].saved = NoRoutes
      BY <1>5, <2>4, <3>2 DEF DeleteBackward1
    <3> QED
      BY <3>1, <3>2
  <2>5. CASE RouteForward1(a) \/ RouteBackward1(a) \/ UpdateRenderPlan1(a)
    BY <1>1, <1>5, <1>6, <2>5 DEF RouteForward1, RouteBackward1, UpdateRenderPlan1, RebuildOrStepTwo
  <2> QED
    BY <2>1, <2>2, <2>3, <2>4, <2>5
<1> HIDE DEF Runs, listVars, rtVars
<1> QED
  BY <1>1, <1>2, <1>3, <1>4, <1>7, StepOfOne

\* A new action is nobody's, and goes to the end of the list.
LEMMA EmitInv ==
  ASSUME Inv, TypeOK', Emit
  PROVE  Inv'
<1>1. PICK kind, id, route, swap : EmitAction(kind, id, route, swap)
  BY DEF Emit, EmitCreateNewUnit, EmitDeleteUnit, EmitAddNewRoute, EmitOther
<1>2. PICK a \in Free : /\ act' = [act EXCEPT ![a] = NewAction(kind, id, route, swap)]
                       /\ actions' = Append(actions, a)
  BY <1>1 DEF EmitAction
<1>3. UNCHANGED <<undoList, redoList, rtTasks, pc, idx, pending>>
  BY <1>1 DEF EmitAction, rtVars
<1>4. a \in ActionIds /\ a \notin ToSet(actions) /\ a \notin ToSet(undoList) /\ a \notin ToSet(redoList)
  BY <1>2 DEF Free, Owned
<1>5. /\ ToSet(actions') = ToSet(actions) \cup {a}
      /\ IsInjective(actions')
      /\ Len(actions') = Len(actions) + 1
      /\ DOMAIN actions' = 1..(Len(actions) + 1)
      /\ \A i \in 1..Len(actions) : actions'[i] = actions[i]
      /\ actions'[Len(actions) + 1] = a
  <2>1. actions \in Seq(ActionIds)
    BY DEF Inv, TypeOK
  <2> QED
    BY <1>2, <1>4, <2>1, AppendDistinct, AppendProperties, LenProperties DEF Inv, OneOwner
<1>6. act'[a].state = "Executing" /\ \A b \in ActionIds : b # a => act'[b] = act[b]
  BY <1>2, <1>4 DEF Inv, TypeOK, NewAction
<1>7. OneOwner'
  BY <1>3, <1>4, <1>5 DEF Inv, OneOwner
<1>8. TaskHasItsAction'
  <2>1. \A b \in ToSet(rtTasks) : b \in ToSet(actions) /\ b # a /\ act'[b] = act[b]
    BY <1>4, <1>6, Positions DEF Inv, TaskHasItsAction
  <2> QED
    BY <1>3, <1>5, <2>1 DEF Inv, TaskHasItsAction
<1>9. ListsHoldTheirKind'
  <2>1. \A b \in ToSet(undoList) \cup ToSet(redoList) : act'[b] = act[b]
    BY <1>4, <1>6, Positions DEF Inv
  <2> QED
    BY <1>3, <2>1 DEF Inv, ListsHoldTheirKind
<1>10. PassMeetsLiveActions'
  <2>1. \A i \in 1..Len(actions) : actions'[i] = actions[i] /\ act'[actions[i]] = act[actions[i]]
    BY <1>4, <1>5, <1>6, Positions DEF Inv
  <2>2. \A i \in DOMAIN actions' : act'[actions'[i]].state \in {"Executing", "Waiting"} \/ i \in 1..Len(actions)
    BY <1>5, <1>6, Positions DEF Inv
  <2>3. \A i \in 1..Len(actions) : Live(actions[i]) => act'[actions'[i]].state \in {"Executing", "Waiting"}
    BY <2>1 DEF Live
  <2>4. \A i \in DOMAIN actions' : (pc # "sweep" /\ i >= idx) => act'[actions'[i]].state \in {"Executing", "Waiting"}
    BY <2>2, <2>3, Positions DEF Inv, PassMeetsLiveActions
  <2>5. \A i \in DOMAIN actions' : (pc = "sweep" /\ i < idx) => act'[actions'[i]].state \in {"Executing", "Waiting"}
    BY <2>2, <2>3, Positions DEF Inv, PassMeetsLiveActions
  <2>6. pc = "publish" => /\ idx \in DOMAIN actions'
                          /\ pending.action = actions'[idx]
                          /\ act'[pending.action].state = "Executing"
    BY <1>5, <2>1, Positions DEF Inv, PassMeetsLiveActions
  <2> QED
    BY <1>3, <2>4, <2>5, <2>6 DEF PassMeetsLiveActions, Live
<1> QED
  BY <1>7, <1>8, <1>9, <1>10 DEF Inv

\* The walk passes an action that still waits, or restarts one whose task is done.
LEMMA CheckWaitingInv ==
  ASSUME Inv, TypeOK', NEW a \in ActionIds, CheckWaitingCondition(a)
  PROVE  Inv'
<1>1. At(a) /\ pc' = "walk" /\ idx' = idx + 1 /\ UNCHANGED <<actions, undoList, redoList, rtTasks>>
  BY DEF CheckWaitingCondition, NextAction, At, listVars, rtVars
<1>2. CASE act[a].completed
  <2>1. a \notin ToSet(rtTasks)
    BY <1>2 DEF Inv, TaskHasItsAction
  <2>2. \A b \in ActionIds : b # a => act'[b] = act[b]
    BY <1>2 DEF CheckWaitingCondition, Inv, TypeOK
  <2> QED
    BY <1>1, <2>1, <2>2, StepOfOne
<1>3. CASE ~act[a].completed
  <2>1. act' = act
    BY <1>3 DEF CheckWaitingCondition
  <2>2. pc = "walk" /\ idx \in Nat
    BY <1>1 DEF At, Inv, TypeOK
  <2>3. PassMeetsLiveActions'
    BY <1>1, <2>1, <2>2, Positions DEF Inv, PassMeetsLiveActions, Live
  <2> QED
    BY <1>1, <2>1, <2>3 DEF Inv, OneOwner, TaskHasItsAction, ListsHoldTheirKind
<1> QED
  BY <1>2, <1>3

\* An action moves from a history list to the end of the action list.
LEMMA ReplayInv ==
  ASSUME Inv, TypeOK', NEW a \in ActionIds, At(a), act[a].state = "Executing",
         NEW b \in ToSet(undoList) \cup ToSet(redoList),
         NEW direction, Replay(a, b, direction),
         IsInjective(undoList') /\ ToSet(undoList') = ToSet(undoList) \ {b},
         IsInjective(redoList') /\ ToSet(redoList') = ToSet(redoList) \ {b},
         pc' = "walk" /\ idx' = idx + 1 /\ rtTasks' = rtTasks
  PROVE  Inv'
<1>1. idx \in 1..Len(actions) /\ a = actions[idx] /\ pc = "walk" /\ a \in ToSet(actions)
  BY Positions DEF At, Inv, TypeOK
<1>2. b \in ActionIds /\ b \notin ToSet(actions)
  BY Positions DEF Inv, OneOwner
<1>3. /\ ToSet(actions') = ToSet(actions) \cup {b}
      /\ IsInjective(actions')
      /\ DOMAIN actions' = 1..(Len(actions) + 1)
      /\ \A i \in 1..Len(actions) : actions'[i] = actions[i]
      /\ actions'[Len(actions) + 1] = b
  <2>1. actions \in Seq(ActionIds) /\ actions' = Append(actions, b)
    BY DEF Inv, TypeOK, Replay
  <2> QED
    BY <1>2, <2>1, AppendDistinct, AppendProperties, LenProperties DEF Inv, OneOwner
<1>4. /\ \A c \in ActionIds : c # a /\ c # b => act'[c] = act[c]
      /\ act'[b].state = "Executing"
  <2>1. act \in [ActionIds -> ActionRecords]
    BY DEF Inv, TypeOK
  <2> QED
    BY <1>2, <2>1 DEF Replay, ActionRecords
<1>5. OneOwner'
  BY <1>2, <1>3 DEF Inv, OneOwner
<1>6. TaskHasItsAction'
  <2>1. \A c \in ToSet(rtTasks) : c \in ToSet(actions) /\ c # a /\ c # b /\ act'[c] = act[c]
    BY <1>2, <1>4, Positions DEF Inv, TaskHasItsAction
  <2> QED
    BY <1>3, <2>1 DEF Inv, TaskHasItsAction
<1>7. ListsHoldTheirKind'
  <2>1. \A c \in ToSet(undoList') \cup ToSet(redoList') : act'[c] = act[c]
    BY <1>1, <1>4, Positions DEF Inv, OneOwner
  <2> QED
    BY <2>1 DEF Inv, ListsHoldTheirKind
<1>8. PassMeetsLiveActions'
  <2>1. \A i \in 1..Len(actions) : i # idx => actions[i] # a /\ actions[i] # b
    BY <1>1, <1>2, Positions DEF Inv, OneOwner, IsInjective
  <2>2. \A i \in 1..Len(actions) : i > idx => act'[actions'[i]].state \in {"Executing", "Waiting"}
    BY <1>1, <1>3, <1>4, <2>1, Positions DEF Inv, PassMeetsLiveActions, Live
  <2>3. \A i \in 1..(Len(actions) + 1) : i \in 1..Len(actions) \/ i = Len(actions) + 1
    BY Positions DEF Inv
  <2>4. \A i \in DOMAIN actions' : i > idx => act'[actions'[i]].state \in {"Executing", "Waiting"}
    BY <1>3, <1>4, <2>2, <2>3
  <2>5. \A i \in DOMAIN actions' : i >= idx + 1 => i > idx
    BY <1>1, <1>3
  <2> QED
    BY <2>4, <2>5 DEF PassMeetsLiveActions, Live
<1> QED
  BY <1>5, <1>6, <1>7, <1>8 DEF Inv

\* Undo and redo keep the invariant: the action leaves one list and joins another, and no task points to it.
LEMMA UndoRedoInv ==
  ASSUME Inv, TypeOK', NEW a \in ActionIds, UndoExec(a) \/ RedoExec(a)
  PROVE  Inv'
<1>1. /\ At(a) /\ act[a].state = "Executing"
      /\ pc' = "walk" /\ idx' = idx + 1 /\ rtTasks' = rtTasks
  BY DEF UndoExec, RedoExec, Runs, At, NextAction, rtVars
<1>2. a \notin ToSet(rtTasks)
  BY <1>1 DEF Inv, TaskHasItsAction
<1>3. ASSUME Finish(a), UNCHANGED <<actions, undoList, redoList>>
      PROVE  Inv'
  <2>1. \A b \in ActionIds : b # a => act'[b] = act[b]
    BY <1>3 DEF Finish, Inv, TypeOK
  <2> QED
    BY <1>1, <1>2, <1>3, <2>1, StepOfOne
<1>4. CASE UndoExec(a) /\ Len(undoList) # 0
  <2> DEFINE b == Last(undoList)
  <2>1. undoList' = Front(undoList) /\ redoList' = redoList /\ Replay(a, b, "Backward")
    BY <1>4 DEF UndoExec
  <2>2. /\ ToSet(Front(undoList)) = ToSet(undoList) \ {b}
        /\ b \in ToSet(undoList)
        /\ IsInjective(Front(undoList))
    BY <1>4, FrontDistinct DEF Inv, TypeOK, OneOwner
  <2> HIDE DEF b
  <2>3. b \notin ToSet(redoList)
    BY <2>2 DEF Inv, OneOwner
  <2> QED
    BY <1>1, <2>1, <2>2, <2>3, ReplayInv DEF Inv, OneOwner
<1>5. CASE RedoExec(a) /\ Len(redoList) # 0
  <2> DEFINE b == Last(redoList)
  <2>1. redoList' = Front(redoList) /\ undoList' = undoList /\ Replay(a, b, "Forward")
    BY <1>5 DEF RedoExec
  <2>2. /\ ToSet(Front(redoList)) = ToSet(redoList) \ {b}
        /\ b \in ToSet(redoList)
        /\ IsInjective(Front(redoList))
    BY <1>5, FrontDistinct DEF Inv, TypeOK, OneOwner
  <2> HIDE DEF b
  <2>3. b \notin ToSet(undoList)
    BY <2>2 DEF Inv, OneOwner
  <2> QED
    BY <1>1, <2>1, <2>2, <2>3, ReplayInv DEF Inv, OneOwner
<1> QED
  BY <1>3, <1>4, <1>5 DEF UndoExec, RedoExec

\* The task of the action whose plan is written goes into the ring, or is lost.
LEMMA PublishInv ==
  ASSUME Inv, TypeOK', PublishPlan
  PROVE  Inv'
<1> DEFINE a == pending.action
<1>1. /\ idx \in 1..Len(actions) /\ a = actions[idx] /\ act[a].state = "Executing"
      /\ a \in ActionIds /\ a \in ToSet(actions) /\ pc = "publish"
  BY Positions DEF PublishPlan, Inv, TypeOK, PassMeetsLiveActions
<1>2. /\ pc' = "walk" /\ idx' = idx + 1 /\ UNCHANGED <<actions, undoList, redoList>>
      /\ act' = [act EXCEPT ![a].state = "Waiting", ![a].completed = FALSE]
      /\ rtTasks' = Append(rtTasks, a) \/ rtTasks' = rtTasks
  BY DEF PublishPlan, listVars
<1> HIDE DEF a
<1>3. /\ \A b \in ActionIds : b # a => act'[b] = act[b]
      /\ act'[a].state = "Waiting" /\ act'[a].completed = FALSE
  <2>1. act \in [ActionIds -> ActionRecords]
    BY DEF Inv, TypeOK
  <2> QED
    BY <1>1, <1>2, <2>1 DEF ActionRecords
<1>4. OneOwner'
  BY <1>2 DEF Inv, OneOwner
<1>5. TaskHasItsAction'
  <2>1. a \notin ToSet(rtTasks)
    BY <1>1 DEF Inv, TaskHasItsAction
  <2>2. IsInjective(rtTasks') /\ ToSet(rtTasks') \subseteq ToSet(rtTasks) \cup {a}
    <3>1. rtTasks \in Seq(ActionIds)
      BY DEF Inv, TypeOK
    <3>2. /\ ToSet(Append(rtTasks, a)) = ToSet(rtTasks) \cup {a}
          /\ IsInjective(rtTasks) /\ a \notin ToSet(rtTasks) => IsInjective(Append(rtTasks, a))
      BY <1>1, <3>1, AppendDistinct
    <3>3. IsInjective(rtTasks)
      BY DEF Inv, TaskHasItsAction
    <3>4. CASE rtTasks' = Append(rtTasks, a)
      BY <2>1, <3>2, <3>3, <3>4
    <3>5. CASE rtTasks' = rtTasks
      BY <3>3, <3>5
    <3> QED
      BY <1>2, <3>4, <3>5
  <2>3. \A b \in ToSet(rtTasks) : b \in ToSet(actions) /\ act'[b] = act[b]
    BY <1>3, <2>1, Positions DEF Inv, TaskHasItsAction
  <2> QED
    BY <1>1, <1>2, <1>3, <2>2, <2>3 DEF Inv, TaskHasItsAction
<1>6. ListsHoldTheirKind'
  <2>1. \A b \in ToSet(undoList) \cup ToSet(redoList) : act'[b] = act[b]
    BY <1>1, <1>3, Positions DEF Inv, OneOwner
  <2> QED
    BY <1>2, <2>1 DEF Inv, ListsHoldTheirKind
<1>7. PassMeetsLiveActions'
  <2>1. \A i \in 1..Len(actions) : i # idx => actions[i] # a
    BY <1>1, Positions DEF Inv, OneOwner, IsInjective
  <2>2. \A i \in 1..Len(actions) : i >= idx + 1 => act'[actions[i]].state \in {"Executing", "Waiting"}
    BY <1>1, <1>3, <2>1, Positions DEF Inv, PassMeetsLiveActions, Live
  <2> QED
    BY <1>2, <2>2, Positions DEF Inv, PassMeetsLiveActions, Live
<1> QED
  BY <1>4, <1>5, <1>6, <1>7 DEF Inv

\* The walk ends where the list does; the sweep has kept live actions only.
LEMMA EndInv ==
  ASSUME Inv, TypeOK', EndWalk \/ EndPass
  PROVE  Inv'
<1>1. /\ pc' \in {"walk", "sweep"} /\ idx' = 1
      /\ UNCHANGED <<actions, undoList, redoList, rtTasks, act>>
      /\ pc' = "walk" => pc = "sweep" /\ idx > Len(actions)
  BY DEF EndWalk, EndPass, listVars, rtVars
<1>2. \A i \in 1..Len(actions) : i >= 1 /\ ~(i < 1) /\ (idx > Len(actions) => i < idx)
  BY Positions DEF Inv, TypeOK
<1>3. PassMeetsLiveActions'
  BY <1>1, <1>2, Positions DEF Inv, PassMeetsLiveActions, Live
<1> QED
  BY <1>1, <1>3 DEF Inv, OneOwner, TaskHasItsAction, ListsHoldTheirKind

\* The sweep takes a finished or aborted action out of the list: it, and an action
\* evicted from a full history list, are the only ones that change.
LEMMA SweepOutInv ==
  ASSUME Inv, TypeOK', NEW a \in ActionIds, Sweeps(a), act[a].state \in {"Abort", "Finished"},
         actions' = RemoveAt(actions, idx),
         UNCHANGED <<pc, idx, rtTasks>>,
         \A b \in ToSet(actions) \cup ToSet(undoList') \cup ToSet(redoList') : b # a => act'[b] = act[b],
         IsInjective(undoList'), IsInjective(redoList'),
         ToSet(undoList') \subseteq ToSet(undoList) \cup {a},
         ToSet(redoList') \subseteq ToSet(redoList) \cup {a},
         a \in ToSet(undoList') => /\ a \notin ToSet(redoList') /\ act'[a] = act[a]
                                   /\ act[a].state = "Finished" /\ act[a].direction = "Forward",
         a \in ToSet(redoList') => /\ act'[a] = act[a]
                                   /\ act[a].state = "Finished" /\ act[a].direction = "Backward"
  PROVE  Inv'
<1>1. idx \in 1..Len(actions) /\ a = actions[idx] /\ pc = "sweep" /\ a \in ToSet(actions)
  BY Positions DEF Sweeps, Inv, TypeOK
<1>2. /\ ToSet(actions') = ToSet(actions) \ {a}
      /\ IsInjective(actions')
      /\ DOMAIN actions' = 1..(Len(actions) - 1)
      /\ \A i \in 1..(Len(actions) - 1) : actions'[i] = IF i < idx THEN actions[i] ELSE actions[i + 1]
  <2>1. actions \in Seq(ActionIds) /\ IsInjective(actions)
    BY DEF Inv, TypeOK, OneOwner
  <2> QED
    BY <1>1, <2>1, RemoveAtDistinct, RemoveAtElements, LenProperties
<1>3. OneOwner'
  BY <1>1, <1>2 DEF Inv, OneOwner
<1>4. TaskHasItsAction'
  <2>1. a \notin ToSet(rtTasks)
    BY DEF Inv, TaskHasItsAction
  <2>2. \A b \in ToSet(rtTasks) : b \in ToSet(actions) /\ b # a /\ act'[b] = act[b]
    BY <2>1 DEF Inv, TaskHasItsAction
  <2> QED
    BY <1>2, <2>2 DEF Inv, TaskHasItsAction
<1>5. ListsHoldTheirKind'
  <2>1. \A b \in ToSet(undoList') : act'[b].state = "Finished" /\ act'[b].direction = "Forward"
    BY DEF Inv, ListsHoldTheirKind
  <2>2. \A b \in ToSet(redoList') : act'[b].state = "Finished" /\ act'[b].direction = "Backward"
    BY DEF Inv, ListsHoldTheirKind
  <2> QED
    BY <2>1, <2>2 DEF ListsHoldTheirKind
<1>6. PassMeetsLiveActions'
  <2>1. \A i \in 1..Len(actions) : i < idx => actions[i] # a /\ Live(actions[i])
    BY <1>1, Positions DEF Inv, PassMeetsLiveActions, OneOwner, IsInjective
  <2>2. \A i \in 1..(Len(actions) - 1) : i < idx =>
          /\ i \in 1..Len(actions)
          /\ actions'[i] = actions[i]
    BY <1>2
  <2>3. \A i \in 1..(Len(actions) - 1) : i < idx => act'[actions'[i]].state \in {"Executing", "Waiting"}
    BY <2>1, <2>2, Positions DEF Inv, Live
  <2> QED
    BY <1>1, <1>2, <2>3 DEF PassMeetsLiveActions, Live
<1> QED
  BY <1>3, <1>4, <1>5, <1>6 DEF Inv

\* An action that moves onto a full history list pushes out the oldest one, the only
\* one that is destroyed.
LEMMA RetireElements ==
  ASSUME TypeOK, NEW list \in Seq(ActionIds), IsInjective(list), NEW a \in ActionIds \ ToSet(list)
  PROVE  /\ IsInjective(Retire(list, a))
         /\ ToSet(Retire(list, a)) \subseteq ToSet(list) \cup {a}
         /\ \A b \in ActionIds : b \notin ToSet(list) \/ b \in ToSet(Retire(list, a)) => Evict(list)[b] = act[b]
<1>0. act \in [ActionIds -> ActionRecords]
  BY DEF TypeOK
<1>1. CASE Len(list) >= UndoLimit
  <2>1. Len(list) # 0
    BY <1>1, EngineAssumption
  <2>2. /\ Tail(list) \in Seq(ActionIds)
        /\ ToSet(Tail(list)) = ToSet(list) \ {Head(list)}
        /\ Head(list) \in ToSet(list)
        /\ IsInjective(Tail(list))
    BY <2>1, TailDistinct
  <2>3. /\ ToSet(Append(Tail(list), a)) = ToSet(Tail(list)) \cup {a}
        /\ IsInjective(Append(Tail(list), a))
    BY <2>2, AppendDistinct
  <2>4. Retire(list, a) = Append(Tail(list), a) /\ Evict(list) = [act EXCEPT ![Head(list)] = Blank]
    BY <1>1, Zenon DEF Retire, Evict
  <2>5. \A b \in ActionIds : b # Head(list) => Evict(list)[b] = act[b]
    BY <1>0, <2>4
  <2> QED
    BY <2>2, <2>3, <2>4, <2>5
<1>2. CASE ~(Len(list) >= UndoLimit)
  <2>1. Retire(list, a) = Append(list, a) /\ Evict(list) = act
    BY <1>2, Zenon DEF Retire, Evict
  <2>2. /\ ToSet(Append(list, a)) = ToSet(list) \cup {a}
        /\ IsInjective(Append(list, a))
    BY AppendDistinct
  <2> QED
    BY <2>1, <2>2
<1> QED
  BY <1>1, <1>2

\* The sweep keeps the invariant: an action that ended has no task in the ring.
LEMMA SweepInv ==
  ASSUME Inv, TypeOK', NEW a \in ActionIds, SweepKeep(a) \/ SweepErase(a) \/ SweepRetire(a)
  PROVE  Inv'
<1>0. act \in [ActionIds -> ActionRecords]
  BY DEF Inv, TypeOK
<1>1. CASE SweepKeep(a)
  <2>1. /\ pc = "sweep" /\ pc' = "sweep" /\ idx' = idx + 1 /\ a = actions[idx]
        /\ UNCHANGED <<actions, undoList, redoList, rtTasks, act>>
    BY <1>1 DEF SweepKeep, Sweeps, NextAction, listVars, rtVars
  <2>2. Live(a)
    BY <1>0, <1>1 DEF SweepKeep, ActionRecords, Live
  <2>3. \A i \in 1..Len(actions) : i < idx + 1 => i < idx \/ i = idx
    BY DEF Inv, TypeOK
  <2>4. PassMeetsLiveActions'
    BY <2>1, <2>2, <2>3, Positions DEF Inv, PassMeetsLiveActions, Live
  <2> QED
    BY <2>1, <2>4 DEF Inv, OneOwner, TaskHasItsAction, ListsHoldTheirKind
<1>2. ASSUME Sweeps(a)
      PROVE  a \in ToSet(actions) /\ a \notin ToSet(undoList) /\ a \notin ToSet(redoList)
  BY <1>2, Positions DEF Sweeps, Inv, TypeOK, OneOwner
<1>3. CASE SweepErase(a)
  <2>1. /\ Sweeps(a) /\ act[a].state \in {"Abort", "Finished"}
        /\ actions' = RemoveAt(actions, idx)
        /\ UNCHANGED <<pc, idx, rtTasks, undoList, redoList>>
    BY <1>3 DEF SweepErase, rtVars
  <2>2. \A b \in ActionIds : b # a => act'[b] = act[b]
    BY <1>0, <1>3 DEF SweepErase
  <2> QED
    BY <1>2, <2>1, <2>2, Positions, SweepOutInv DEF Inv, OneOwner
<1>4. CASE SweepRetire(a)
  <2>1. /\ Sweeps(a) /\ act[a].state = "Finished"
        /\ actions' = RemoveAt(actions, idx)
        /\ UNCHANGED <<pc, idx, rtTasks>>
    BY <1>4 DEF SweepRetire, rtVars
  <2>3. undoList \in Seq(ActionIds) /\ redoList \in Seq(ActionIds)
    BY DEF Inv, TypeOK
  <2>4. CASE act[a].direction = "Forward"
    <3>1. undoList' = Retire(undoList, a) /\ act' = Evict(undoList) /\ redoList' = redoList
      BY <1>4, <2>4 DEF SweepRetire
    <3>2. /\ IsInjective(undoList')
          /\ ToSet(undoList') \subseteq ToSet(undoList) \cup {a}
          /\ \A b \in ActionIds : b \notin ToSet(undoList) \/ b \in ToSet(undoList') => act'[b] = act[b]
      BY <1>2, <2>1, <2>3, <3>1, RetireElements DEF Inv, OneOwner
    <3>3. \A b \in ToSet(actions) \cup ToSet(undoList') \cup ToSet(redoList') : act'[b] = act[b]
      BY <1>2, <2>1, <3>1, <3>2, Positions DEF Inv, OneOwner
    <3> QED
      BY <1>2, <2>1, <2>4, <3>1, <3>2, <3>3, SweepOutInv DEF Inv, OneOwner
  <2>5. CASE act[a].direction # "Forward"
    <3>1. redoList' = Retire(redoList, a) /\ act' = Evict(redoList) /\ undoList' = undoList
      BY <1>4, <2>5 DEF SweepRetire
    <3>2. act[a].direction = "Backward"
      BY <1>0, <2>5 DEF ActionRecords
    <3>3. /\ IsInjective(redoList')
          /\ ToSet(redoList') \subseteq ToSet(redoList) \cup {a}
          /\ \A b \in ActionIds : b \notin ToSet(redoList) \/ b \in ToSet(redoList') => act'[b] = act[b]
      BY <1>2, <2>1, <2>3, <3>1, RetireElements DEF Inv, OneOwner
    <3>4. \A b \in ToSet(actions) \cup ToSet(undoList') \cup ToSet(redoList') : act'[b] = act[b]
      BY <1>2, <2>1, <3>1, <3>3, Positions DEF Inv, OneOwner
    <3> QED
      BY <1>2, <2>1, <3>1, <3>2, <3>3, <3>4, SweepOutInv DEF Inv, OneOwner
  <2> QED
    BY <2>4, <2>5
<1> QED
  BY <1>1, <1>3, <1>4

\* Executing the oldest task tells its action, which no other task points to.
LEMMA RtInv ==
  ASSUME Inv, TypeOK', RtStep
  PROVE  Inv'
<1>1. UNCHANGED <<actions, undoList, redoList, pc, idx, pending>>
  BY DEF RtStep, RtExecTask, RtRender, RtEndBlock, listVars
<1>2. CASE RtExecTask
  <2> DEFINE a == Head(rtTasks)
  <2>1. rtTasks \in Seq(ActionIds) /\ Len(rtTasks) # 0 /\ IsInjective(rtTasks)
    BY <1>2 DEF RtExecTask, Inv, TypeOK, TaskHasItsAction
  <2>2. ToSet(Tail(rtTasks)) = ToSet(rtTasks) \ {a} /\ a \in ToSet(rtTasks) /\ IsInjective(Tail(rtTasks))
    BY <2>1, TailDistinct
  <2>3. rtTasks' = Tail(rtTasks) /\ act' = [act EXCEPT ![a].completed = TRUE]
    BY <1>2 DEF RtExecTask
  <2> HIDE DEF a
  <2>4. /\ \A b \in ActionIds : b # a => act'[b] = act[b]
        /\ \A b \in ActionIds : act'[b].state = act[b].state /\ act'[b].direction = act[b].direction
    <3>1. act \in [ActionIds -> ActionRecords]
      BY DEF Inv, TypeOK
    <3> QED
      BY <2>3, <3>1 DEF ActionRecords
  <2>5. TaskHasItsAction'
    BY <1>1, <2>2, <2>3, <2>4, Positions DEF Inv, TaskHasItsAction
  <2>6. ListsHoldTheirKind'
    BY <1>1, <2>4, Positions DEF Inv, ListsHoldTheirKind
  <2>7. PassMeetsLiveActions'
    BY <1>1, <2>4, Positions DEF Inv, TypeOK, PassMeetsLiveActions, Live
  <2> QED
    BY <1>1, <2>5, <2>6, <2>7 DEF Inv, OneOwner
<1>3. CASE RtRender \/ RtEndBlock
  <2>1. act' = act /\ rtTasks' = rtTasks
    BY <1>3 DEF RtRender, RtEndBlock
  <2> QED
    BY <1>1, <2>1 DEF Inv, OneOwner, TaskHasItsAction, ListsHoldTheirKind, PassMeetsLiveActions, Live
<1> QED
  BY <1>2, <1>3 DEF RtStep

\* Every step keeps the invariant.
LEMMA NextInv == Inv /\ [Next]_vars => Inv'
<1> SUFFICES ASSUME Inv, [Next]_vars
             PROVE  Inv'
  OBVIOUS
<1>0. TypeOK'
  BY NextType DEF Inv
<1>1. CASE Emit
  BY <1>0, <1>1, EmitInv
<1>2. CASE ControlStep
  <2>1. ASSUME NEW a \in ActionIds, Exec(a)
        PROVE  Inv'
    BY <1>0, <2>1, EditInv, UndoRedoInv DEF Exec
  <2> QED
    BY <1>0, <1>2, <2>1, CheckWaitingInv, SweepInv, PublishInv, EndInv DEF ControlStep
<1>3. CASE RtStep
  BY <1>0, <1>3, RtInv
<1>4. CASE UNCHANGED vars
  BY <1>0, <1>4 DEF vars, listVars, rtVars, Inv, OneOwner, TaskHasItsAction, ListsHoldTheirKind,
                    PassMeetsLiveActions, Live
<1> QED
  BY <1>1, <1>2, <1>3, <1>4 DEF Next

\* The invariant holds in every reachable state.
LEMMA Invariance == Spec => []Inv
BY InitInv, NextInv, PTL DEF Spec

\* No action object is owned twice, whatever order undo, redo and passes come in.
THEOREM OneOwnerAlways == Spec => []OneOwner
BY Invariance, PTL DEF Inv

\* A task in the ring always points to a live, waiting action.
THEOREM TaskHasItsActionAlways == Spec => []TaskHasItsAction
BY Invariance, PTL DEF Inv

\* The pass meets no finished and no aborted action, however many are emitted.
THEOREM PassMeetsLiveActionsAlways == Spec => []PassMeetsLiveActions
BY Invariance, PTL DEF Inv

\* Neither the ring nor the pass reaches an action that is over.
THEOREM OnlyLiveActionsAlways == Spec => []OnlyLiveActions
<1>1. Inv => OnlyLiveActions
  BY DEF Inv, OnlyLiveActions
<1> QED BY <1>1, Invariance, PTL

\* The undo list holds done actions, the redo list undone ones.
THEOREM ListsHoldTheirKindAlways == Spec => []ListsHoldTheirKind
BY Invariance, PTL DEF Inv

(* --------------------------------- units --------------------------------- *)

\* The creation a is undone, or about to be done once more under the ID it had.
Undone(a) ==
  /\ act[a].kind = "CreateNewUnit" /\ act[a].id # 0
  /\ \/ act[a].direction = "Forward" /\ act[a].state \in {"Executing", "Waiting"}
     \/ act[a].direction = "Backward" /\ act[a].state = "Finished"

(***************************************************************************)
(* Why units are unique: a creation that is redone asks for the ID it had, *)
(* and nothing but the counter keeps that ID from another creation.  So an *)
(* ID must belong to one creation, and an undone one must have no unit,    *)
(* not even one that a deletion keeps.                                     *)
(***************************************************************************)
UnitInv ==
  /\ UnitsAreUnique
  /\ \A u \in units \cup Held : u.id = 0 => u = NoUnit
  /\ \A a, b \in Owned :
       act[a].kind = "CreateNewUnit" /\ act[b].kind = "CreateNewUnit"
         /\ act[a].id = act[b].id /\ act[a].id # 0 => a = b
  /\ \A a \in Owned : Undone(a) => act[a].id \notin Ids(units \cup Held)

\* What is held by the actions, without the definition by a set of records.
LEMMA HeldUnits ==
  ASSUME TypeOK
  PROVE  /\ Held \subseteq Units
         /\ \A a \in ActionIds : act[a].unit \in Held \cup {NoUnit}
         /\ \A u \in Held : u # NoUnit /\ \E a \in ActionIds : act[a].unit = u
         /\ Owned \subseteq ActionIds
BY Positions DEF TypeOK, ActionRecords, Held, Owned

\* The loaded units carry the IDs 1, 2, ..., and no action holds one.
LEMMA InitUnits == Init => UnitInv
<1> SUFFICES ASSUME Init
             PROVE  UnitInv
  OBVIOUS
<1>1. Owned = {}
  BY DEF Init, Owned, ToSet
<1>2. \A a \in ActionIds : act[a].unit = NoUnit
  BY DEF Init, Blank, NewAction
<1>3. Held = {}
  BY <1>2 DEF Held
<1>4. /\ \A u \in units : u.id \in 1..InitialUnits /\ u = [id |-> u.id, life |-> 0]
      /\ unitIdCounter = InitialUnits
  BY DEF Init, LoadedUnits
<1>5. UnitsAreUnique
  BY <1>1, <1>2, <1>3, <1>4, EngineAssumption DEF UnitsAreUnique, UnitIdsAreUnique, UnitHasOnePlace
<1> QED
  BY <1>1, <1>3, <1>4, <1>5, EngineAssumption DEF UnitInv

\* A step that brings in no unit, and neither an ID for a creation nor an undone one.
LEMMA NoNewUnit ==
  ASSUME TypeOK, TypeOK', UnitInv, units' \subseteq units, unitIdCounter' = unitIdCounter,
         \A a \in ActionIds : act'[a].unit \in {act[a].unit, NoUnit},
         \A a \in Owned' : act'[a].kind = "CreateNewUnit" /\ act'[a].id # 0 =>
           /\ a \in Owned
           /\ act[a].kind = "CreateNewUnit" /\ act[a].id = act'[a].id
           /\ Undone(a)' => Undone(a) \/ act[a].id \notin Ids(units' \cup Held')
  PROVE  UnitInv'
<1>1. Held' \subseteq Held
  BY HeldUnits DEF Held
<1>2. UnitHasOnePlace'
  BY <1>1 DEF UnitInv, UnitsAreUnique, UnitHasOnePlace
<1>3. UnitIdsAreUnique'
  <2>1. \A a \in Owned' : act'[a].kind = "CreateNewUnit" => act'[a].id <= unitIdCounter'
    <3> SUFFICES ASSUME NEW a \in Owned', act'[a].kind = "CreateNewUnit"
                 PROVE  act'[a].id <= unitIdCounter'
      OBVIOUS
    <3>1. CASE act'[a].id = 0
      BY <3>1 DEF TypeOK
    <3>2. CASE act'[a].id # 0
      BY <3>2 DEF UnitInv, UnitsAreUnique, UnitIdsAreUnique
    <3> QED
      BY <3>1, <3>2
  <2> QED
    BY <1>1, <2>1 DEF UnitInv, UnitsAreUnique, UnitIdsAreUnique
<1>4. \A a \in Owned' : Undone(a)' => act'[a].id \notin Ids(units' \cup Held')
  BY <1>1 DEF UnitInv, Undone, Ids
<1>5. \A a, b \in Owned' :
        act'[a].kind = "CreateNewUnit" /\ act'[b].kind = "CreateNewUnit"
          /\ act'[a].id = act'[b].id /\ act'[a].id # 0 => a = b
  BY DEF UnitInv
<1> QED
  BY <1>1, <1>2, <1>3, <1>4, <1>5 DEF UnitInv, UnitsAreUnique

\* An emitted action holds no unit, and a new creation no ID.
LEMMA EmitActionUnits ==
  ASSUME Inv, TypeOK', UnitInv, NEW kind, NEW id, NEW route, NEW swap,
         EmitAction(kind, id, route, swap), kind = "CreateNewUnit" => id = 0
  PROVE  UnitInv'
<1>1. PICK a \in Free : /\ act' = [act EXCEPT ![a] = NewAction(kind, id, route, swap)]
                       /\ actions' = Append(actions, a)
  BY DEF EmitAction
<1>2. UNCHANGED <<undoList, redoList, units, unitIdCounter>>
  BY DEF EmitAction, projectVars
<1>3. a \in ActionIds /\ a \notin Owned
  BY DEF Free
<1>4. Owned' = Owned \cup {a}
  <2>1. actions \in Seq(ActionIds) /\ IsInjective(actions)
    BY DEF Inv, TypeOK, OneOwner
  <2>2. ToSet(actions') = ToSet(actions) \cup {a}
    BY <1>1, <1>3, <2>1, AppendDistinct DEF Owned
  <2> QED
    BY <1>2, <2>2 DEF Owned
<1>5. /\ \A b \in ActionIds : b # a => act'[b] = act[b]
      /\ act'[a].unit = NoUnit
      /\ act'[a].kind = "CreateNewUnit" => act'[a].id = 0
  <2>1. act'[a] = NewAction(kind, id, route, swap) /\ \A b \in ActionIds : b # a => act'[b] = act[b]
    BY <1>1, <1>3 DEF Inv, TypeOK
  <2>2. /\ NewAction(kind, id, route, swap).kind = kind
        /\ NewAction(kind, id, route, swap).id = id
        /\ NewAction(kind, id, route, swap).unit = NoUnit
    BY DEF NewAction
  <2> QED
    BY <2>1, <2>2
<1>6. \A b \in Owned : b # a /\ act'[b] = act[b] /\ (Undone(b)' => Undone(b))
  BY <1>3, <1>5, HeldUnits DEF Inv, Undone
<1> QED
  BY <1>2, <1>4, <1>5, <1>6, NoNewUnit DEF Inv

\* That goes for the four ways the user interface emits.
LEMMA EmitUnits ==
  ASSUME Inv, TypeOK', UnitInv, Emit
  PROVE  UnitInv'
BY EmitActionUnits DEF Emit, EmitCreateNewUnit, EmitDeleteUnit, EmitAddNewRoute, EmitOther

\* The ID of a creation is free: a fresh one, or the one of its undone unit.
LEMMA CreationIdIsFree ==
  ASSUME Inv, UnitInv, NEW a \in ActionIds, Runs(a, "CreateNewUnit", "Forward", 1),
         NEW id, id = IF act[a].id = 0 THEN NextUnitId ELSE act[a].id
  PROVE  /\ id \in Nat /\ id # 0
         /\ \A v \in units \cup Held : v.id # id
         /\ \A b \in Owned : b # a /\ act[b].kind = "CreateNewUnit" => act[b].id # id
<1>1. unitIdCounter \in Nat /\ act[a].id \in Nat
  BY DEF Inv, TypeOK, ActionRecords
<1>2. a \in Owned
  BY Positions DEF Runs, At, Inv, TypeOK, Owned
<1>3. CASE act[a].id = 0
  <2>1. id = unitIdCounter + 1
    BY <1>3 DEF NextUnitId
  <2>2. /\ \A v \in units \cup Held : v.id \in Nat /\ v.id <= unitIdCounter
        /\ \A b \in Owned : act[b].kind = "CreateNewUnit" => act[b].id \in Nat /\ act[b].id <= unitIdCounter
    BY HeldUnits DEF UnitInv, UnitsAreUnique, UnitIdsAreUnique, Inv, TypeOK, Units, ActionRecords
  <2> QED
    BY <1>1, <2>1, <2>2
<1>4. CASE act[a].id # 0
  <2>1. Undone(a)
    BY <1>4 DEF Undone, Runs
  <2> QED
    BY <1>1, <1>2, <1>4, <2>1 DEF UnitInv, Ids, Runs
<1> QED
  BY <1>3, <1>4

\* A creation adds a unit under a free ID; its undo leaves that ID without a unit.
LEMMA CreateUnits ==
  ASSUME Inv, TypeOK', UnitInv, NEW a \in ActionIds, CreateForward(a) \/ CreateBackward(a)
  PROVE  UnitInv'
<1>0. act \in [ActionIds -> ActionRecords] /\ act[a] \in ActionRecords
  BY DEF Inv, TypeOK
<1>1. /\ At(a) /\ act[a].state = "Executing" /\ act[a].kind = "CreateNewUnit"
      /\ UNCHANGED <<actions, undoList, redoList>>
  BY DEF CreateForward, CreateBackward, Runs, listVars
<1>2. a \in Owned /\ Owned' = Owned
  <2>1. a \in ToSet(actions)
    BY <1>1, Positions DEF At, Inv, TypeOK
  <2> QED
    BY <1>1, <2>1 DEF Owned
<1>3. ASSUME UNCHANGED <<units, unitIdCounter>>, Abort(a)
      PROVE  UnitInv'
  <2>1. /\ \A b \in ActionIds : b # a => act'[b] = act[b]
        /\ act'[a].unit = act[a].unit /\ act'[a].state = "Abort"
        /\ act'[a].kind = act[a].kind /\ act'[a].id = act[a].id
    BY <1>0, <1>3 DEF Abort, ActionRecords
  <2> QED
    BY <1>2, <1>3, <2>1, HeldUnits, NoNewUnit DEF Inv, Undone
<1>4. CASE CreateForward(a)
  <2> DEFINE id == IF act[a].id = 0 THEN NextUnitId ELSE act[a].id
  <2>1. CASE id \in Ids(units)
    <3>1. Abort(a) /\ UNCHANGED <<units, unitIdCounter>>
      BY <1>4, <2>1, Zenon DEF CreateForward
    <3> QED
      BY <1>3, <3>1
  <2>2. CASE id \notin Ids(units)
    <3> DEFINE u == [id |-> id, life |-> lives + 1]
    <3>1. /\ act[a].direction = "Forward"
          /\ units' = units \cup {u}
          /\ unitIdCounter' = IF unitIdCounter + 1 > id THEN unitIdCounter + 1 ELSE id
          /\ act' = [act EXCEPT ![a].id = id, ![a].state = "Finished"]
      BY <1>4, <2>2, Zenon DEF CreateForward, Runs
    <3>2. /\ \A b \in ActionIds : b # a => act'[b] = act[b]
          /\ act'[a].unit = act[a].unit /\ act'[a].state = "Finished" /\ act'[a].direction = "Forward"
          /\ act'[a].kind = act[a].kind /\ act'[a].id = id
      BY <1>0, <3>1 DEF ActionRecords
    <3>3. Held' = Held
      BY <3>2 DEF Held
    <3>4. /\ id \in Nat /\ id # 0
          /\ \A v \in units \cup Held : v.id # id
          /\ \A b \in Owned : b # a /\ act[b].kind = "CreateNewUnit" => act[b].id # id
      <4>1. Runs(a, "CreateNewUnit", "Forward", 1)
        BY <1>4 DEF CreateForward
      <4> HIDE DEF id
      <4>2. id = IF act[a].id = 0 THEN NextUnitId ELSE act[a].id
        BY DEF id
      <4> QED
        BY <4>1, <4>2, CreationIdIsFree
    <3>5. id <= unitIdCounter' /\ unitIdCounter <= unitIdCounter' /\ u.id = id
      <4>1. unitIdCounter \in Nat /\ id \in Nat
        BY <3>4 DEF Inv, TypeOK
      <4> HIDE DEF id
      <4> QED
        BY <3>1, <4>1
    <3> HIDE DEF id, u
    <3>6. UnitHasOnePlace'
      <4>1. u \notin Held
        BY <3>4, <3>5
      <4>2. \A b \in ActionIds : act'[b].unit = act[b].unit
        BY <3>2
      <4> QED
        BY <3>1, <3>3, <4>1, <4>2 DEF UnitInv, UnitsAreUnique, UnitHasOnePlace
    <3>7. UnitIdsAreUnique'
      <4>1. \A v, w \in units' \cup Held' : v.id = w.id => v = w
        BY <3>1, <3>3, <3>4, <3>5 DEF UnitInv, UnitsAreUnique, UnitIdsAreUnique
      <4>2. \A v \in units \cup Held : v.id \in Nat /\ v.id <= unitIdCounter
        BY HeldUnits DEF UnitInv, UnitsAreUnique, UnitIdsAreUnique, Inv, TypeOK, Units
      <4>3. \A v \in units' \cup Held' : v.id <= unitIdCounter'
        BY <3>1, <3>3, <3>4, <3>5, <4>2 DEF Inv, TypeOK
      <4>4. \A b \in Owned : act[b].kind = "CreateNewUnit" => act[b].id \in Nat /\ act[b].id <= unitIdCounter
        BY HeldUnits DEF UnitInv, UnitsAreUnique, UnitIdsAreUnique, Inv, TypeOK, ActionRecords
      <4>5. \A b \in Owned' : act'[b].kind = "CreateNewUnit" => act'[b].id <= unitIdCounter'
        <5>1. \A b \in Owned : b # a => act'[b] = act[b]
          BY <3>2, HeldUnits DEF Inv
        <5>2. unitIdCounter \in Nat /\ unitIdCounter' \in Nat
          BY DEF Inv, TypeOK
        <5> SUFFICES ASSUME NEW b \in Owned, act'[b].kind = "CreateNewUnit"
                     PROVE  act'[b].id <= unitIdCounter'
          BY <1>2
        <5> QED
          BY <3>2, <3>4, <3>5, <4>4, <5>1, <5>2
      <4> QED
        BY <4>1, <4>3, <4>5 DEF UnitIdsAreUnique
    <3>8. \A b, c \in Owned' :
            act'[b].kind = "CreateNewUnit" /\ act'[c].kind = "CreateNewUnit"
              /\ act'[b].id = act'[c].id /\ act'[b].id # 0 => b = c
      <4>1. \A b \in Owned : b # a => act'[b] = act[b]
        BY <3>2, HeldUnits DEF Inv
      <4> QED
        BY <1>1, <1>2, <3>2, <3>4, <3>5, <4>1 DEF UnitInv
    <3>9. \A b \in Owned' : Undone(b)' => act'[b].id \notin Ids(units' \cup Held')
      <4>1. \A b \in Owned : b # a => act'[b] = act[b]
        BY <3>2, HeldUnits DEF Inv
      <4>2. ~Undone(a)'
        BY <3>2 DEF Undone
      <4>3. \A b \in Owned : b # a /\ Undone(b)' => act[b].kind = "CreateNewUnit" /\ act[b].id \notin Ids(units \cup Held)
        BY <4>1 DEF Undone, UnitInv
      <4> QED
        <5> SUFFICES ASSUME NEW b \in Owned, Undone(b)', NEW v \in units' \cup Held', v.id = act'[b].id
                     PROVE  FALSE
          BY <1>2 DEF Ids
        <5>1. b # a
          BY <4>2
        <5>2. act'[b] = act[b] /\ act[b].kind = "CreateNewUnit" /\ act[b].id \notin Ids(units \cup Held)
          BY <4>1, <4>3, <5>1
        <5>3. v \in units \cup Held \/ v = u
          BY <3>1, <3>3
        <5> QED
          BY <3>4, <3>5, <5>1, <5>2, <5>3 DEF Ids
    <3> QED
      BY <3>1, <3>3, <3>4, <3>5, <3>6, <3>7, <3>8, <3>9 DEF UnitInv, UnitsAreUnique
  <2> QED
    BY <2>1, <2>2
<1>5. CASE CreateBackward(a)
  <2>1. CASE act[a].id \notin Ids(units)
    <3>1. UNCHANGED <<units, unitIdCounter, act>>
      BY <1>5, <2>1 DEF CreateBackward
    <3> QED
      BY <1>2, <3>1, HeldUnits, NoNewUnit DEF Inv, Undone
  <2>2. CASE act[a].id \in Ids(units)
    <3>1. /\ units' = {u \in units : u.id # act[a].id}
          /\ UNCHANGED unitIdCounter
          /\ Finish(a)
      BY <1>5, <2>2 DEF CreateBackward
    <3>2. /\ \A b \in ActionIds : b # a => act'[b] = act[b]
          /\ act'[a].unit = act[a].unit
          /\ act'[a].kind = act[a].kind /\ act'[a].id = act[a].id
      BY <1>0, <3>1 DEF Finish, ActionRecords
    <3>3. Held' = Held
      BY <3>2 DEF Held
    <3>4. act[a].id \notin Ids(units' \cup Held')
      <4>1. PICK u \in units : u.id = act[a].id
        BY <2>2 DEF Ids
      <4>2. \A v \in Held : v.id # act[a].id
        BY <4>1 DEF UnitInv, UnitsAreUnique, UnitIdsAreUnique, UnitHasOnePlace
      <4> QED
        BY <3>1, <3>3, <4>2 DEF Ids
    <3>5. \A b \in Owned : b # a => act'[b] = act[b] /\ (Undone(b)' => Undone(b))
      BY <3>2, HeldUnits DEF Inv, Undone
    <3> QED
      BY <1>2, <3>1, <3>2, <3>4, <3>5, NoNewUnit DEF Inv
  <2> QED
    BY <2>1, <2>2
<1> QED
  BY <1>4, <1>5

\* A deletion moves one unit from the project into the action, its undo moves it back.
LEMMA DeleteUnits ==
  ASSUME Inv, TypeOK', UnitInv, NEW a \in ActionIds,
         DeleteForward1(a) \/ DeleteForward2(a) \/ DeleteBackward1(a) \/ DeleteBackward2(a)
  PROVE  UnitInv'
<1>0. act \in [ActionIds -> ActionRecords] /\ act[a] \in ActionRecords
  BY DEF Inv, TypeOK
<1>1. /\ At(a) /\ act[a].state = "Executing" /\ act[a].kind = "DeleteUnit"
      /\ UNCHANGED <<actions, undoList, redoList, unitIdCounter>>
  BY DEF DeleteForward1, DeleteForward2, DeleteBackward1, DeleteBackward2, Runs, listVars, projectVars
<1>2. Owned' = Owned
  BY <1>1 DEF Owned
<1>3. ASSUME \A b \in ActionIds : b # a => act'[b] = act[b],
             act'[a].kind = "DeleteUnit"
      PROVE  \A b \in Owned : act'[b].kind = "CreateNewUnit" => act'[b] = act[b]
  BY <1>3, HeldUnits DEF Inv
<1>4. ASSUME UNCHANGED units, \A b \in ActionIds : b # a => act'[b] = act[b],
             act'[a].kind = "DeleteUnit", act'[a].unit = act[a].unit
      PROVE  UnitInv'
  BY <1>1, <1>2, <1>3, <1>4, NoNewUnit DEF Inv, Undone
<1>5. CASE DeleteForward1(a) \/ DeleteBackward2(a)
  <2>1. /\ UNCHANGED units
        /\ \A b \in ActionIds : b # a => act'[b] = act[b]
        /\ act'[a].kind = act[a].kind /\ act'[a].unit = act[a].unit
    BY <1>0, <1>5 DEF DeleteForward1, DeleteBackward2, StepTwo, Finish, projectVars, ActionRecords
  <2> QED
    BY <1>1, <1>4, <2>1
<1>6. CASE DeleteForward2(a)
  <2>1. CASE act[a].id \in unitViews /\ act[a].id \in Ids(units)
    <3>1. PICK u \in units : units' = units \ {u} /\ act' = [act EXCEPT ![a].unit = u, ![a].state = "Finished"]
      BY <1>6, <2>1 DEF DeleteForward2, Ids
    <3>2. /\ \A b \in ActionIds : b # a => act'[b] = act[b]
          /\ act'[a].unit = u /\ act'[a].kind = "DeleteUnit"
      BY <1>0, <1>1, <3>1 DEF ActionRecords
    <3>3. Held' \subseteq Held \cup {u} /\ u \notin Held
      BY <3>2 DEF Held, UnitInv, UnitsAreUnique, UnitHasOnePlace
    <3>4. UnitHasOnePlace'
      <4>1. \A b \in ActionIds : act[b].unit # NoUnit => act[b].unit # u
        BY <3>3 DEF Held
      <4>2. \A b \in ActionIds : b # a => act'[b].unit = act[b].unit
        BY <3>2
      <4>3. \A b, c \in ActionIds : act'[b].unit = act'[c].unit /\ act'[b].unit # NoUnit => b = c
        BY <3>2, <4>1, <4>2 DEF UnitInv, UnitsAreUnique, UnitHasOnePlace
      <4>4. units' \cap Held' = {}
        BY <3>1, <3>3 DEF UnitInv, UnitsAreUnique, UnitHasOnePlace
      <4> QED
        BY <4>3, <4>4 DEF UnitHasOnePlace
    <3>5. units' \cup Held' \subseteq units \cup Held
      BY <3>1, <3>3
    <3>6. \A b \in Owned : act'[b].kind = "CreateNewUnit" => act'[b] = act[b]
      BY <1>3, <3>2
    <3>7. UnitIdsAreUnique'
      BY <1>1, <1>2, <3>5, <3>6 DEF UnitInv, UnitsAreUnique, UnitIdsAreUnique
    <3>8. \A b \in Owned : Undone(b)' => Undone(b) /\ act'[b] = act[b]
      BY <3>6 DEF Undone
    <3>9. \A b \in Owned' : Undone(b)' => act'[b].id \notin Ids(units' \cup Held')
      BY <1>2, <3>5, <3>8 DEF UnitInv, Ids
    <3> QED
      BY <1>2, <3>4, <3>5, <3>6, <3>7, <3>9 DEF UnitInv, UnitsAreUnique
  <2>2. CASE ~(act[a].id \in unitViews /\ act[a].id \in Ids(units))
    <3>1. Abort(a) /\ UNCHANGED units
      BY <1>6, <2>2 DEF DeleteForward2
    <3>2. /\ \A b \in ActionIds : b # a => act'[b] = act[b]
          /\ act'[a].kind = act[a].kind /\ act'[a].unit = act[a].unit
      BY <1>0, <3>1 DEF Abort, ActionRecords
    <3> QED
      BY <1>1, <1>4, <3>1, <3>2
  <2> QED
    BY <2>1, <2>2
<1>7. CASE DeleteBackward1(a)
  <2> DEFINE u == act[a].unit
  <2>1. /\ units' = units \cup {u}
        /\ \A b \in ActionIds : b # a => act'[b] = act[b]
        /\ act'[a].unit = NoUnit /\ act'[a].kind = "DeleteUnit"
    BY <1>0, <1>1, <1>7 DEF DeleteBackward1, ActionRecords
  <2>2. /\ Held' \subseteq Held /\ u \notin Held'
        /\ u \in Held \/ u = NoUnit
    <3>1. \A b \in ActionIds : b # a /\ act[b].unit = u => u = NoUnit
      BY DEF UnitInv, UnitsAreUnique, UnitHasOnePlace
    <3> QED
      BY <2>1, <3>1, HeldUnits DEF Inv, Held
  <2> HIDE DEF u
  <2>3. \A v, w \in units' \cup Held' : v.id = w.id => v = w
    <3>1. \A v \in units \cup Held : v.id = NoUnit.id => v = NoUnit
      BY DEF UnitInv, NoUnit
    <3> QED
      BY <2>1, <2>2, <3>1 DEF UnitInv, UnitsAreUnique, UnitIdsAreUnique
  <2>4. \A v \in units' \cup Held' : v.id <= unitIdCounter'
    <3>1. NoUnit.id <= unitIdCounter
      BY DEF NoUnit, Inv, TypeOK
    <3> QED
      BY <1>1, <2>1, <2>2, <3>1 DEF UnitInv, UnitsAreUnique, UnitIdsAreUnique
  <2>5. \A b \in Owned : act'[b].kind = "CreateNewUnit" => act'[b] = act[b]
    BY <1>3, <2>1
  <2>6. UnitIdsAreUnique'
    BY <1>1, <1>2, <2>3, <2>4, <2>5 DEF UnitInv, UnitsAreUnique, UnitIdsAreUnique
  <2>7. UnitHasOnePlace'
    <3>1. \A b, c \in ActionIds : act'[b].unit = act'[c].unit /\ act'[b].unit # NoUnit => b = c
      BY <2>1 DEF UnitInv, UnitsAreUnique, UnitHasOnePlace
    <3>2. units' \cap Held' = {}
      BY <2>1, <2>2 DEF UnitInv, UnitsAreUnique, UnitHasOnePlace
    <3> QED
      BY <3>1, <3>2 DEF UnitHasOnePlace
  <2>8. \A b \in Owned' : Undone(b)' => act'[b].id \notin Ids(units' \cup Held')
    <3>1. \A b \in Owned : Undone(b)' => Undone(b) /\ act'[b] = act[b] /\ act[b].id # 0
      BY <2>5 DEF Undone
    <3>2. NoUnit.id = 0
      BY DEF NoUnit
    <3> QED
      BY <1>2, <2>1, <2>2, <3>1, <3>2 DEF UnitInv, Ids
  <2> QED
    <3>1. \A v \in units' \cup Held' : v.id = 0 => v = NoUnit
      BY <2>1, <2>2 DEF UnitInv
    <3>2. \A b, c \in Owned' :
            act'[b].kind = "CreateNewUnit" /\ act'[c].kind = "CreateNewUnit"
              /\ act'[b].id = act'[c].id /\ act'[b].id # 0 => b = c
      BY <1>2, <2>5 DEF UnitInv
    <3> QED
      BY <2>6, <2>7, <2>8, <3>1, <3>2 DEF UnitInv, UnitsAreUnique
<1> QED
  BY <1>5, <1>6, <1>7

\* Undo and redo restart an action; a creation keeps its ID, and a redone one was undone.
LEMMA UndoRedoUnits ==
  ASSUME Inv, TypeOK', UnitInv, NEW a \in ActionIds, UndoExec(a) \/ RedoExec(a)
  PROVE  UnitInv'
<1>0. act \in [ActionIds -> ActionRecords]
  BY DEF Inv, TypeOK
<1>1. /\ act[a].kind \in {"Undo", "Redo"} /\ UNCHANGED <<units, unitIdCounter>>
      /\ a \in ToSet(actions)
  BY Positions DEF UndoExec, RedoExec, Runs, At, projectVars, Inv, TypeOK
<1>2. ASSUME Finish(a), UNCHANGED <<actions, undoList, redoList>>
      PROVE  UnitInv'
  <2>1. /\ \A b \in ActionIds : act'[b].unit = act[b].unit /\ (act[b].kind = "CreateNewUnit" => act'[b] = act[b])
        /\ \A b \in ActionIds : act'[b].kind = act[b].kind
    BY <1>0, <1>1, <1>2 DEF Finish, ActionRecords
  <2>2. Owned' = Owned
    BY <1>2 DEF Owned
  <2> QED
    BY <1>1, <2>1, <2>2, HeldUnits, NoNewUnit DEF Inv, Undone
<1>3. ASSUME NEW b \in ToSet(undoList) \cup ToSet(redoList), NEW direction \in {"Forward", "Backward"},
             Replay(a, b, direction),
             ToSet(undoList') \subseteq ToSet(undoList), ToSet(redoList') \subseteq ToSet(redoList),
             direction = "Forward" => b \in ToSet(redoList)
      PROVE  UnitInv'
  <2>1. b \in ActionIds /\ b \notin ToSet(actions) /\ a # b
    BY <1>1, <1>3, Positions DEF Inv, OneOwner
  <2>2. Owned' \subseteq Owned
    <3>1. actions \in Seq(ActionIds) /\ actions' = Append(actions, b)
      BY <1>3 DEF Inv, TypeOK, Replay
    <3>2. ToSet(actions') = ToSet(actions) \cup {b}
      BY <2>1, <3>1, AppendDistinct DEF Inv, OneOwner
    <3> QED
      BY <1>3, <3>2 DEF Owned
  <2>3. \A c \in ActionIds : /\ act'[c].unit = act[c].unit
                            /\ act'[c].kind = act[c].kind
                            /\ act'[c].id = act[c].id
    BY <1>0, <1>3, <2>1 DEF Replay, ActionRecords
  <2>4. \A c \in ActionIds \ {a, b} : act'[c] = act[c]
    BY <1>0, <1>3, <2>1 DEF Replay, ActionRecords
  <2>5. act'[b].direction = direction /\ act'[b].state = "Executing"
    BY <1>0, <1>3, <2>1 DEF Replay, ActionRecords
  <2>6. b \in ToSet(redoList) => act[b].state = "Finished" /\ act[b].direction = "Backward"
    BY DEF Inv, ListsHoldTheirKind
  <2>7. \A c \in ActionIds : Undone(c)' => Undone(c)
    <3>1. \A c \in ActionIds \ {a, b} : Undone(c)' => Undone(c)
      BY <2>4 DEF Undone
    <3>2. ~Undone(a)'
      BY <1>1, <2>3 DEF Undone
    <3>3. Undone(b)' => Undone(b)
      <4>1. Undone(b)' => direction = "Forward" /\ act[b].kind = "CreateNewUnit" /\ act[b].id # 0
        BY <2>1, <2>3, <2>5 DEF Undone
      <4> QED
        BY <1>3, <2>6, <4>1 DEF Undone
    <3> QED
      BY <3>1, <3>2, <3>3
  <2> QED
    BY <1>1, <2>2, <2>3, <2>7, HeldUnits, NoNewUnit DEF Inv
<1>4. CASE UndoExec(a) /\ Len(undoList) # 0
  <2>1. undoList' = Front(undoList) /\ redoList' = redoList /\ Replay(a, Last(undoList), "Backward")
    BY <1>4 DEF UndoExec
  <2>2. ToSet(Front(undoList)) \subseteq ToSet(undoList) /\ Last(undoList) \in ToSet(undoList)
    BY <1>4, FrontDistinct DEF Inv, TypeOK, OneOwner
  <2> QED
    BY <1>3, <2>1, <2>2
<1>5. CASE RedoExec(a) /\ Len(redoList) # 0
  <2>1. redoList' = Front(redoList) /\ undoList' = undoList /\ Replay(a, Last(redoList), "Forward")
    BY <1>5 DEF RedoExec
  <2>2. ToSet(Front(redoList)) \subseteq ToSet(redoList) /\ Last(redoList) \in ToSet(redoList)
    BY <1>5, FrontDistinct DEF Inv, TypeOK, OneOwner
  <2> QED
    BY <1>3, <2>1, <2>2
<1> QED
  BY <1>2, <1>4, <1>5 DEF UndoExec, RedoExec

\* The steps that touch no unit: of a route, of a plan, of a task and of a waiting action.
LEMMA OtherUnits ==
  ASSUME Inv, TypeOK', UnitInv,
         \/ \E a \in ActionIds : \/ RouteForward1(a) \/ RouteBackward1(a) \/ Route2(a)
                                 \/ UpdateRenderPlan1(a) \/ UpdateRenderPlan2(a)
                                 \/ CheckWaitingCondition(a) \/ SweepKeep(a)
         \/ PublishPlan \/ EndWalk \/ EndPass \/ RtStep
  PROVE  UnitInv'
<1>0. act \in [ActionIds -> ActionRecords]
  BY DEF Inv, TypeOK
<1>1. ASSUME UNCHANGED <<units, unitIdCounter, actions, undoList, redoList>>,
             NEW a \in ActionIds,
             \A b \in ActionIds : b # a => act'[b] = act[b],
             /\ act'[a].unit = act[a].unit /\ act'[a].kind = act[a].kind
             /\ act'[a].id = act[a].id /\ act'[a].direction = act[a].direction,
             act'[a].state \in {"Executing", "Waiting"} =>
               act[a].state \in {"Executing", "Waiting"},
             act'[a].state = "Finished" => act'[a].state = act[a].state \/ act[a].kind # "CreateNewUnit"
      PROVE  UnitInv'
  <2>1. Owned' = Owned
    BY <1>1 DEF Owned
  <2>2. \A b \in ActionIds : /\ act'[b].unit = act[b].unit
                            /\ act'[b].kind = act[b].kind /\ act'[b].id = act[b].id
                            /\ Undone(b)' => Undone(b)
    BY <1>1 DEF Undone
  <2> QED
    BY <1>1, <2>1, <2>2, HeldUnits, NoNewUnit DEF Inv
<1>2. ASSUME UNCHANGED <<units, unitIdCounter, actions, undoList, redoList, act>>
      PROVE  UnitInv'
  <2>1. ActionIds # {}
    BY EngineAssumption
  <2> QED
    BY <1>1, <1>2, <2>1
<1>3. ASSUME NEW a \in ActionIds,
             \/ RouteForward1(a) \/ RouteBackward1(a) \/ Route2(a)
             \/ UpdateRenderPlan1(a) \/ UpdateRenderPlan2(a)
             \/ CheckWaitingCondition(a) \/ SweepKeep(a)
      PROVE  UnitInv'
  <2>1. UNCHANGED <<units, unitIdCounter, actions, undoList, redoList>>
    BY <1>3 DEF RouteForward1, RouteBackward1, Route2, UpdateRenderPlan1, UpdateRenderPlan2,
                CheckWaitingCondition, SweepKeep, listVars, projectVars
  <2>2. CASE RouteForward1(a) \/ RouteBackward1(a) \/ Route2(a) \/ UpdateRenderPlan1(a) \/ UpdateRenderPlan2(a)
    <3>1. act[a].kind # "CreateNewUnit" /\ act[a].state = "Executing"
      BY <2>2 DEF RouteForward1, RouteBackward1, Route2, UpdateRenderPlan1, UpdateRenderPlan2, Runs
    <3>2. UNCHANGED act \/ Finish(a) \/ Abort(a) \/ StepTwo(a)
      BY <2>2 DEF RouteForward1, RouteBackward1, Route2, UpdateRenderPlan1, UpdateRenderPlan2, RebuildOrStepTwo
    <3>3. ASSUME Finish(a) \/ Abort(a) \/ StepTwo(a)
          PROVE  /\ \A b \in ActionIds : b # a => act'[b] = act[b]
                 /\ act'[a].unit = act[a].unit /\ act'[a].kind = act[a].kind
                 /\ act'[a].id = act[a].id /\ act'[a].direction = act[a].direction
      BY <1>0, <3>3 DEF Finish, Abort, StepTwo, ActionRecords
    <3> QED
      BY <1>1, <1>2, <2>1, <3>1, <3>2, <3>3
  <2>3. CASE CheckWaitingCondition(a)
    <3>1. CASE act[a].completed
      <4>1. /\ act[a].state = "Waiting"
            /\ act' = [act EXCEPT ![a].step = 2, ![a].state = "Executing"]
        BY <2>3, <3>1 DEF CheckWaitingCondition
      <4>2. /\ \A b \in ActionIds : b # a => act'[b] = act[b]
            /\ act'[a].unit = act[a].unit /\ act'[a].kind = act[a].kind
            /\ act'[a].id = act[a].id /\ act'[a].direction = act[a].direction
            /\ act'[a].state = "Executing"
        BY <1>0, <4>1 DEF ActionRecords
      <4> QED
        BY <1>1, <2>1, <4>1, <4>2
    <3>2. CASE ~act[a].completed
      BY <1>2, <2>1, <2>3, <3>2 DEF CheckWaitingCondition
    <3> QED
      BY <3>1, <3>2
  <2>4. CASE SweepKeep(a)
    BY <1>2, <2>1, <2>4 DEF SweepKeep
  <2> QED
    BY <1>3, <2>2, <2>3, <2>4
<1>4. CASE PublishPlan
  <2> DEFINE a == pending.action
  <2>1. a \in ActionIds /\ act[a].state = "Executing"
    BY <1>4 DEF PublishPlan, Inv, TypeOK, PassMeetsLiveActions
  <2>2. /\ UNCHANGED <<units, unitIdCounter, actions, undoList, redoList>>
        /\ act' = [act EXCEPT ![a].state = "Waiting", ![a].completed = FALSE]
    BY <1>4 DEF PublishPlan, listVars
  <2> HIDE DEF a
  <2>3. /\ \A b \in ActionIds : b # a => act'[b] = act[b]
        /\ act'[a].unit = act[a].unit /\ act'[a].kind = act[a].kind
        /\ act'[a].id = act[a].id /\ act'[a].direction = act[a].direction
        /\ act'[a].state = "Waiting"
    BY <1>0, <2>1, <2>2 DEF ActionRecords
  <2> QED
    BY <1>1, <2>1, <2>2, <2>3
<1>5. CASE RtExecTask
  <2> DEFINE a == Head(rtTasks)
  <2>1. a \in ActionIds
    <3>1. rtTasks \in Seq(ActionIds) /\ Len(rtTasks) # 0 /\ IsInjective(rtTasks)
      BY <1>5 DEF RtExecTask, Inv, TypeOK, TaskHasItsAction
    <3> QED
      BY <3>1, TailDistinct, Positions DEF Inv
  <2>2. /\ UNCHANGED <<units, unitIdCounter, actions, undoList, redoList>>
        /\ act' = [act EXCEPT ![a].completed = TRUE]
    BY <1>5 DEF RtExecTask, listVars
  <2> HIDE DEF a
  <2>3. /\ \A b \in ActionIds : b # a => act'[b] = act[b]
        /\ act'[a].unit = act[a].unit /\ act'[a].kind = act[a].kind
        /\ act'[a].id = act[a].id /\ act'[a].direction = act[a].direction
        /\ act'[a].state = act[a].state
    BY <1>0, <2>1, <2>2 DEF ActionRecords
  <2> QED
    BY <1>1, <2>1, <2>2, <2>3
<1>6. CASE EndWalk \/ EndPass \/ RtRender \/ RtEndBlock
  BY <1>2, <1>6 DEF EndWalk, EndPass, RtRender, RtEndBlock, listVars, projectVars
<1> QED
  BY <1>3, <1>4, <1>5, <1>6 DEF RtStep

\* An action that is destroyed takes its unit along; one that is kept stays as it is.
LEMMA SweepUnits ==
  ASSUME Inv, TypeOK', UnitInv, NEW a \in ActionIds, SweepErase(a) \/ SweepRetire(a)
  PROVE  UnitInv'
<1>0. act \in [ActionIds -> ActionRecords] /\ UNCHANGED <<units, unitIdCounter>>
  BY DEF Inv, TypeOK, SweepErase, SweepRetire, projectVars
<1>1. a \in ToSet(actions) /\ a \in Owned
  BY Positions DEF SweepErase, SweepRetire, Sweeps, Inv, TypeOK, Owned
<1>2. ToSet(actions') \subseteq ToSet(actions)
  <2>1. actions' = RemoveAt(actions, idx) /\ idx \in 1..Len(actions)
    BY Positions DEF SweepErase, SweepRetire, Sweeps, Inv, TypeOK
  <2> QED
    BY <2>1, RemoveAtDistinct DEF Inv, TypeOK, OneOwner
<1>3. /\ Blank.unit = NoUnit /\ Blank.kind = "Undo"
  BY DEF Blank, NewAction
<1>4. ASSUME NEW b \in ActionIds, act' = [act EXCEPT ![b] = Blank] \/ act' = act,
             Owned' \subseteq Owned
      PROVE  UnitInv'
  <2>1. \A c \in ActionIds : act'[c] = act[c] \/ act'[c] = Blank
    BY <1>0, <1>4
  <2> QED
    BY <1>0, <1>3, <1>4, <2>1, HeldUnits, NoNewUnit DEF Inv, Undone
<1>5. CASE SweepErase(a)
  <2>1. Owned' \subseteq Owned /\ act' = [act EXCEPT ![a] = Blank]
    BY <1>2, <1>5 DEF SweepErase, Owned
  <2> QED
    BY <1>4, <2>1
<1>6. CASE SweepRetire(a)
  <2>1. ASSUME NEW list \in Seq(ActionIds), IsInjective(list)
        PROVE  /\ ToSet(Retire(list, a)) \subseteq ToSet(list) \cup {a}
               /\ \E b \in ActionIds : Evict(list) = [act EXCEPT ![b] = Blank] \/ Evict(list) = act
    <3>1. CASE Len(list) >= UndoLimit
      <4>1. Len(list) # 0
        BY <3>1, EngineAssumption
      <4>2. /\ Tail(list) \in Seq(ActionIds)
            /\ ToSet(Tail(list)) \subseteq ToSet(list)
            /\ Head(list) \in ToSet(list) /\ Head(list) \in ActionIds
        BY <2>1, <4>1, TailDistinct, HeadTailProperties
      <4>3. ToSet(Append(Tail(list), a)) = ToSet(Tail(list)) \cup {a}
        BY <4>2, AppendDistinct, ElementsAtPositions
      <4>4. Retire(list, a) = Append(Tail(list), a) /\ Evict(list) = [act EXCEPT ![Head(list)] = Blank]
        BY <3>1, Zenon DEF Retire, Evict
      <4> QED
        BY <4>2, <4>3, <4>4
    <3>2. CASE ~(Len(list) >= UndoLimit)
      <4>1. Retire(list, a) = Append(list, a) /\ Evict(list) = act
        BY <3>2, Zenon DEF Retire, Evict
      <4>2. ToSet(Append(list, a)) = ToSet(list) \cup {a}
        BY <2>1, AppendDistinct
      <4> QED
        BY <4>1, <4>2
    <3> QED
      BY <3>1, <3>2
  <2>2. /\ undoList \in Seq(ActionIds) /\ IsInjective(undoList)
        /\ redoList \in Seq(ActionIds) /\ IsInjective(redoList)
    BY DEF Inv, TypeOK, OneOwner
  <2>3. CASE act[a].direction = "Forward"
    <3>1. undoList' = Retire(undoList, a) /\ act' = Evict(undoList) /\ redoList' = redoList
      BY <1>6, <2>3 DEF SweepRetire
    <3>2. Owned' \subseteq Owned
      BY <1>1, <1>2, <2>1, <2>2, <3>1 DEF Owned
    <3> QED
      BY <1>4, <2>1, <2>2, <3>1, <3>2
  <2>4. CASE act[a].direction # "Forward"
    <3>1. redoList' = Retire(redoList, a) /\ act' = Evict(redoList) /\ undoList' = undoList
      BY <1>6, <2>4 DEF SweepRetire
    <3>2. Owned' \subseteq Owned
      BY <1>1, <1>2, <2>1, <2>2, <3>1 DEF Owned
    <3> QED
      BY <1>4, <2>1, <2>2, <3>1, <3>2
  <2> QED
    BY <2>3, <2>4
<1> QED
  BY <1>5, <1>6

\* Every step keeps the units apart.
LEMMA NextUnits == Inv /\ UnitInv /\ [Next]_vars => UnitInv'
<1> SUFFICES ASSUME Inv, UnitInv, [Next]_vars
             PROVE  UnitInv'
  OBVIOUS
<1>0. TypeOK'
  BY NextType DEF Inv
<1>1. CASE Emit
  BY <1>0, <1>1, EmitUnits
<1>2. CASE ControlStep
  <2>1. ASSUME NEW a \in ActionIds, Exec(a)
        PROVE  UnitInv'
    BY <1>0, <2>1, CreateUnits, DeleteUnits, OtherUnits, UndoRedoUnits DEF Exec
  <2> QED
    BY <1>0, <1>2, <2>1, OtherUnits, SweepUnits DEF ControlStep
<1>3. CASE RtStep
  BY <1>0, <1>3, OtherUnits
<1>4. CASE UNCHANGED vars
  <2>1. UNCHANGED <<units, unitIdCounter, act, actions, undoList, redoList>>
    BY <1>4 DEF vars, projectVars, listVars
  <2> QED
    BY <2>1 DEF UnitInv, UnitsAreUnique, UnitIdsAreUnique, UnitHasOnePlace, Undone, Held, Owned
<1> QED
  BY <1>1, <1>2, <1>3, <1>4 DEF Next

\* It holds in every reachable state.
LEMMA UnitInvariance == Spec => []UnitInv
BY Invariance, InitUnits, NextUnits, PTL DEF Spec

\* However creations and deletions are undone and redone, an ID names one unit and a
\* unit has one owner.
THEOREM UnitsAreUniqueAlways == Spec => []UnitsAreUnique
BY UnitInvariance, PTL DEF UnitInv
=============================================================================
