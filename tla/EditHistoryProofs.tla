------------------------- MODULE EditHistoryProofs -------------------------
(***************************************************************************)
(* What holds of the control engine when one edit is under way at a time:  *)
(* the real-time thread renders live units only, what is heard and what is *)
(* shown follow the project, and the engine is an undo stack.              *)
(***************************************************************************)
EXTENDS EditHistory, ControlEngineProofs

(* ------------------------------ documents ------------------------------- *)

\* Every route of the document ends in units of the document.
Sound(d) ==
  /\ d \in [ids : SUBSET Nat, routes : RouteBags]
  /\ Targets(d.routes) \subseteq d.ids

\* The finished action x has made document e of document d, and has what it needs
\* to make d of e again.
TakesBack(x, e, d) ==
  \/ /\ x.kind = "CreateNewUnit"
     /\ x.id \notin d.ids
     /\ e = [ids |-> d.ids \cup {x.id}, routes |-> d.routes]
  \/ /\ x.kind = "DeleteUnit"
     /\ x.id \in d.ids /\ e.ids = d.ids \ {x.id} /\ x.unit.id = x.id
     /\ d.routes = AddRoutes(e.routes, x.saved)
  \/ /\ x.kind = "AddNewRoute"
     /\ x.swap /\ x.route \in Routes
     /\ e = [ids |-> d.ids, routes |-> [d.routes EXCEPT ![x.route] = @ + 1]]

\* The actions of the list, taken back from the newest to the oldest, lead from
\* the document d through all the documents they found.
LeadsBack(list, acts, found, d) ==
  \A i \in 1..Len(list) :
    /\ Sound(found[list[i]])
    /\ TakesBack(acts[list[i]], IF i = Len(list) THEN d ELSE found[list[i + 1]], found[list[i]])

PastOf(list, found) == [i \in 1..Len(list) |-> found[list[i]]]

(* ------------------------- the edit under way --------------------------- *)

Current == Last(actions)

\* The edit under way has changed the project.
Begun == act[Current].step = 2 \/ act[Current].state # "Executing" \/ pc = "publish"

\* The control thread has sent the task of a new plan and it was not yet executed.
Sent == actions # <<>> /\ act[Current].state = "Waiting" /\ ~act[Current].completed

\* What is on the action list: nothing, one action, or a finished undo and the
\* action that it restarted.
OneUnderWay ==
  /\ Len(actions) <= 2
  /\ Len(actions) = 2 => /\ act[actions[1]].kind = "Undo" /\ act[actions[1]].state = "Finished"
                         /\ act[Current].direction = "Backward"
  /\ actions # <<>> =>
       /\ act[Current].kind # "Redo" /\ act[Current].state # "Abort"
       /\ act[Current].direction = "Backward" => act[Current].kind \in Undoables
       /\ act[Current].kind \in {"Undo", "CreateNewUnit"} =>
            act[Current].step = 1 /\ act[Current].state \in {"Executing", "Finished"} /\ pc # "publish"
       /\ act[Current].kind = "AddNewRoute" => act[Current].swap /\ act[Current].route \in Routes

\* The plan in work is that of the project unless a new one is under way, which is
\* then written to the slot that is not in work.
PlanUnderWay ==
  /\ plan[planInWork] \subseteq units
  /\ rtPlan = IF rtPhase = "render" THEN plan[planInWork] ELSE {}
  /\ rtTasks = IF Sent THEN <<Current>> ELSE <<>>
  /\ pc = "publish" => pending = [action |-> Current, slot |-> 1 - planInWork, plan |-> BuildPlan(units, routes)]
  /\ Sent => plan[1 - planInWork] = BuildPlan(units, routes)
  /\ ~Sent /\ pc # "publish" => plan[planInWork] = BuildPlan(units, routes)

\* The snapshot shows the project, except for a route that is being added or taken away.
ViewsUnderWay ==
  /\ unitViews = Ids(units)
  /\ \A r \in Routes :
       r.kind = "audio" /\ routeViews[r] # routes[r] =>
         /\ actions # <<>>
         /\ act[Current].kind = "AddNewRoute" /\ act[Current].route = r
         /\ Begun /\ act[Current].state # "Finished"

\* How far an edit under way has come from the document it found.
ForwardUnderWay ==
  /\ act[Current].kind \notin Undoables \/ ~Begun => Document = restDoc
  /\ act[Current].kind \in Undoables /\ Begun => before[Current] = restDoc
  /\ ~Begun /\ act[Current].kind = "DeleteUnit" =>
       act[Current].id \in restDoc.ids /\ act[Current].saved = NoRoutes
  /\ ~Begun /\ act[Current].kind = "AddNewRoute" => Endpoints(act[Current].route) \subseteq restDoc.ids
  /\ Begun /\ act[Current].kind \in {"CreateNewUnit", "AddNewRoute"} =>
       TakesBack(act[Current], Document, restDoc)
  /\ Begun /\ act[Current].kind = "DeleteUnit" =>
       IF act[Current].state = "Finished"
       THEN TakesBack(act[Current], Document, restDoc)
       ELSE /\ Document.ids = restDoc.ids /\ act[Current].id \in restDoc.ids
            /\ act[Current].id \notin Targets(routes)
            /\ restDoc.routes = AddRoutes(routes, act[Current].saved)

\* An undo under way has taken back its edit in its first step.
BackwardUnderWay ==
  /\ Sound(before[Current])
  /\ ~Begun => Document = restDoc /\ TakesBack(act[Current], restDoc, before[Current])
  /\ Begun => Document = before[Current]

HistoryUnderWay ==
  IF actions # <<>> /\ act[Current].direction = "Backward"
  THEN /\ restPast = Append(PastOf(undoList, before), before[Current])
       /\ LeadsBack(undoList, act, before, before[Current])
       /\ BackwardUnderWay
  ELSE /\ restPast = PastOf(undoList, before)
       /\ LeadsBack(undoList, act, before, restDoc)
       /\ actions = <<>> => Document = restDoc
       /\ actions # <<>> => ForwardUnderWay

SerialInv ==
  /\ fault = "none"
  /\ Sound(Document) /\ Sound(restDoc)
  /\ Len(undoList) <= UndoLimit
  /\ OneUnderWay
  /\ PlanUnderWay
  /\ ViewsUnderWay
  /\ HistoryUnderWay

(* -------------------- lemmas about routes and plans --------------------- *)

\* A unit's routes are the routes that name it.
LEMMA TargetsOfRoutes ==
  ASSUME NEW rs
  PROVE  /\ \A id : UnitHaveRoutes(rs, id) <=> id \in Targets(rs)
         /\ \A n : n \in Targets(rs) <=> \E r \in Routes : rs[r] > 0 /\ n \in Endpoints(r)
BY DEF UnitHaveRoutes, Targets, Present

\* What a change of routes does to the units that are named.
LEMMA TargetsAfter ==
  ASSUME NEW rs \in RouteBags
  PROVE  /\ \A id : /\ Targets(RemoveRoutesForId(rs, id)) \subseteq Targets(rs)
                    /\ id \notin Targets(RemoveRoutesForId(rs, id))
         /\ \A r \in Routes : /\ [rs EXCEPT ![r] = @ + 1] \in RouteBags
                              /\ Targets([rs EXCEPT ![r] = @ + 1]) \subseteq Targets(rs) \cup Endpoints(r)
<1>1. ASSUME NEW id
      PROVE  /\ Targets(RemoveRoutesForId(rs, id)) \subseteq Targets(rs)
             /\ id \notin Targets(RemoveRoutesForId(rs, id))
  <2>1. \A r \in Routes : RemoveRoutesForId(rs, id)[r] > 0 => rs[r] > 0 /\ id \notin Endpoints(r)
    BY DEF RemoveRoutesForId
  <2> QED
    BY <2>1, TargetsOfRoutes
<1>2. ASSUME NEW r \in Routes
      PROVE  /\ [rs EXCEPT ![r] = @ + 1] \in RouteBags
             /\ Targets([rs EXCEPT ![r] = @ + 1]) \subseteq Targets(rs) \cup Endpoints(r)
  <2> DEFINE more == [rs EXCEPT ![r] = @ + 1]
  <2>1. more \in RouteBags
    BY DEF RouteBags
  <2>2. \A q \in Routes : q # r => more[q] = rs[q]
    BY DEF RouteBags
  <2> HIDE DEF more
  <2>3. \A n \in Targets(more) : n \in Targets(rs) \/ n \in Endpoints(r)
    BY <2>2, TargetsOfRoutes
  <2> QED
    BY <2>1, <2>3 DEF more
<1> QED
  BY <1>1, <1>2

\* The routes of a unit that are taken out and saved are those that return.
LEMMA SavedRoutesReturn ==
  ASSUME NEW rs \in RouteBags, NEW id \in Nat, \A r \in Routes : r.source = r.target => r.source = EXT
  PROVE  AddRoutes(RemoveRoutesForId(rs, id), AddRoutes(NoRoutes, RoutesToSave(rs, id))) = rs
<1>1. \A r \in Routes : rs[r] \in Nat /\ ~(r.source = id /\ r.target = id)
  BY EXTAssumption DEF RouteBags
<1>2. \A r \in Routes : r.source = id => id \in Endpoints(r)
  BY EXTAssumption DEF Endpoints
<1>3. \A r \in Routes :
        AddRoutes(RemoveRoutesForId(rs, id), AddRoutes(NoRoutes, RoutesToSave(rs, id)))[r] = rs[r]
  BY <1>1, <1>2 DEF AddRoutes, RemoveRoutesForId, RoutesToSave, NoRoutes
<1>4. /\ rs = [r \in Routes |-> rs[r]]
      /\ DOMAIN AddRoutes(RemoveRoutesForId(rs, id), AddRoutes(NoRoutes, RoutesToSave(rs, id))) = Routes
  BY DEF RouteBags, AddRoutes
<1> QED
  BY <1>3, <1>4 DEF AddRoutes

\* Adding no routes changes none.
LEMMA NothingAdded ==
  ASSUME NEW rs \in RouteBags
  PROVE  AddRoutes(rs, NoRoutes) = rs
BY DEF RouteBags, AddRoutes, NoRoutes

\* The copy of a route that was added last is the one that goes.
LEMMA RouteTakenBack ==
  ASSUME NEW rs \in RouteBags, NEW r \in Routes
  PROVE  /\ [rs EXCEPT ![r] = @ + 1][r] # 0
         /\ [[rs EXCEPT ![r] = @ + 1] EXCEPT ![r] = @ - 1] = rs
<1>1. rs \in [Routes -> Nat]
  BY DEF RouteBags
<1>2. (rs[r] + 1) - 1 = rs[r] /\ rs[r] + 1 # 0
  BY <1>1
<1>3. [rs EXCEPT ![r] = @ + 1] \in [Routes -> Nat] /\ [rs EXCEPT ![r] = @ + 1][r] = rs[r] + 1
  BY <1>1
<1>4. \A q \in Routes : [[rs EXCEPT ![r] = @ + 1] EXCEPT ![r] = @ - 1][q] = rs[q]
  BY <1>1, <1>2, <1>3
<1> QED
  BY <1>1, <1>2, <1>3, <1>4

\* Units that no route names may come and go without a new plan.
LEMMA PlanStays ==
  ASSUME NEW rs, NEW us, NEW vs,
         \A u \in us \cup vs : u.id \in Targets(rs) => u \in us /\ u \in vs
  PROVE  BuildPlan(us, rs) = BuildPlan(vs, rs)
BY DEF BuildPlan

\* A sound project has a plan.
LEMMA SoundPlan ==
  ASSUME NEW us, NEW rs, Targets(rs) \subseteq Ids(us)
  PROVE  ~PlanIsFatal(us, rs)
BY DEF PlanIsFatal

(* ------------------- lemmas about the chain of edits -------------------- *)

\* The documents of a list are a sequence of its length.
LEMMA PastElements ==
  ASSUME NEW list \in Seq(ActionIds), NEW found
  PROVE  /\ PastOf(list, found) \in Seq({found[a] : a \in ActionIds})
         /\ Len(PastOf(list, found)) = Len(list)
         /\ \A i \in 1..Len(list) : PastOf(list, found)[i] = found[list[i]]
<1> DEFINE S == {found[a] : a \in ActionIds}
<1>1. Len(list) \in Nat /\ \A i \in 1..Len(list) : found[list[i]] \in S
  BY ElementsAtPositions
<1> HIDE DEF S
<1>2. PastOf(list, found) \in [1..Len(list) -> S]
  BY <1>1 DEF PastOf
<1>3. PastOf(list, found) \in Seq(S)
  BY <1>1, <1>2
<1>4. Len(PastOf(list, found)) = Len(list)
  BY <1>1, <1>2, <1>3, LenProperties
<1> QED
  BY <1>3, <1>4 DEF PastOf, S

\* The chain depends on its own actions only.
LEMMA ChainStays ==
  ASSUME NEW list \in Seq(ActionIds), NEW acts, NEW acts2, NEW found, NEW found2,
         \A a \in ToSet(list) : acts2[a] = acts[a] /\ found2[a] = found[a]
  PROVE  /\ PastOf(list, found2) = PastOf(list, found)
         /\ \A d : LeadsBack(list, acts, found, d) => LeadsBack(list, acts2, found2, d)
<1>1. \A i \in 1..Len(list) : acts2[list[i]] = acts[list[i]] /\ found2[list[i]] = found[list[i]]
  BY ElementsAtPositions
<1>2. \A i \in 1..Len(list) : i # Len(list) => i + 1 \in 1..Len(list)
  BY ElementsAtPositions
<1> QED
  BY <1>1, <1>2 DEF PastOf, LeadsBack

\* A finished edit is put at the end of the chain.
LEMMA ChainGrows ==
  ASSUME NEW list \in Seq(ActionIds), NEW acts, NEW found, NEW a \in ActionIds, NEW d,
         LeadsBack(list, acts, found, found[a]), Sound(found[a]), TakesBack(acts[a], d, found[a])
  PROVE  /\ LeadsBack(Append(list, a), acts, found, d)
         /\ PastOf(Append(list, a), found) = Append(PastOf(list, found), found[a])
<1> DEFINE more == Append(list, a)
<1>1. /\ Len(list) \in Nat /\ Len(more) = Len(list) + 1
      /\ more[Len(list) + 1] = a
      /\ \A i \in 1..Len(list) : more[i] = list[i]
  BY ElementsAtPositions, AppendProperties
<1> HIDE DEF more
<1>2. LeadsBack(more, acts, found, d)
  <2> SUFFICES ASSUME NEW i \in 1..Len(more)
               PROVE  /\ Sound(found[more[i]])
                      /\ TakesBack(acts[more[i]], IF i = Len(more) THEN d ELSE found[more[i + 1]], found[more[i]])
    BY DEF LeadsBack
  <2>1. CASE i = Len(list) + 1
    BY <1>1, <2>1
  <2>2. CASE i \in 1..Len(list)
    <3>1. more[i] = list[i] /\ i # Len(more)
      BY <1>1, <2>2
    <3>2. found[more[i + 1]] = IF i = Len(list) THEN found[a] ELSE found[list[i + 1]]
      BY <1>1, <2>2
    <3> QED
      BY <2>2, <3>1, <3>2 DEF LeadsBack
  <2> QED
    BY <1>1, <2>1, <2>2
<1>3. PastOf(more, found) = Append(PastOf(list, found), found[a])
  <2> DEFINE S == {found[b] : b \in ActionIds}
             past == PastOf(list, found)
  <2>1. more \in Seq(ActionIds) /\ found[a] \in S
    BY AppendProperties DEF more
  <2>2. /\ past \in Seq(S) /\ Len(past) = Len(list) /\ \A i \in 1..Len(list) : past[i] = found[list[i]]
        /\ PastOf(more, found) \in Seq(S) /\ Len(PastOf(more, found)) = Len(more)
        /\ \A i \in 1..Len(more) : PastOf(more, found)[i] = found[more[i]]
    BY <2>1, PastElements
  <2> HIDE DEF S, past
  <2>3. /\ Append(past, found[a]) \in Seq(S) /\ Len(Append(past, found[a])) = Len(list) + 1
        /\ \A i \in 1..Len(list) : Append(past, found[a])[i] = past[i]
        /\ Append(past, found[a])[Len(list) + 1] = found[a]
    BY <2>1, <2>2, AppendProperties
  <2>4. \A i \in 1..Len(more) : PastOf(more, found)[i] = Append(past, found[a])[i]
    BY <1>1, <2>2, <2>3
  <2> QED
    BY <1>1, <2>2, <2>3, <2>4, SeqEqual DEF past
<1> QED
  BY <1>2, <1>3 DEF more

\* The oldest edit may be forgotten.
LEMMA ChainForgets ==
  ASSUME NEW list \in Seq(ActionIds), Len(list) # 0, NEW acts, NEW found, NEW d,
         LeadsBack(list, acts, found, d)
  PROVE  /\ LeadsBack(Tail(list), acts, found, d)
         /\ PastOf(Tail(list), found) = Tail(PastOf(list, found))
<1> DEFINE rest == Tail(list)
<1>1. /\ Len(list) \in Nat \ {0} /\ Len(rest) = Len(list) - 1
      /\ \A i \in 1..(Len(list) - 1) : rest[i] = list[i + 1]
      /\ rest \in Seq(ActionIds)
  BY HeadTailProperties
<1> HIDE DEF rest
<1>2. LeadsBack(rest, acts, found, d)
  <2> SUFFICES ASSUME NEW i \in 1..Len(rest)
               PROVE  /\ Sound(found[rest[i]])
                      /\ TakesBack(acts[rest[i]], IF i = Len(rest) THEN d ELSE found[rest[i + 1]], found[rest[i]])
    BY DEF LeadsBack
  <2>1. i + 1 \in 1..Len(list) /\ rest[i] = list[i + 1]
    BY <1>1
  <2>2. CASE i = Len(rest)
    <3>1. i + 1 = Len(list)
      BY <1>1, <2>2
    <3> QED
      BY <2>1, <2>2, <3>1 DEF LeadsBack
  <2>3. CASE i # Len(rest)
    <3>1. i + 1 # Len(list) /\ i + 1 \in 1..(Len(list) - 1)
      BY <1>1, <2>3
    <3>2. rest[i + 1] = list[(i + 1) + 1]
      BY <1>1, <3>1
    <3> QED
      BY <2>1, <2>3, <3>1, <3>2 DEF LeadsBack
  <2> QED
    BY <2>2, <2>3
<1>3. PastOf(rest, found) = Tail(PastOf(list, found))
  <2> DEFINE S == {found[b] : b \in ActionIds}
             past == PastOf(list, found)
  <2>1. /\ past \in Seq(S) /\ Len(past) = Len(list) /\ \A i \in 1..Len(list) : past[i] = found[list[i]]
        /\ PastOf(rest, found) \in Seq(S) /\ Len(PastOf(rest, found)) = Len(rest)
        /\ \A i \in 1..Len(rest) : PastOf(rest, found)[i] = found[rest[i]]
    BY <1>1, PastElements
  <2> HIDE DEF S, past
  <2>2. /\ Tail(past) \in Seq(S) /\ Len(Tail(past)) = Len(list) - 1
        /\ \A i \in 1..(Len(list) - 1) : Tail(past)[i] = past[i + 1]
    BY <1>1, <2>1, HeadTailProperties
  <2>3. \A i \in 1..(Len(list) - 1) : i + 1 \in 1..Len(list)
    BY <1>1
  <2>4. \A i \in 1..(Len(list) - 1) : PastOf(rest, found)[i] = Tail(past)[i]
    BY <1>1, <2>1, <2>2, <2>3
  <2> QED
    BY <1>1, <2>1, <2>2, <2>4, SeqEqual DEF past
<1> QED
  BY <1>2, <1>3 DEF rest

\* The newest edit is the first to be taken back.
LEMMA ChainShrinks ==
  ASSUME NEW list \in Seq(ActionIds), Len(list) # 0, NEW acts, NEW found, NEW d,
         LeadsBack(list, acts, found, d)
  PROVE  /\ Sound(found[Last(list)])
         /\ TakesBack(acts[Last(list)], d, found[Last(list)])
         /\ LeadsBack(Front(list), acts, found, found[Last(list)])
         /\ PastOf(list, found) = Append(PastOf(Front(list), found), found[Last(list)])
<1>1. /\ Len(list) \in Nat \ {0} /\ Len(Front(list)) = Len(list) - 1
      /\ \A i \in 1..(Len(list) - 1) : Front(list)[i] = list[i]
      /\ Last(list) = list[Len(list)] /\ Last(list) \in ActionIds
      /\ Front(list) \in Seq(ActionIds)
  BY FrontLast, ElementsAtPositions
<1>2. Sound(found[Last(list)]) /\ TakesBack(acts[Last(list)], d, found[Last(list)])
  BY <1>1 DEF LeadsBack
<1>3. LeadsBack(Front(list), acts, found, found[Last(list)])
  <2> SUFFICES ASSUME NEW i \in 1..Len(Front(list))
               PROVE  /\ Sound(found[Front(list)[i]])
                      /\ TakesBack(acts[Front(list)[i]],
                                   IF i = Len(Front(list)) THEN found[Last(list)] ELSE found[Front(list)[i + 1]],
                                   found[Front(list)[i]])
    BY DEF LeadsBack
  <2>1. /\ i \in 1..Len(list) /\ i # Len(list) /\ Front(list)[i] = list[i]
        /\ (IF i = Len(Front(list)) THEN found[Last(list)] ELSE found[Front(list)[i + 1]]) = found[list[i + 1]]
    BY <1>1
  <2> QED
    BY <2>1 DEF LeadsBack
<1>4. PastOf(list, found) = Append(PastOf(Front(list), found), found[Last(list)])
  <2>1. Append(Front(list), Last(list)) = list
    <3>1. /\ Append(Front(list), Last(list)) \in Seq(ActionIds)
          /\ Len(Append(Front(list), Last(list))) = Len(list)
          /\ Append(Front(list), Last(list))[Len(list)] = Last(list)
          /\ \A i \in 1..(Len(list) - 1) : Append(Front(list), Last(list))[i] = Front(list)[i]
      BY <1>1, AppendProperties
    <3>2. \A i \in 1..Len(list) : Append(Front(list), Last(list))[i] = list[i]
      BY <1>1, <3>1
    <3> QED
      BY <3>1, <3>2, SeqEqual
  <2>2. PastOf(Append(Front(list), Last(list)), found) = Append(PastOf(Front(list), found), found[Last(list)])
    <3> DEFINE front == Front(list)
               last == Last(list)
    <3>1. front \in Seq(ActionIds) /\ last \in ActionIds
      BY <1>1
    <3>2. LeadsBack(front, acts, found, found[last]) /\ Sound(found[last]) /\ TakesBack(acts[last], d, found[last])
      BY <1>2, <1>3
    <3> HIDE DEF front, last
    <3>3. PastOf(Append(front, last), found) = Append(PastOf(front, found), found[last])
      BY <3>1, <3>2, ChainGrows
    <3> QED
      BY <3>3 DEF front, last
  <2> QED
    BY <2>1, <2>2
<1> QED
  BY <1>2, <1>3, <1>4

(* --------------------- the edit that is under way ----------------------- *)

\* The edit under way is the last on the list, and on no other list.
LEMMA CurrentOwned ==
  ASSUME Inv, OneUnderWay, actions # <<>>
  PROVE  /\ Len(actions) \in {1, 2} /\ Current = actions[Len(actions)]
         /\ Current \in ActionIds /\ Current \in ToSet(actions)
         /\ Current \notin ToSet(undoList) /\ Current \notin ToSet(redoList)
         /\ act[Current] \in ActionRecords
<1>1. actions \in Seq(ActionIds) /\ Len(actions) \in Nat \ {0}
  BY EmptySeq DEF Inv, TypeOK
<1>2. Current = actions[Len(actions)] /\ Current \in ActionIds
  BY <1>1, FrontLast DEF Current
<1>3. Current \in ToSet(actions)
  BY <1>1, <1>2, ElementsAtPositions
<1>4. Current \notin ToSet(undoList) /\ Current \notin ToSet(redoList)
  BY <1>3 DEF Inv, OneOwner
<1>5. Len(actions) \in {1, 2}
  <2>1. Len(actions) <= 2
    BY DEF OneUnderWay
  <2>2. \A n \in Nat \ {0} : n <= 2 => n \in {1, 2}
    OBVIOUS
  <2> QED
    BY ONLY <1>1, <2>1, <2>2
<1> QED
  BY <1>2, <1>3, <1>4, <1>5 DEF Inv, TypeOK

\* The walk executes the edit under way, since the undo before it has finished.
LEMMA AtCurrent ==
  ASSUME Inv, OneUnderWay, NEW a \in ActionIds, At(a)
  PROVE  actions # <<>> /\ a = Current /\ pc = "walk" /\ idx = Len(actions)
<1>1. idx \in 1..Len(actions) /\ a = actions[idx] /\ pc = "walk" /\ Live(a)
  BY Positions DEF At, Inv, TypeOK, PassMeetsLiveActions
<1>2. actions # <<>>
  BY <1>1
<1>3. Len(actions) = 2 => idx # 1
  BY <1>1 DEF OneUnderWay, Live
<1> QED
  BY <1>1, <1>2, <1>3, CurrentOwned

\* An action that executes has no task in the ring, and the plan follows the project.
LEMMA AtRestPlan ==
  ASSUME Inv, SerialInv, NEW a \in ActionIds, At(a), act[a].state = "Executing"
  PROVE  ~Sent /\ rtTasks = <<>> /\ plan[planInWork] = BuildPlan(units, routes)
BY AtCurrent DEF SerialInv, PlanUnderWay, Sent

\* What the history notes: the document an edit finds when it starts.
LEMMA FoundStays ==
  ASSUME Inv, SerialInv, Observe
  PROVE  /\ \A a \in ActionIds : ~StartsForward(a) => before'[a] = before[a]
         /\ \A a \in ActionIds : StartsForward(a) => before'[a] = Document /\ At(a) /\ a = Current /\ ~Begun
         /\ \A a \in ToSet(undoList) : a \in ActionIds /\ before'[a] = before[a]
<1>1. before' = [a \in ActionIds |-> IF StartsForward(a) THEN Document ELSE before[a]]
  BY DEF Observe
<1>2. ASSUME NEW a \in ActionIds, StartsForward(a)
      PROVE  At(a) /\ actions # <<>> /\ a = Current /\ ~Begun
  <2>1. At(a) /\ act[a].state = "Executing" /\ act[a].step = 1
    BY <1>2 DEF StartsForward, Runs
  <2> QED
    BY <2>1, AtCurrent DEF SerialInv, Begun
<1>3. \A a \in ToSet(undoList) : a \in ActionIds /\ ~StartsForward(a)
  BY <1>2, Positions, CurrentOwned DEF Inv, SerialInv
<1> QED
  BY <1>1, <1>2, <1>3

\* As long as an edit is under way, what there is to take back stays the same.
LEMMA HistoryStays ==
  ASSUME Inv, SerialInv, Observe, actions' # <<>>, undoList' = undoList,
         \A a \in ToSet(undoList) : act'[a] = act[a]
  PROVE  /\ restDoc' = restDoc /\ restPast' = restPast
         /\ PastOf(undoList', before') = PastOf(undoList, before)
         /\ \A d : LeadsBack(undoList, act, before, d) => LeadsBack(undoList', act', before', d)
<1>1. restDoc' = restDoc /\ restPast' = restPast
  BY DEF Observe
<1>2. undoList \in Seq(ActionIds)
  BY DEF Inv, TypeOK
<1>3. \A a \in ToSet(undoList) : act'[a] = act[a] /\ before'[a] = before[a]
  BY FoundStays
<1>4. /\ PastOf(undoList, before') = PastOf(undoList, before)
      /\ \A d : LeadsBack(undoList, act, before, d) => LeadsBack(undoList, act', before', d)
  BY <1>2, <1>3, ChainStays
<1> QED
  BY <1>1, <1>4

\* A step of the edit under way: what has to be shown of the project, the plan, the
\* snapshot and the progress of the edit.
LEMMA StepUnderWay ==
  ASSUME Inv, Inv', SerialInv, Observe, NEW a \in ActionIds, actions # <<>>, a = Current, Live(a),
         UNCHANGED <<actions, undoList>>,
         \A b \in ActionIds \ {a} : act'[b] = act[b],
         /\ act'[a].kind = act[a].kind /\ act'[a].direction = act[a].direction
         /\ act'[a].swap = act[a].swap /\ act'[a].route = act[a].route
         /\ act'[a].state # "Abort",
         act[a].kind \in {"Undo", "CreateNewUnit"} =>
           act'[a].step = 1 /\ act'[a].state \in {"Executing", "Finished"} /\ pc' # "publish",
         fault' = "none", Sound(Document'),
         PlanUnderWay', ViewsUnderWay',
         act[a].direction = "Forward" => ForwardUnderWay',
         act[a].direction = "Backward" => BackwardUnderWay' /\ before'[a] = before[a]
  PROVE  SerialInv'
<1>1. actions # <<>> /\ a = Current /\ Current' = a
  BY DEF Current
<1>2. a \notin ToSet(undoList) /\ ToSet(undoList) \subseteq ActionIds
  BY <1>1, CurrentOwned, Positions DEF SerialInv, Inv
<1>3. /\ restDoc' = restDoc /\ restPast' = restPast
      /\ PastOf(undoList', before') = PastOf(undoList, before)
      /\ \A d : LeadsBack(undoList, act, before, d) => LeadsBack(undoList', act', before', d)
  <2>1. \A b \in ToSet(undoList) : act'[b] = act[b]
    BY <1>2
  <2> QED
    BY <1>1, <2>1, HistoryStays
<1>4. OneUnderWay'
  <2>1. Len(actions) = 2 => actions[1] # a /\ actions[1] \in ActionIds
    <3>1. Len(actions) = 2 => actions[1] \in ActionIds /\ act[actions[1]].state = "Finished"
      BY Positions DEF SerialInv, OneUnderWay, Inv
    <3> QED
      BY <3>1 DEF Live
  <2> QED
    BY <1>1, <2>1 DEF SerialInv, OneUnderWay
<1>5. HistoryUnderWay'
  <2>1. act[a].direction \in {"Forward", "Backward"}
    BY DEF Inv, TypeOK, ActionRecords
  <2>2. CASE act[a].direction = "Forward"
    <3>1. restPast = PastOf(undoList, before) /\ LeadsBack(undoList, act, before, restDoc)
      BY <1>1, <2>2 DEF SerialInv, HistoryUnderWay
    <3> QED
      BY <1>1, <1>3, <2>2, <3>1 DEF HistoryUnderWay
  <2>3. CASE act[a].direction = "Backward"
    <3>1. /\ restPast = Append(PastOf(undoList, before), before[a])
          /\ LeadsBack(undoList, act, before, before[a])
      BY <1>1, <2>3 DEF SerialInv, HistoryUnderWay
    <3> QED
      BY <1>1, <1>3, <2>3, <3>1 DEF HistoryUnderWay
  <2> QED
    BY <2>1, <2>2, <2>3
<1> QED
  BY <1>3, <1>4, <1>5 DEF SerialInv

\* The first half of a step that rebuilds the plan.
LEMMA PlanPrepared ==
  ASSUME Inv, SerialInv, NEW a \in ActionIds, At(a), act[a].state = "Executing",
         actions' = actions, act'[a].state = "Executing",
         PreparePlan(a), Sound(Document'), units \subseteq units',
         UNCHANGED <<plan, planInWork, rtVars>>
  PROVE  PlanUnderWay' /\ fault' = "none" /\ pc' = "publish"
<1>1. a = Current /\ Current' = a /\ actions # <<>>
  BY AtCurrent DEF SerialInv, Current
<1>2. ~PlanIsFatal(units', routes')
  BY SoundPlan DEF Sound, Document
<1>3. /\ pending' = [action |-> a, slot |-> 1 - planInWork, plan |-> BuildPlan(units', routes')]
      /\ pc' = "publish" /\ fault' = fault
  BY <1>2 DEF PreparePlan
<1>4. ~Sent' /\ rtTasks = <<>>
  BY <1>1, AtRestPlan DEF Sent
<1> QED
  BY <1>1, <1>3, <1>4 DEF PlanUnderWay, SerialInv, rtVars

\* A step after which the plan is still the one of the project.
LEMMA PlanKept ==
  ASSUME Inv, SerialInv, NEW a \in ActionIds, At(a), act[a].state = "Executing",
         actions' = actions, act'[a].state \in {"Executing", "Finished"},
         NextAction, BuildPlan(units', routes') = BuildPlan(units, routes),
         UNCHANGED <<plan, planInWork, rtVars>>
  PROVE  PlanUnderWay' /\ fault' = "none" /\ pc' = "walk"
<1>1. a = Current /\ Current' = a /\ pc = "walk" /\ actions # <<>>
  BY AtCurrent DEF SerialInv, Current
<1>2. ~Sent' /\ rtTasks = <<>> /\ plan[planInWork] = BuildPlan(units', routes')
  BY <1>1, AtRestPlan DEF Sent
<1>3. BuildPlan(units', routes') \subseteq units'
  BY PlanType
<1> QED
  BY <1>1, <1>2, <1>3 DEF PlanUnderWay, SerialInv, rtVars, NextAction

(* --------------------------- a unit is created -------------------------- *)

\* A created unit has no routes yet, so that the plan need not change.
LEMMA CreateForwardSerial ==
  ASSUME Inv, Inv', UnitInv, SerialInv, Observe, NEW a \in ActionIds, CreateForward(a)
  PROVE  SerialInv'
<1> DEFINE id == IF act[a].id = 0 THEN NextUnitId ELSE act[a].id
           u == [id |-> id, life |-> lives + 1]
<1>1. /\ Runs(a, "CreateNewUnit", "Forward", 1) /\ NextAction
      /\ UNCHANGED <<routes, plan, planInWork, routeViews, actions, undoList, rtVars>>
  BY Zenon DEF CreateForward, listVars
<1>2. /\ At(a) /\ act[a].state = "Executing" /\ act[a].kind = "CreateNewUnit"
      /\ act[a].direction = "Forward" /\ act[a].step = 1
  BY <1>1 DEF Runs
<1>3. a = Current /\ Current' = a /\ pc = "walk" /\ actions # <<>>
  BY <1>1, <1>2, AtCurrent DEF SerialInv, Current
<1>4. id \notin Ids(units) /\ id \in Nat
  <2> HIDE DEF id
  <2>1. id = IF act[a].id = 0 THEN NextUnitId ELSE act[a].id
    BY DEF id
  <2> QED
    BY <1>1, <2>1, CreationIdIsFree DEF Ids
<1>5. /\ units' = units \cup {u}
      /\ unitViews' = unitViews \cup {id}
      /\ act' = [act EXCEPT ![a].id = id, ![a].state = "Finished"]
  BY <1>4, Zenon DEF CreateForward
<1>6. u.id = id
  OBVIOUS
<1> HIDE DEF id, u
<1>7. /\ \A b \in ActionIds \ {a} : act'[b] = act[b]
      /\ act'[a].kind = act[a].kind /\ act'[a].direction = act[a].direction
      /\ act'[a].swap = act[a].swap /\ act'[a].route = act[a].route
      /\ act'[a].step = 1 /\ act'[a].state = "Finished" /\ act'[a].id = id
  BY <1>2, <1>5 DEF Inv, TypeOK, ActionRecords
<1>8. Ids(units') = Ids(units) \cup {id}
  BY <1>5, <1>6 DEF Ids
<1>9. Document = restDoc /\ before'[a] = Document /\ restDoc' = restDoc
  <2>1. StartsForward(a)
    BY <1>1, <1>2 DEF StartsForward, Undoables
  <2>2. Document = restDoc
    BY <1>2, <1>3 DEF SerialInv, HistoryUnderWay, ForwardUnderWay, Begun
  <2>3. restDoc' = restDoc
    BY <1>1, <1>3 DEF Observe
  <2> QED
    BY <2>1, <2>2, <2>3, FoundStays
<1>10. Document' = [ids |-> Document.ids \cup {id}, routes |-> Document.routes]
  BY <1>1, <1>8 DEF Document
<1>11. Sound(Document')
  BY <1>4, <1>10 DEF SerialInv, Sound
<1>12. PlanUnderWay' /\ fault' = "none" /\ pc' = "walk"
  <2>1. \A v \in units' : v.id \in Targets(routes) => v \in units
    BY <1>4, <1>5, <1>6 DEF SerialInv, Sound, Document
  <2>2. BuildPlan(units', routes') = BuildPlan(units, routes)
    BY <1>1, <1>5, <2>1, PlanStays
  <2> QED
    BY <1>1, <1>2, <1>7, <2>2, PlanKept
<1>13. ViewsUnderWay'
  <2>1. \A r \in Routes : r.kind = "audio" => routeViews[r] = routes[r]
    BY <1>2, <1>3 DEF SerialInv, ViewsUnderWay
  <2>2. unitViews = Ids(units)
    BY DEF SerialInv, ViewsUnderWay
  <2> QED
    BY <1>1, <1>5, <1>8, <2>1, <2>2 DEF ViewsUnderWay
<1>14. ForwardUnderWay'
  <2>1. Begun' /\ Current' = a /\ act'[a].kind = "CreateNewUnit"
    BY <1>2, <1>3, <1>7 DEF Begun
  <2>2. id \notin restDoc.ids
    BY <1>4, <1>9 DEF Document
  <2>3. TakesBack(act'[a], Document', restDoc')
    BY <1>7, <1>9, <1>10, <2>1, <2>2 DEF TakesBack
  <2> QED
    BY <1>9, <2>1, <2>3 DEF ForwardUnderWay, Undoables
<1> QED
  BY <1>1, <1>2, <1>3, <1>7, <1>11, <1>12, <1>13, <1>14, StepUnderWay DEF Live

\* The undo of a creation destroys a unit that no route names, which the real-time
\* thread therefore does not render.
LEMMA CreateBackwardSerial ==
  ASSUME Inv, Inv', UnitInv, SerialInv, Observe, NEW a \in ActionIds, CreateBackward(a)
  PROVE  SerialInv'
<1> DEFINE id == act[a].id
<1>1. /\ Runs(a, "CreateNewUnit", "Backward", 1)
      /\ UNCHANGED <<routes, plan, planInWork, routeViews, actions, undoList, rtVars>>
  BY DEF CreateBackward, listVars
<1>2. /\ At(a) /\ act[a].state = "Executing" /\ act[a].kind = "CreateNewUnit"
      /\ act[a].direction = "Backward" /\ act[a].step = 1
  BY <1>1 DEF Runs
<1>3. a = Current /\ Current' = a /\ pc = "walk" /\ actions # <<>> /\ ~Begun
  BY <1>1, <1>2, AtCurrent DEF SerialInv, Current, Begun
<1>4. /\ Document = restDoc /\ Sound(before[a])
      /\ id \notin before[a].ids
      /\ Document = [ids |-> before[a].ids \cup {id}, routes |-> before[a].routes]
  BY <1>2, <1>3 DEF SerialInv, HistoryUnderWay, BackwardUnderWay, TakesBack
<1>5. id \in Ids(units)
  BY <1>4 DEF Document
<1>6. /\ units' = {u \in units : u.id # id} /\ unitViews' = unitViews \ {id}
      /\ Finish(a) /\ NextAction
  BY <1>5 DEF CreateBackward
<1> HIDE DEF id
<1>7. /\ \A b \in ActionIds \ {a} : act'[b] = act[b]
      /\ act'[a].kind = act[a].kind /\ act'[a].direction = act[a].direction
      /\ act'[a].swap = act[a].swap /\ act'[a].route = act[a].route
      /\ act'[a].step = 1 /\ act'[a].state = "Finished"
  BY <1>2, <1>6 DEF Inv, TypeOK, ActionRecords, Finish
<1>8. Ids(units') = Ids(units) \ {id}
  BY <1>6 DEF Ids
<1>9. Document' = before[a] /\ before'[a] = before[a]
  <2>1. ~StartsForward(a)
    BY <1>2 DEF StartsForward, Runs
  <2>2. before[a].ids = Ids(units) \ {id} /\ before[a].routes = routes
    BY <1>4 DEF Document
  <2>3. before[a] = [ids |-> before[a].ids, routes |-> before[a].routes]
    BY <1>4 DEF Sound
  <2> QED
    BY <1>1, <1>8, <2>1, <2>2, <2>3, FoundStays DEF Document
<1>10. PlanUnderWay' /\ fault' = "none" /\ pc' = "walk"
  <2>1. id \notin Targets(routes)
    BY <1>4 DEF Sound, Document
  <2>2. BuildPlan(units', routes') = BuildPlan(units, routes)
    BY <1>1, <1>6, <2>1, PlanStays
  <2> QED
    BY <1>1, <1>2, <1>6, <1>7, <2>2, PlanKept
<1>11. ViewsUnderWay'
  <2>1. \A r \in Routes : r.kind = "audio" => routeViews[r] = routes[r]
    BY <1>2, <1>3 DEF SerialInv, ViewsUnderWay
  <2>2. unitViews = Ids(units)
    BY DEF SerialInv, ViewsUnderWay
  <2> QED
    BY <1>1, <1>6, <1>8, <2>1, <2>2 DEF ViewsUnderWay
<1>12. BackwardUnderWay'
  BY <1>3, <1>4, <1>7, <1>9 DEF BackwardUnderWay, Begun
<1> QED
  BY <1>1, <1>2, <1>3, <1>4, <1>7, <1>9, <1>10, <1>11, <1>12, StepUnderWay DEF Live

(* --------------------------- a unit is deleted -------------------------- *)

\* The snapshot of a deletion shows the audio routes that the project then has.
LEMMA AudioShown ==
  ASSUME ShowRoutes("audio")
  PROVE  \A r \in Routes : r.kind = "audio" => routeViews'[r] = routes'[r]
BY DEF ShowRoutes

\* The routes of the unit are taken out and saved; together they are what was found.
LEMMA DeleteForward1Serial ==
  ASSUME OneEditAtATime, Inv, Inv', SerialInv, Observe, NEW a \in ActionIds, DeleteForward1(a)
  PROVE  SerialInv'
<1> DEFINE id == act[a].id
<1>1. /\ Runs(a, "DeleteUnit", "Forward", 1)
      /\ UNCHANGED <<units, unitViews, plan, planInWork, actions, undoList, rtVars>>
  BY DEF DeleteForward1, listVars
<1>2. /\ At(a) /\ act[a].state = "Executing" /\ act[a].kind = "DeleteUnit"
      /\ act[a].direction = "Forward" /\ act[a].step = 1
  BY <1>1 DEF Runs
<1>3. a = Current /\ Current' = a /\ pc = "walk" /\ actions # <<>> /\ ~Begun
  BY <1>1, <1>2, AtCurrent DEF SerialInv, Current, Begun
<1>4. /\ Document = restDoc /\ restDoc' = restDoc /\ before'[a] = restDoc
      /\ id \in restDoc.ids /\ act[a].saved = NoRoutes
  <2>1. StartsForward(a)
    BY <1>1, <1>2 DEF StartsForward, Undoables
  <2>2. Document = restDoc /\ id \in restDoc.ids /\ act[a].saved = NoRoutes
    BY <1>2, <1>3 DEF SerialInv, HistoryUnderWay, ForwardUnderWay
  <2>3. restDoc' = restDoc
    BY <1>1, <1>3 DEF Observe
  <2> QED
    BY <2>1, <2>2, <2>3, FoundStays
<1>5. /\ routes \in RouteBags /\ Targets(routes) \subseteq Ids(units) /\ id \in Nat
      /\ restDoc.routes = routes /\ restDoc.ids = Ids(units)
      /\ unitViews = Ids(units)
      /\ \A r \in Routes : r.kind = "audio" => routeViews[r] = routes[r]
  <2>1. routes \in RouteBags /\ id \in Nat
    BY DEF Inv, TypeOK, ActionRecords
  <2>2. Targets(routes) \subseteq Ids(units) /\ restDoc.routes = routes /\ restDoc.ids = Ids(units)
    BY <1>4 DEF SerialInv, Sound, Document
  <2>3. /\ unitViews = Ids(units)
        /\ \A r \in Routes : r.kind = "audio" => routeViews[r] = routes[r]
    BY <1>2, <1>3 DEF SerialInv, ViewsUnderWay
  <2> QED
    BY <2>1, <2>2, <2>3
<1>6. CASE UnitHaveRoutes(routes, id)
  <2>1. /\ routes' = RemoveRoutesForId(routes, id)
        /\ act' = [act EXCEPT ![a].saved = AddRoutes(@, RoutesToSave(routes, id))]
        /\ ShowRoutes("audio") /\ PreparePlan(a)
    BY <1>6 DEF DeleteForward1
  <2> HIDE DEF id
  <2>2. /\ \A b \in ActionIds \ {a} : act'[b] = act[b]
        /\ act'[a].kind = act[a].kind /\ act'[a].direction = act[a].direction
        /\ act'[a].swap = act[a].swap /\ act'[a].route = act[a].route
        /\ act'[a].step = 1 /\ act'[a].state = "Executing" /\ act'[a].id = act[a].id
        /\ act'[a].saved = AddRoutes(NoRoutes, RoutesToSave(routes, id))
    BY <1>2, <1>4, <2>1 DEF Inv, TypeOK, ActionRecords
  <2>3. /\ Targets(routes') \subseteq Targets(routes) /\ id \notin Targets(routes')
        /\ routes' \in RouteBags
        /\ restDoc.routes = AddRoutes(routes', act'[a].saved)
    BY <1>5, <2>1, <2>2, TargetsAfter, RouteBagTypes, SavedRoutesReturn DEF OneEditAtATime
  <2>4. Sound(Document')
    BY <1>1, <1>5, <2>3 DEF Sound, Document, Inv, TypeOK
  <2>5. PlanUnderWay' /\ fault' = "none" /\ pc' = "publish"
    BY <1>1, <1>2, <2>1, <2>2, <2>4, PlanPrepared
  <2>6. ViewsUnderWay'
    BY <1>1, <1>5, <2>1, AudioShown DEF ViewsUnderWay
  <2>7. ForwardUnderWay'
    <3>1. Begun' /\ act'[a].kind = "DeleteUnit" /\ act'[a].state # "Finished"
      BY <1>2, <2>2, <2>5 DEF Begun
    <3>2. act'[a].id = id /\ Document'.ids = restDoc'.ids /\ Document'.routes = routes'
      BY <1>1, <1>4, <1>5, <2>2 DEF Document, id
    <3> QED
      BY <1>3, <1>4, <2>3, <3>1, <3>2 DEF ForwardUnderWay, Undoables
  <2> QED
    BY <1>1, <1>2, <1>3, <2>2, <2>4, <2>5, <2>6, <2>7, StepUnderWay DEF Live
<1>7. CASE ~UnitHaveRoutes(routes, id)
  <2>1. StepTwo(a) /\ NextAction /\ UNCHANGED <<routes, routeViews>>
    BY <1>7 DEF DeleteForward1
  <2> HIDE DEF id
  <2>2. /\ \A b \in ActionIds \ {a} : act'[b] = act[b]
        /\ act'[a].kind = act[a].kind /\ act'[a].direction = act[a].direction
        /\ act'[a].swap = act[a].swap /\ act'[a].route = act[a].route
        /\ act'[a].step = 2 /\ act'[a].state = "Executing" /\ act'[a].id = act[a].id
        /\ act'[a].saved = NoRoutes
    BY <1>2, <1>4, <2>1 DEF Inv, TypeOK, ActionRecords, StepTwo
  <2>3. id \notin Targets(routes') /\ restDoc.routes = AddRoutes(routes', act'[a].saved)
    BY <1>5, <1>7, <2>1, <2>2, TargetsOfRoutes, NothingAdded
  <2>4. Sound(Document') /\ Document' = Document
    BY <1>1, <2>1 DEF SerialInv, Document
  <2>5. PlanUnderWay' /\ fault' = "none" /\ pc' = "walk"
    BY <1>1, <1>2, <2>1, <2>2, PlanKept
  <2>6. ViewsUnderWay'
    BY <1>1, <1>5, <2>1 DEF ViewsUnderWay
  <2>7. ForwardUnderWay'
    <3>1. Begun' /\ act'[a].kind = "DeleteUnit" /\ act'[a].state # "Finished"
      BY <1>2, <1>3, <2>2 DEF Begun
    <3>2. act'[a].id = id /\ Document'.ids = restDoc'.ids
      BY <1>4, <2>2, <2>4 DEF id
    <3> QED
      BY <1>3, <1>4, <2>3, <3>1, <3>2 DEF ForwardUnderWay, Undoables
  <2> QED
    BY <1>1, <1>2, <1>3, <2>2, <2>4, <2>5, <2>6, <2>7, StepUnderWay DEF Live
<1> QED
  BY <1>6, <1>7

\* Then the unit, which no route names any more, moves into the action.
LEMMA DeleteForward2Serial ==
  ASSUME Inv, Inv', UnitInv, SerialInv, Observe, NEW a \in ActionIds, DeleteForward2(a)
  PROVE  SerialInv'
<1> DEFINE id == act[a].id
<1>1. /\ Runs(a, "DeleteUnit", "Forward", 2) /\ NextAction
      /\ UNCHANGED <<routes, plan, planInWork, routeViews, actions, undoList, rtVars>>
  BY DEF DeleteForward2, listVars
<1>2. /\ At(a) /\ act[a].state = "Executing" /\ act[a].kind = "DeleteUnit"
      /\ act[a].direction = "Forward" /\ act[a].step = 2
  BY <1>1 DEF Runs
<1>3. a = Current /\ Current' = a /\ pc = "walk" /\ actions # <<>> /\ Begun
  BY <1>1, <1>2, AtCurrent DEF SerialInv, Current, Begun
<1>4. /\ before[a] = restDoc /\ Document.ids = restDoc.ids /\ id \in restDoc.ids
      /\ id \notin Targets(routes) /\ restDoc.routes = AddRoutes(routes, act[a].saved)
  BY <1>2, <1>3 DEF SerialInv, HistoryUnderWay, ForwardUnderWay, Undoables
<1>5. before'[a] = restDoc /\ restDoc' = restDoc
  <2>1. ~StartsForward(a)
    BY <1>2 DEF StartsForward, Runs
  <2> QED
    BY <1>1, <1>3, <1>4, <2>1, FoundStays DEF Observe
<1>6. id \in Ids(units) /\ unitViews = Ids(units)
  BY <1>4 DEF Document, SerialInv, ViewsUnderWay
<1>7. PICK u \in units : /\ u.id = id /\ units' = units \ {u} /\ unitViews' = unitViews \ {id}
                        /\ act' = [act EXCEPT ![a].unit = u, ![a].state = "Finished"]
  BY <1>6 DEF DeleteForward2, Ids
<1> HIDE DEF id
<1>8. /\ \A b \in ActionIds \ {a} : act'[b] = act[b]
      /\ act'[a].kind = act[a].kind /\ act'[a].direction = act[a].direction
      /\ act'[a].swap = act[a].swap /\ act'[a].route = act[a].route
      /\ act'[a].state = "Finished" /\ act'[a].id = act[a].id
      /\ act'[a].unit = u /\ act'[a].saved = act[a].saved
  BY <1>2, <1>7 DEF Inv, TypeOK, ActionRecords
<1>9. Ids(units') = Ids(units) \ {id}
  <2>1. \A v \in units : v.id = id => v = u
    BY <1>7 DEF UnitInv, UnitsAreUnique, UnitIdsAreUnique
  <2> QED
    BY <1>7, <2>1 DEF Ids
<1>10. Document'.ids = restDoc.ids \ {id} /\ Document'.routes = routes
  BY <1>1, <1>4, <1>9 DEF Document
<1>11. Sound(Document')
  BY <1>1, <1>4, <1>9 DEF SerialInv, Sound, Document
<1>12. PlanUnderWay' /\ fault' = "none" /\ pc' = "walk"
  <2>1. BuildPlan(units', routes') = BuildPlan(units, routes)
    BY <1>1, <1>4, <1>7, PlanStays
  <2> QED
    BY <1>1, <1>2, <1>8, <2>1, PlanKept
<1>13. ViewsUnderWay'
  <2>1. \A r \in Routes : r.kind = "audio" => routeViews[r] = routes[r]
    BY <1>2, <1>3 DEF SerialInv, ViewsUnderWay
  <2> QED
    BY <1>1, <1>6, <1>7, <1>9, <2>1 DEF ViewsUnderWay
<1>14. ForwardUnderWay'
  <2>1. Begun' /\ act'[a].kind = "DeleteUnit" /\ act'[a].state = "Finished"
    BY <1>2, <1>3, <1>8 DEF Begun
  <2>2. TakesBack(act'[a], Document', restDoc')
    BY <1>4, <1>5, <1>7, <1>8, <1>10, <2>1 DEF TakesBack, id
  <2> QED
    BY <1>3, <1>5, <2>1, <2>2 DEF ForwardUnderWay, Undoables
<1> QED
  BY <1>1, <1>2, <1>3, <1>8, <1>11, <1>12, <1>13, <1>14, StepUnderWay DEF Live

\* The undo of a deletion brings back the unit and its routes in one step.
LEMMA DeleteBackward1Serial ==
  ASSUME Inv, Inv', SerialInv, Observe, NEW a \in ActionIds, DeleteBackward1(a)
  PROVE  SerialInv'
<1> DEFINE id == act[a].id
           u == act[a].unit
<1>1. /\ Runs(a, "DeleteUnit", "Backward", 1)
      /\ units' = units \cup {u} /\ unitViews' = unitViews \cup {id}
      /\ UNCHANGED <<plan, planInWork, actions, undoList, rtVars>>
  BY DEF DeleteBackward1, listVars
<1>2. /\ At(a) /\ act[a].state = "Executing" /\ act[a].kind = "DeleteUnit"
      /\ act[a].direction = "Backward" /\ act[a].step = 1
  BY <1>1 DEF Runs
<1>3. a = Current /\ Current' = a /\ pc = "walk" /\ actions # <<>> /\ ~Begun
  BY <1>1, <1>2, AtCurrent DEF SerialInv, Current, Begun
<1>4. /\ Document = restDoc /\ Sound(before[a])
      /\ id \in before[a].ids /\ restDoc.ids = before[a].ids \ {id} /\ u.id = id
      /\ before[a].routes = AddRoutes(restDoc.routes, act[a].saved)
  BY <1>2, <1>3 DEF SerialInv, HistoryUnderWay, BackwardUnderWay, TakesBack
<1>5. before'[a] = before[a]
  <2>1. ~StartsForward(a)
    BY <1>2 DEF StartsForward, Runs
  <2> QED
    BY <2>1, FoundStays
<1>6. /\ routes \in RouteBags /\ Targets(routes) \subseteq Ids(units)
      /\ Ids(units) = before[a].ids \ {id} /\ restDoc.routes = routes
      /\ unitViews = Ids(units)
      /\ \A r \in Routes : r.kind = "audio" => routeViews[r] = routes[r]
  BY <1>2, <1>3, <1>4 DEF Inv, TypeOK, SerialInv, Sound, Document, ViewsUnderWay
<1> HIDE DEF id, u
<1>7. Ids(units') = before[a].ids
  <2>1. Ids(units') = Ids(units) \cup {id}
    BY <1>1, <1>4 DEF Ids
  <2> QED
    BY <1>4, <1>6, <2>1
<1>8. before[a] = [ids |-> before[a].ids, routes |-> before[a].routes]
  BY <1>4 DEF Sound
<1>9. CASE act[a].saved = NoRoutes
  <2>1. /\ act' = [act EXCEPT ![a].unit = NoUnit, ![a].step = 2]
        /\ NextAction /\ UNCHANGED <<routes, routeViews>>
    BY <1>9 DEF DeleteBackward1
  <2>2. /\ \A b \in ActionIds \ {a} : act'[b] = act[b]
        /\ act'[a].kind = act[a].kind /\ act'[a].direction = act[a].direction
        /\ act'[a].swap = act[a].swap /\ act'[a].route = act[a].route
        /\ act'[a].step = 2 /\ act'[a].state = "Executing"
    BY <1>2, <2>1 DEF Inv, TypeOK, ActionRecords
  <2>3. Document' = before[a]
    BY <1>4, <1>6, <1>7, <1>8, <1>9, <2>1, NothingAdded DEF Document
  <2>4. BuildPlan(units', routes') = BuildPlan(units, routes)
    BY <1>1, <1>4, <1>6, <2>1, PlanStays
  <2>5. PlanUnderWay' /\ fault' = "none" /\ pc' = "walk"
    BY <1>1, <1>2, <2>1, <2>2, <2>4, PlanKept
  <2>6. ViewsUnderWay'
    BY <1>1, <1>4, <1>6, <1>7, <2>1 DEF ViewsUnderWay
  <2>7. BackwardUnderWay'
    BY <1>3, <1>4, <1>5, <2>2, <2>3 DEF BackwardUnderWay, Begun
  <2> QED
    BY <1>1, <1>2, <1>3, <1>4, <1>5, <2>2, <2>3, <2>5, <2>6, <2>7, StepUnderWay DEF Live
<1>10. CASE act[a].saved # NoRoutes
  <2>1. /\ act' = [act EXCEPT ![a].unit = NoUnit]
        /\ routes' = AddRoutes(routes, act[a].saved)
        /\ ShowRoutes("audio") /\ PreparePlan(a)
    BY <1>10 DEF DeleteBackward1
  <2>2. /\ \A b \in ActionIds \ {a} : act'[b] = act[b]
        /\ act'[a].kind = act[a].kind /\ act'[a].direction = act[a].direction
        /\ act'[a].swap = act[a].swap /\ act'[a].route = act[a].route
        /\ act'[a].step = 1 /\ act'[a].state = "Executing"
    BY <1>2, <2>1 DEF Inv, TypeOK, ActionRecords
  <2>3. Document' = before[a]
    BY <1>4, <1>6, <1>7, <1>8, <2>1 DEF Document
  <2>4. PlanUnderWay' /\ fault' = "none" /\ pc' = "publish"
    BY <1>1, <1>2, <1>4, <2>1, <2>2, <2>3, PlanPrepared
  <2>5. ViewsUnderWay'
    <3>1. unitViews' = Ids(units')
      BY <1>1, <1>4, <1>6, <1>7
    <3> QED
      BY <2>1, <3>1, AudioShown DEF ViewsUnderWay
  <2>6. BackwardUnderWay'
    BY <1>3, <1>4, <1>5, <2>3, <2>4 DEF BackwardUnderWay, Begun
  <2> QED
    BY <1>1, <1>2, <1>3, <1>4, <1>5, <2>2, <2>3, <2>4, <2>5, <2>6, StepUnderWay DEF Live
<1> QED
  BY <1>9, <1>10

\* The second step of its undo has nothing left to do.
LEMMA DeleteBackward2Serial ==
  ASSUME Inv, Inv', SerialInv, Observe, NEW a \in ActionIds, DeleteBackward2(a)
  PROVE  SerialInv'
<1>1. /\ Runs(a, "DeleteUnit", "Backward", 2) /\ Finish(a) /\ NextAction
      /\ UNCHANGED <<units, routes, unitViews, routeViews, plan, planInWork, actions, undoList, rtVars>>
  BY DEF DeleteBackward2, listVars, projectVars, viewVars
<1>2. /\ At(a) /\ act[a].state = "Executing" /\ act[a].kind = "DeleteUnit"
      /\ act[a].direction = "Backward" /\ act[a].step = 2
  BY <1>1 DEF Runs
<1>3. a = Current /\ Current' = a /\ pc = "walk" /\ actions # <<>> /\ Begun
  BY <1>1, <1>2, AtCurrent DEF SerialInv, Current, Begun
<1>4. /\ \A b \in ActionIds \ {a} : act'[b] = act[b]
      /\ act'[a].kind = act[a].kind /\ act'[a].direction = act[a].direction
      /\ act'[a].swap = act[a].swap /\ act'[a].route = act[a].route
      /\ act'[a].step = 2 /\ act'[a].state = "Finished"
  BY <1>1, <1>2 DEF Inv, TypeOK, ActionRecords, Finish
<1>5. Document' = Document /\ Document = before[a] /\ Sound(before[a]) /\ before'[a] = before[a]
  <2>1. ~StartsForward(a)
    BY <1>2 DEF StartsForward, Runs
  <2>2. Document = before[a] /\ Sound(before[a])
    BY <1>2, <1>3 DEF SerialInv, HistoryUnderWay, BackwardUnderWay
  <2> QED
    BY <1>1, <2>1, <2>2, FoundStays DEF Document
<1>6. PlanUnderWay' /\ fault' = "none" /\ pc' = "walk"
  BY <1>1, <1>2, <1>4, PlanKept
<1>7. ViewsUnderWay'
  <2>1. /\ unitViews = Ids(units)
        /\ \A r \in Routes : r.kind = "audio" => routeViews[r] = routes[r]
    BY <1>2, <1>3 DEF SerialInv, ViewsUnderWay
  <2> QED
    BY <1>1, <2>1 DEF ViewsUnderWay
<1>8. BackwardUnderWay'
  BY <1>3, <1>4, <1>5 DEF BackwardUnderWay, Begun
<1> QED
  BY <1>1, <1>2, <1>3, <1>4, <1>5, <1>6, <1>7, <1>8, StepUnderWay DEF Live

(* ---------------------------- a route is added --------------------------- *)

\* A new route ends in units of the project, so that its plan can be built.
LEMMA RouteForward1Serial ==
  ASSUME Inv, Inv', SerialInv, Observe, NEW a \in ActionIds, RouteForward1(a)
  PROVE  SerialInv'
<1> DEFINE q == act[a].route
<1>1. /\ Runs(a, "AddNewRoute", "Forward", 1)
      /\ routes' = [routes EXCEPT ![q] = @ + 1]
      /\ UNCHANGED <<units, unitViews, routeViews, plan, planInWork, actions, undoList, rtVars>>
  BY DEF RouteForward1, listVars, viewVars
<1>2. /\ At(a) /\ act[a].state = "Executing" /\ act[a].kind = "AddNewRoute"
      /\ act[a].direction = "Forward" /\ act[a].step = 1
  BY <1>1 DEF Runs
<1>3. a = Current /\ Current' = a /\ pc = "walk" /\ actions # <<>> /\ ~Begun
  BY <1>1, <1>2, AtCurrent DEF SerialInv, Current, Begun
<1>4. act[a].swap /\ q \in Routes
  BY <1>2, <1>3 DEF SerialInv, OneUnderWay
<1>5. PreparePlan(a) /\ act' = act
  BY <1>4 DEF RouteForward1, RebuildOrStepTwo
<1>6. /\ Document = restDoc /\ restDoc' = restDoc /\ before'[a] = restDoc
      /\ Endpoints(q) \subseteq restDoc.ids
  <2>1. StartsForward(a)
    BY <1>1, <1>2 DEF StartsForward, Undoables
  <2>2. Document = restDoc /\ Endpoints(q) \subseteq restDoc.ids
    BY <1>2, <1>3 DEF SerialInv, HistoryUnderWay, ForwardUnderWay
  <2>3. restDoc' = restDoc
    BY <1>1, <1>3 DEF Observe
  <2> QED
    BY <2>1, <2>2, <2>3, FoundStays
<1> HIDE DEF q
<1>7. /\ routes \in RouteBags /\ Targets(routes) \subseteq Ids(units)
      /\ restDoc.routes = routes /\ restDoc.ids = Ids(units)
  BY <1>6 DEF Inv, TypeOK, SerialInv, Sound, Document
<1>8. /\ routes' \in RouteBags /\ Targets(routes') \subseteq Ids(units')
      /\ \A r \in Routes : r # q => routes'[r] = routes[r]
  <2>1. Targets(routes') \subseteq Targets(routes) \cup Endpoints(q) /\ routes' \in RouteBags
    BY <1>1, <1>4, <1>7, TargetsAfter
  <2>2. \A r \in Routes : r # q => routes'[r] = routes[r]
    BY <1>1, <1>7 DEF RouteBags
  <2> QED
    BY <1>1, <1>6, <1>7, <2>1, <2>2
<1>9. Document' = [ids |-> restDoc.ids, routes |-> [restDoc.routes EXCEPT ![q] = @ + 1]]
  BY <1>1, <1>7 DEF Document
<1>10. Sound(Document')
  <2>1. Ids(units') \subseteq Nat
    BY <1>1, <1>6, <1>7 DEF SerialInv, Sound
  <2> QED
    BY <1>8, <2>1 DEF Sound, Document
<1>11. PlanUnderWay' /\ fault' = "none" /\ pc' = "publish"
  BY <1>1, <1>2, <1>5, <1>10, PlanPrepared
<1>12. ViewsUnderWay'
  <2>1. /\ unitViews = Ids(units)
        /\ \A r \in Routes : r.kind = "audio" => routeViews[r] = routes[r]
    BY <1>2, <1>3 DEF SerialInv, ViewsUnderWay
  <2>2. Begun' /\ act'[a].kind = "AddNewRoute" /\ act'[a].route = q /\ act'[a].state # "Finished"
    BY <1>2, <1>5, <1>11 DEF Begun, q
  <2> QED
    BY <1>1, <1>3, <1>8, <2>1, <2>2 DEF ViewsUnderWay
<1>13. ForwardUnderWay'
  <2>1. Begun' /\ act'[a].kind = "AddNewRoute"
    BY <1>2, <1>5, <1>11 DEF Begun
  <2>2. TakesBack(act'[a], Document', restDoc')
    BY <1>4, <1>5, <1>6, <1>9, <2>1 DEF TakesBack, q
  <2> QED
    BY <1>3, <1>6, <2>1, <2>2 DEF ForwardUnderWay, Undoables
<1> QED
  BY <1>1, <1>2, <1>3, <1>5, <1>10, <1>11, <1>12, <1>13, StepUnderWay DEF Live

\* Its undo finds the copy that it added.
LEMMA RouteBackward1Serial ==
  ASSUME Inv, Inv', SerialInv, Observe, NEW a \in ActionIds, RouteBackward1(a)
  PROVE  SerialInv'
<1> DEFINE q == act[a].route
<1>1. /\ Runs(a, "AddNewRoute", "Backward", 1)
      /\ UNCHANGED <<units, unitViews, routeViews, plan, planInWork, actions, undoList, rtVars>>
  BY DEF RouteBackward1, listVars, viewVars
<1>2. /\ At(a) /\ act[a].state = "Executing" /\ act[a].kind = "AddNewRoute"
      /\ act[a].direction = "Backward" /\ act[a].step = 1
  BY <1>1 DEF Runs
<1>3. a = Current /\ Current' = a /\ pc = "walk" /\ actions # <<>> /\ ~Begun
  BY <1>1, <1>2, AtCurrent DEF SerialInv, Current, Begun
<1>4. /\ Document = restDoc /\ Sound(before[a]) /\ act[a].swap /\ q \in Routes
      /\ restDoc = [ids |-> before[a].ids, routes |-> [before[a].routes EXCEPT ![q] = @ + 1]]
  BY <1>2, <1>3 DEF SerialInv, HistoryUnderWay, BackwardUnderWay, TakesBack
<1>5. /\ routes = [before[a].routes EXCEPT ![q] = @ + 1] /\ Ids(units) = before[a].ids
      /\ before[a].routes \in RouteBags
      /\ before[a] = [ids |-> before[a].ids, routes |-> before[a].routes]
  BY <1>4 DEF Document, Sound
<1>6. routes[q] # 0 /\ [routes EXCEPT ![q] = @ - 1] = before[a].routes
  BY <1>4, <1>5, RouteTakenBack
<1>7. routes' = before[a].routes /\ PreparePlan(a) /\ act' = act
  BY <1>4, <1>6 DEF RouteBackward1, RebuildOrStepTwo
<1>8. before'[a] = before[a] /\ Document' = before[a]
  <2>1. ~StartsForward(a)
    BY <1>2 DEF StartsForward, Runs
  <2> QED
    BY <1>1, <1>5, <1>7, <2>1, FoundStays DEF Document
<1>9. PlanUnderWay' /\ fault' = "none" /\ pc' = "publish"
  BY <1>1, <1>2, <1>4, <1>7, <1>8, PlanPrepared
<1>10. ViewsUnderWay'
  <2>1. /\ unitViews = Ids(units)
        /\ \A r \in Routes : r.kind = "audio" => routeViews[r] = routes[r]
    BY <1>2, <1>3 DEF SerialInv, ViewsUnderWay
  <2>2. Begun' /\ act'[a].kind = "AddNewRoute" /\ act'[a].route = q /\ act'[a].state # "Finished"
    BY <1>2, <1>7, <1>9 DEF Begun, q
  <2>3. \A r \in Routes : r # q => routes'[r] = routes[r]
    BY <1>5, <1>7 DEF RouteBags
  <2> QED
    BY <1>1, <1>3, <2>1, <2>2, <2>3 DEF ViewsUnderWay
<1>11. BackwardUnderWay'
  BY <1>3, <1>4, <1>8, <1>9 DEF BackwardUnderWay, Begun
<1> QED
  BY <1>1, <1>2, <1>3, <1>4, <1>7, <1>8, <1>9, <1>10, <1>11, StepUnderWay DEF Live

\* A route action that was not added to the snapshot yet is shown by its second step.
LEMMA Route2Serial ==
  ASSUME Inv, Inv', SerialInv, Observe, NEW a \in ActionIds, Route2(a)
  PROVE  SerialInv'
<1> DEFINE q == act[a].route
<1>1. /\ At(a) /\ act[a].state = "Executing" /\ act[a].kind = "AddNewRoute" /\ act[a].step = 2
      /\ act[a].direction \in {"Forward", "Backward"}
      /\ Finish(a) /\ NextAction /\ ShowRoutes(q.kind)
      /\ UNCHANGED <<units, routes, unitViews, plan, planInWork, actions, undoList, rtVars>>
  BY DEF Route2, Runs, listVars
<1>2. a = Current /\ Current' = a /\ pc = "walk" /\ actions # <<>> /\ Begun
  BY <1>1, AtCurrent DEF SerialInv, Current, Begun
<1>3. /\ \A b \in ActionIds \ {a} : act'[b] = act[b]
      /\ act'[a].kind = act[a].kind /\ act'[a].direction = act[a].direction
      /\ act'[a].swap = act[a].swap /\ act'[a].route = act[a].route
      /\ act'[a].step = 2 /\ act'[a].state = "Finished"
  BY <1>1 DEF Inv, TypeOK, ActionRecords, Finish
<1>4. Document' = Document /\ before'[a] = before[a] /\ restDoc' = restDoc
  <2>1. ~StartsForward(a)
    BY <1>1 DEF StartsForward, Runs
  <2> QED
    BY <1>1, <1>2, <2>1, FoundStays DEF Document, Observe
<1>5. PlanUnderWay' /\ fault' = "none" /\ pc' = "walk"
  BY <1>1, <1>3, PlanKept
<1>6. ViewsUnderWay'
  <2>1. unitViews' = Ids(units')
    BY <1>1 DEF SerialInv, ViewsUnderWay
  <2>2. \A r \in Routes : r.kind = "audio" /\ routeViews[r] # routes[r] => r = q
    BY <1>2 DEF SerialInv, ViewsUnderWay
  <2>3. \A r \in Routes : routeViews'[r] = IF r.kind = q.kind THEN routes[r] ELSE routeViews[r]
    BY <1>1 DEF ShowRoutes
  <2>4. \A r \in Routes : r.kind = "audio" => routeViews'[r] = routes'[r]
    BY <1>1, <2>2, <2>3
  <2> QED
    BY <2>1, <2>4 DEF ViewsUnderWay
<1>7. act[a].direction = "Forward" => ForwardUnderWay'
  <2> SUFFICES ASSUME act[a].direction = "Forward"
               PROVE  ForwardUnderWay'
    OBVIOUS
  <2>1. before[a] = restDoc /\ TakesBack(act[a], Document, restDoc)
    BY <1>1, <1>2 DEF SerialInv, HistoryUnderWay, ForwardUnderWay, Undoables
  <2>2. TakesBack(act'[a], Document', restDoc')
    BY <1>1, <1>3, <1>4, <2>1 DEF TakesBack
  <2>3. Begun' /\ act'[a].kind = "AddNewRoute"
    BY <1>1, <1>2, <1>3 DEF Begun
  <2> QED
    BY <1>2, <1>4, <2>1, <2>2, <2>3 DEF ForwardUnderWay, Undoables
<1>8. act[a].direction = "Backward" => BackwardUnderWay'
  BY <1>2, <1>3, <1>4 DEF SerialInv, HistoryUnderWay, BackwardUnderWay, Begun
<1>9. Sound(Document')
  BY <1>4 DEF SerialInv
<1> QED
  BY <1>1, <1>2, <1>3, <1>4, <1>5, <1>6, <1>7, <1>8, <1>9, StepUnderWay DEF Live

(* ------------------ the plan is rebuilt without an edit ------------------ *)

\* The rebuilt plan is that of the same project.
LEMMA UpdateRenderPlan1Serial ==
  ASSUME Inv, Inv', SerialInv, Observe, NEW a \in ActionIds, UpdateRenderPlan1(a)
  PROVE  SerialInv'
<1>1. /\ Runs(a, "UpdateRenderPlan", "Forward", 1) /\ PreparePlan(a)
      /\ UNCHANGED <<act, units, routes, unitViews, routeViews, plan, planInWork, actions, undoList, rtVars>>
  BY DEF UpdateRenderPlan1, listVars, viewVars
<1>2. /\ At(a) /\ act[a].state = "Executing" /\ act[a].kind = "UpdateRenderPlan"
      /\ act[a].direction = "Forward" /\ act[a].step = 1
  BY <1>1 DEF Runs
<1>3. a = Current /\ Current' = a /\ actions # <<>>
  BY <1>1, <1>2, AtCurrent DEF SerialInv, Current
<1>4. Document' = Document /\ restDoc' = restDoc /\ Document = restDoc /\ Sound(Document')
  BY <1>1, <1>2, <1>3 DEF Observe, SerialInv, HistoryUnderWay, ForwardUnderWay, Undoables, Document
<1>5. PlanUnderWay' /\ fault' = "none" /\ pc' = "publish"
  BY <1>1, <1>2, <1>4, PlanPrepared
<1>6. ViewsUnderWay'
  BY <1>1, <1>2, <1>3 DEF SerialInv, ViewsUnderWay
<1>7. ForwardUnderWay'
  BY <1>1, <1>2, <1>3, <1>4 DEF ForwardUnderWay, Undoables
<1> QED
  BY <1>1, <1>2, <1>3, <1>4, <1>5, <1>6, <1>7, StepUnderWay DEF Live

\* Its second step has nothing left to do.
LEMMA UpdateRenderPlan2Serial ==
  ASSUME Inv, Inv', SerialInv, Observe, NEW a \in ActionIds, UpdateRenderPlan2(a)
  PROVE  SerialInv'
<1>1. /\ Runs(a, "UpdateRenderPlan", "Forward", 2) /\ Finish(a) /\ NextAction
      /\ UNCHANGED <<units, routes, unitViews, routeViews, plan, planInWork, actions, undoList, rtVars>>
  BY DEF UpdateRenderPlan2, listVars, viewVars, projectVars
<1>2. /\ At(a) /\ act[a].state = "Executing" /\ act[a].kind = "UpdateRenderPlan"
      /\ act[a].direction = "Forward" /\ act[a].step = 2
  BY <1>1 DEF Runs
<1>3. a = Current /\ Current' = a /\ actions # <<>>
  BY <1>1, <1>2, AtCurrent DEF SerialInv, Current
<1>4. /\ \A b \in ActionIds \ {a} : act'[b] = act[b]
      /\ act'[a].kind = act[a].kind /\ act'[a].direction = act[a].direction
      /\ act'[a].swap = act[a].swap /\ act'[a].route = act[a].route
      /\ act'[a].step = 2 /\ act'[a].state = "Finished"
  BY <1>1, <1>2 DEF Inv, TypeOK, ActionRecords, Finish
<1>5. Document' = Document /\ restDoc' = restDoc /\ Document = restDoc /\ Sound(Document')
  BY <1>1, <1>2, <1>3 DEF Observe, SerialInv, HistoryUnderWay, ForwardUnderWay, Undoables, Document
<1>6. PlanUnderWay' /\ fault' = "none" /\ pc' = "walk"
  BY <1>1, <1>2, <1>4, PlanKept
<1>7. ViewsUnderWay'
  BY <1>1, <1>2, <1>3 DEF SerialInv, ViewsUnderWay
<1>8. ForwardUnderWay'
  BY <1>2, <1>3, <1>4, <1>5 DEF ForwardUnderWay, Undoables
<1> QED
  BY <1>1, <1>2, <1>3, <1>4, <1>5, <1>6, <1>7, <1>8, StepUnderWay DEF Live

(* ------------------------------ undo and redo ---------------------------- *)

\* An undo restarts the newest edit, which is the first to be taken back.
LEMMA UndoExecSerial ==
  ASSUME Inv, Inv', SerialInv, Observe, NEW a \in ActionIds, UndoExec(a)
  PROVE  SerialInv'
<1>1. /\ Runs(a, "Undo", "Forward", 1) /\ NextAction
      /\ UNCHANGED <<units, routes, unitViews, routeViews, plan, planInWork, rtVars>>
  BY DEF UndoExec, viewVars, projectVars
<1>2. /\ At(a) /\ act[a].state = "Executing" /\ act[a].kind = "Undo"
      /\ act[a].direction = "Forward" /\ act[a].step = 1
  BY <1>1 DEF Runs
<1>3. a = Current /\ actions # <<>> /\ pc = "walk" /\ pc' = "walk" /\ fault' = fault
  BY <1>1, <1>2, AtCurrent DEF SerialInv, NextAction
<1>4. /\ Document' = Document /\ Document = restDoc /\ Sound(Document')
      /\ restPast = PastOf(undoList, before)
      /\ LeadsBack(undoList, act, before, restDoc)
  BY <1>1, <1>2, <1>3 DEF SerialInv, HistoryUnderWay, ForwardUnderWay, Undoables, Document
<1>5. ViewsUnderWay'
  <2>1. /\ unitViews = Ids(units)
        /\ \A r \in Routes : r.kind = "audio" => routeViews[r] = routes[r]
    BY <1>2, <1>3 DEF SerialInv, ViewsUnderWay
  <2> QED
    BY <1>1, <2>1 DEF ViewsUnderWay
<1>6. /\ rtTasks = <<>> /\ plan[planInWork] = BuildPlan(units, routes)
      /\ plan[planInWork] \subseteq units
      /\ rtPlan = IF rtPhase = "render" THEN plan[planInWork] ELSE {}
  BY <1>2, AtRestPlan DEF SerialInv, PlanUnderWay
<1>7. ~Sent' => PlanUnderWay'
  BY <1>1, <1>3, <1>6 DEF PlanUnderWay, rtVars
<1>8. CASE Len(undoList) = 0
  <2>1. Finish(a) /\ actions' = actions /\ undoList' = undoList
    BY <1>8 DEF UndoExec
  <2>2. /\ \A b \in ActionIds \ {a} : act'[b] = act[b]
        /\ act'[a].kind = act[a].kind /\ act'[a].direction = act[a].direction
        /\ act'[a].swap = act[a].swap /\ act'[a].route = act[a].route
        /\ act'[a].step = 1 /\ act'[a].state = "Finished"
    BY <1>2, <2>1 DEF Inv, TypeOK, ActionRecords, Finish
  <2>3. PlanUnderWay' /\ restDoc' = restDoc /\ Current' = a
    BY <1>3, <1>7, <2>1, <2>2 DEF Sent, Current, Observe
  <2>4. ForwardUnderWay'
    BY <1>2, <1>4, <2>2, <2>3 DEF ForwardUnderWay, Undoables
  <2> QED
    BY <1>2, <1>3, <1>4, <1>5, <2>1, <2>2, <2>3, <2>4, StepUnderWay DEF SerialInv, Live
<1>9. CASE Len(undoList) # 0
  <2> DEFINE b == Last(undoList)
             front == Front(undoList)
  <2>1. /\ act' = [act EXCEPT ![a].state = "Finished", ![b].state = "Executing",
                              ![b].direction = "Backward", ![b].step = 1]
        /\ actions' = Append(actions, b) /\ undoList' = front
    BY <1>9 DEF UndoExec, Replay
  <2>2. undoList \in Seq(ActionIds) /\ actions \in Seq(ActionIds)
    BY DEF Inv, TypeOK
  <2>3. /\ b \in ToSet(undoList) /\ b \in ActionIds
        /\ front \in Seq(ActionIds) /\ ToSet(front) \subseteq ToSet(undoList) \ {b}
        /\ Len(front) = Len(undoList) - 1 /\ Len(undoList) \in Nat
    <3>1. undoList # <<>> /\ IsInjective(undoList)
      BY <1>9, <2>2, EmptySeq DEF Inv, OneOwner
    <3> QED
      BY <1>9, <2>2, <3>1, FrontLast, FrontDistinct, ElementsAtPositions
  <2>4. /\ Sound(before[b]) /\ TakesBack(act[b], restDoc, before[b])
        /\ LeadsBack(front, act, before, before[b])
        /\ PastOf(undoList, before) = Append(PastOf(front, before), before[b])
    BY <1>4, <1>9, <2>2, ChainShrinks
  <2> HIDE DEF b, front
  <2>5. a # b /\ b \notin ToSet(actions) /\ a \notin ToSet(front)
    BY <1>3, <2>3, CurrentOwned DEF Inv, OneOwner, SerialInv
  <2>6. /\ Len(actions) = 1 /\ actions[1] = a
    BY <1>2, <1>3, CurrentOwned DEF SerialInv, OneUnderWay
  <2>7. /\ Current' = b /\ actions' # <<>> /\ Len(actions') = 2 /\ actions'[1] = a
    <3>1. /\ Last(actions') = b /\ actions' # <<>> /\ Len(actions') = Len(actions) + 1
          /\ \A i \in 1..Len(actions) : actions'[i] = actions[i]
      BY <2>1, <2>2, <2>3, AppendLast
    <3> QED
      BY <2>6, <3>1 DEF Current
  <2>8. /\ act[b] \in ActionRecords /\ act \in [ActionIds -> ActionRecords]
        /\ act[b].kind \in Undoables
        /\ act[b].kind = "AddNewRoute" => act[b].swap /\ act[b].route \in Routes
    BY <2>3, <2>4 DEF TakesBack, Undoables, Inv, TypeOK
  <2>9. /\ act'[b] = [act[b] EXCEPT !.state = "Executing", !.direction = "Backward", !.step = 1]
        /\ act'[a] = [act[a] EXCEPT !.state = "Finished"]
        /\ \A c \in ActionIds \ {a, b} : act'[c] = act[c]
    BY <2>1, <2>3, <2>5, <2>8
  <2>10. /\ act'[b].kind = act[b].kind /\ act'[b].id = act[b].id /\ act'[b].route = act[b].route
         /\ act'[b].swap = act[b].swap /\ act'[b].unit = act[b].unit /\ act'[b].saved = act[b].saved
         /\ act'[b].state = "Executing" /\ act'[b].direction = "Backward" /\ act'[b].step = 1
         /\ act'[a].kind = "Undo" /\ act'[a].state = "Finished"
    BY <1>2, <2>8, <2>9 DEF ActionRecords
  <2>11. /\ restDoc' = restDoc /\ restPast' = restPast /\ before'[b] = before[b]
         /\ \A c \in ToSet(front) : before'[c] = before[c] /\ act'[c] = act[c]
    <3>1. restDoc' = restDoc /\ restPast' = restPast
      BY <2>7 DEF Observe
    <3>2. \A c \in ToSet(undoList) : c \in ActionIds /\ before'[c] = before[c]
      BY FoundStays
    <3> QED
      BY <2>3, <2>5, <2>9, <3>1, <3>2
  <2>12. /\ PastOf(front, before') = PastOf(front, before)
         /\ \A d : LeadsBack(front, act, before, d) => LeadsBack(front, act', before', d)
    BY <2>3, <2>11, ChainStays
  <2>13. OneUnderWay'
    <3>1. act'[b].kind = "AddNewRoute" => act'[b].swap /\ act'[b].route \in Routes
      BY <2>8, <2>10
    <3> QED
      BY <1>3, <2>7, <2>8, <2>10, <3>1 DEF OneUnderWay, Undoables
  <2>14. PlanUnderWay'
    BY <1>7, <2>7, <2>10 DEF Sent
  <2>15. HistoryUnderWay'
    <3>1. TakesBack(act'[b], restDoc', before'[b])
      BY <2>4, <2>10, <2>11 DEF TakesBack
    <3>2. ~Begun'
      BY <1>3, <2>7, <2>10 DEF Begun
    <3>3. BackwardUnderWay'
      BY <1>4, <2>4, <2>7, <2>11, <3>1, <3>2 DEF BackwardUnderWay
    <3>4. /\ restPast' = Append(PastOf(undoList', before'), before'[b])
          /\ LeadsBack(undoList', act', before', before'[b])
      BY <1>4, <2>1, <2>4, <2>11, <2>12
    <3> QED
      BY <2>7, <2>10, <3>3, <3>4 DEF HistoryUnderWay
  <2>16. Len(undoList') <= UndoLimit
    BY <2>1, <2>3, EngineAssumption DEF SerialInv
  <2> QED
    BY <1>3, <1>4, <1>5, <2>11, <2>13, <2>14, <2>15, <2>16 DEF SerialInv
<1> QED
  BY <1>8, <1>9

(* ---------------------- the new plan and its task ----------------------- *)

\* The slot that is not in work gets the plan of the edited project, and its task
\* finds room in the ring.
LEMMA PublishPlanSerial ==
  ASSUME OneEditAtATime, Inv, Inv', SerialInv, Observe, PublishPlan
  PROVE  SerialInv'
<1> DEFINE a == Current
<1>1. pc = "publish" /\ pending.action = actions[idx] /\ idx \in 1..Len(actions)
      /\ act[pending.action].state = "Executing"
  BY Positions DEF PublishPlan, Inv, PassMeetsLiveActions
<1>2. /\ actions # <<>>
      /\ pending = [action |-> a, slot |-> 1 - planInWork, plan |-> BuildPlan(units, routes)]
  BY <1>1 DEF SerialInv, PlanUnderWay
<1>3. a \in ActionIds /\ a = Current /\ act[a].state = "Executing" /\ Live(a) /\ act[a] \in ActionRecords
  BY <1>1, <1>2, CurrentOwned DEF SerialInv, Live
<1>4. /\ plan' = [plan EXCEPT ![1 - planInWork] = BuildPlan(units, routes)]
      /\ act' = [act EXCEPT ![a].state = "Waiting", ![a].completed = FALSE]
      /\ rtTasks' = IF Len(rtTasks) < QueueCapacity THEN Append(rtTasks, a) ELSE rtTasks
      /\ pc' = "walk" /\ fault' = fault
      /\ UNCHANGED <<units, routes, planInWork, unitViews, routeViews, actions, undoList, rtPhase, rtPlan>>
  BY <1>2 DEF PublishPlan, viewVars, listVars
<1> HIDE DEF a
<1>5. /\ \A b \in ActionIds \ {a} : act'[b] = act[b]
      /\ act'[a].kind = act[a].kind /\ act'[a].direction = act[a].direction
      /\ act'[a].swap = act[a].swap /\ act'[a].route = act[a].route
      /\ act'[a].id = act[a].id /\ act'[a].saved = act[a].saved /\ act'[a].unit = act[a].unit
      /\ act'[a].state = "Waiting" /\ ~act'[a].completed
  BY <1>3, <1>4 DEF Inv, TypeOK, ActionRecords
<1>6. Current' = a /\ Begun /\ Begun'
  BY <1>1, <1>3, <1>4, <1>5 DEF Current, Begun
<1>7. ~Sent /\ rtTasks = <<>>
  BY <1>3 DEF Sent, SerialInv, PlanUnderWay
<1>8. rtTasks' = <<a>> /\ Sent'
  <2>1. Len(rtTasks) < QueueCapacity
    BY <1>7, EngineAssumption DEF OneEditAtATime
  <2> QED
    BY <1>2, <1>4, <1>5, <1>6, <1>7, <2>1 DEF Sent
<1>9. PlanUnderWay'
  <2>1. plan'[1 - planInWork] = BuildPlan(units, routes) /\ plan'[planInWork] = plan[planInWork]
    BY <1>4 DEF Inv, TypeOK
  <2> QED
    BY <1>4, <1>6, <1>8, <2>1 DEF SerialInv, PlanUnderWay
<1>10. Document' = Document /\ restDoc' = restDoc /\ before'[a] = before[a]
  <2>1. ~StartsForward(a)
    BY <1>1 DEF StartsForward, Runs, At
  <2> QED
    BY <1>2, <1>3, <1>4, <2>1, FoundStays DEF Document, Observe
<1>11. ViewsUnderWay'
  BY <1>2, <1>3, <1>4, <1>5, <1>6 DEF SerialInv, ViewsUnderWay
<1>12. act[a].direction = "Forward" => ForwardUnderWay'
  <2> SUFFICES ASSUME act[a].direction = "Forward"
               PROVE  ForwardUnderWay'
    OBVIOUS
  <2>1. ForwardUnderWay
    BY <1>2, <1>3 DEF SerialInv, HistoryUnderWay
  <2>2. TakesBack(act[a], Document, restDoc) => TakesBack(act'[a], Document', restDoc')
    BY <1>5, <1>10 DEF TakesBack
  <2> QED
    BY <1>3, <1>4, <1>5, <1>6, <1>10, <2>1, <2>2 DEF ForwardUnderWay
<1>13. act[a].direction = "Backward" => BackwardUnderWay'
  BY <1>2, <1>3, <1>6, <1>10 DEF SerialInv, HistoryUnderWay, BackwardUnderWay
<1>14. act[a].kind \notin {"Undo", "CreateNewUnit"}
  BY <1>1, <1>2, <1>3 DEF SerialInv, OneUnderWay
<1>15. Sound(Document') /\ fault' = "none"
  BY <1>4, <1>10 DEF SerialInv
<1> QED
  BY <1>2, <1>3, <1>4, <1>5, <1>9, <1>10, <1>11, <1>12, <1>13, <1>14, <1>15, StepUnderWay

\* An edit that waits goes on to its second step when its task was executed.
LEMMA CheckWaitingSerial ==
  ASSUME Inv, Inv', SerialInv, Observe, NEW a \in ActionIds, CheckWaitingCondition(a)
  PROVE  SerialInv'
<1>1. /\ At(a) /\ act[a].state = "Waiting" /\ NextAction
      /\ UNCHANGED <<units, routes, plan, planInWork, unitViews, routeViews, actions, undoList, rtVars>>
  BY DEF CheckWaitingCondition, projectVars, viewVars, listVars
<1>2. a = Current /\ Current' = a /\ actions # <<>> /\ pc = "walk" /\ pc' = "walk" /\ fault' = fault
  BY <1>1, AtCurrent DEF SerialInv, Current, NextAction
<1>3. /\ act[a] \in ActionRecords /\ act \in [ActionIds -> ActionRecords]
      /\ act[a].kind \notin {"Undo", "CreateNewUnit"}
  BY <1>1, <1>2 DEF SerialInv, OneUnderWay, Inv, TypeOK
<1>4. /\ \A b \in ActionIds \ {a} : act'[b] = act[b]
      /\ act'[a].kind = act[a].kind /\ act'[a].direction = act[a].direction
      /\ act'[a].swap = act[a].swap /\ act'[a].route = act[a].route
      /\ act'[a].id = act[a].id /\ act'[a].saved = act[a].saved /\ act'[a].unit = act[a].unit
      /\ act'[a].completed = act[a].completed
      /\ \/ ~act[a].completed /\ act'[a].state = "Waiting"
         \/ act[a].completed /\ act'[a].state = "Executing" /\ act'[a].step = 2
  <2>1. CASE act[a].completed
    BY <1>1, <1>3, <2>1 DEF CheckWaitingCondition, ActionRecords
  <2>2. CASE ~act[a].completed
    BY <1>1, <1>3, <2>2 DEF CheckWaitingCondition, ActionRecords
  <2> QED
    BY <2>1, <2>2
<1>5. Begun /\ Begun' /\ Sent' = Sent
  <2>1. Begun /\ Begun'
    BY <1>1, <1>2, <1>4 DEF Begun
  <2>2. Sent' <=> Sent
    BY <1>1, <1>2, <1>4 DEF Sent
  <2> QED
    BY <2>1, <2>2 DEF Sent
<1>6. PlanUnderWay'
  <2>1. Sent' <=> Sent
    BY <1>5
  <2>2. /\ plan[planInWork] \subseteq units
        /\ rtPlan = IF rtPhase = "render" THEN plan[planInWork] ELSE {}
        /\ rtTasks = IF Sent THEN <<Current>> ELSE <<>>
        /\ Sent => plan[1 - planInWork] = BuildPlan(units, routes)
        /\ ~Sent => plan[planInWork] = BuildPlan(units, routes)
    BY <1>2 DEF SerialInv, PlanUnderWay
  <2> QED
    BY <1>1, <1>2, <2>1, <2>2 DEF PlanUnderWay, rtVars
<1>7. Document' = Document /\ restDoc' = restDoc /\ before'[a] = before[a]
  <2>1. ~StartsForward(a)
    BY <1>1 DEF StartsForward, Runs
  <2> QED
    BY <1>1, <1>2, <2>1, FoundStays DEF Document, Observe
<1>8. ViewsUnderWay'
  BY <1>1, <1>2, <1>4, <1>5 DEF SerialInv, ViewsUnderWay
<1>9. act[a].direction = "Forward" => ForwardUnderWay'
  <2> SUFFICES ASSUME act[a].direction = "Forward"
               PROVE  ForwardUnderWay'
    OBVIOUS
  <2>1. ForwardUnderWay
    BY <1>2 DEF SerialInv, HistoryUnderWay
  <2>2. TakesBack(act[a], Document, restDoc) => TakesBack(act'[a], Document', restDoc')
    BY <1>4, <1>7 DEF TakesBack
  <2> QED
    BY <1>1, <1>2, <1>4, <1>5, <1>7, <2>1, <2>2 DEF ForwardUnderWay
<1>10. act[a].direction = "Backward" => BackwardUnderWay'
  BY <1>2, <1>5, <1>7 DEF SerialInv, HistoryUnderWay, BackwardUnderWay
<1>11. Sound(Document') /\ fault' = "none"
  BY <1>2, <1>7 DEF SerialInv
<1> QED
  BY <1>1, <1>2, <1>3, <1>4, <1>6, <1>7, <1>8, <1>9, <1>10, <1>11, StepUnderWay DEF Live

\* The real-time thread swaps the plans and the edit hears of it.
LEMMA RtExecTaskSerial ==
  ASSUME Inv, Inv', SerialInv, Observe, RtExecTask
  PROVE  SerialInv'
<1> DEFINE a == Current
<1>1. Sent /\ rtTasks = <<a>> /\ actions # <<>>
  <2>1. rtTasks # <<>>
    BY DEF RtExecTask
  <2> QED
    BY <2>1 DEF SerialInv, PlanUnderWay, Sent
<1>2. Head(rtTasks) = a /\ Tail(rtTasks) = <<>>
  <2> HIDE DEF a
  <2> QED
    BY <1>1
<1>3. /\ a \in ActionIds /\ a = Current /\ act[a].state = "Waiting" /\ Live(a)
      /\ act[a] \in ActionRecords /\ act \in [ActionIds -> ActionRecords]
  BY <1>1, CurrentOwned DEF SerialInv, Live, Sent, Inv, TypeOK
<1>4. /\ rtPhase = "tasks" /\ planInWork' = 1 - planInWork /\ rtTasks' = <<>>
      /\ act' = [act EXCEPT ![a].completed = TRUE]
      /\ UNCHANGED <<units, routes, plan, unitViews, routeViews, actions, undoList, pc, rtPhase, rtPlan, fault>>
  BY <1>2 DEF RtExecTask, viewVars, listVars
<1> HIDE DEF a
<1>5. /\ \A b \in ActionIds \ {a} : act'[b] = act[b]
      /\ act'[a].kind = act[a].kind /\ act'[a].direction = act[a].direction
      /\ act'[a].swap = act[a].swap /\ act'[a].route = act[a].route
      /\ act'[a].id = act[a].id /\ act'[a].saved = act[a].saved /\ act'[a].unit = act[a].unit
      /\ act'[a].state = "Waiting" /\ act'[a].completed
  BY <1>3, <1>4 DEF ActionRecords
<1>6. Current' = a /\ Begun /\ Begun' /\ ~Sent' /\ pc # "publish" /\ pc' # "publish"
  <2>1. Current' = a
    BY <1>3, <1>4 DEF Current
  <2>2. pc # "publish"
    BY <1>1, <1>3, Positions DEF SerialInv, PlanUnderWay, Inv, PassMeetsLiveActions
  <2> QED
    BY <1>3, <1>4, <1>5, <2>1, <2>2 DEF Begun, Sent
<1>7. PlanUnderWay'
  <2>1. plan'[planInWork'] = BuildPlan(units', routes')
    BY <1>1, <1>4 DEF SerialInv, PlanUnderWay
  <2>2. BuildPlan(units', routes') \subseteq units'
    BY PlanType
  <2>3. rtPlan' = {} /\ rtPhase' = "tasks"
    BY <1>4 DEF SerialInv, PlanUnderWay
  <2> QED
    BY <1>4, <1>6, <2>1, <2>2, <2>3 DEF PlanUnderWay
<1>8. Document' = Document /\ restDoc' = restDoc /\ before'[a] = before[a]
  <2>1. ~StartsForward(a)
    BY <1>3 DEF StartsForward, Runs
  <2> QED
    BY <1>1, <1>3, <1>4, <2>1, FoundStays DEF Document, Observe
<1>9. ViewsUnderWay'
  BY <1>1, <1>3, <1>4, <1>5, <1>6 DEF SerialInv, ViewsUnderWay
<1>10. act[a].direction = "Forward" => ForwardUnderWay'
  <2> SUFFICES ASSUME act[a].direction = "Forward"
               PROVE  ForwardUnderWay'
    OBVIOUS
  <2>1. ForwardUnderWay
    BY <1>1, <1>3 DEF SerialInv, HistoryUnderWay
  <2>2. TakesBack(act[a], Document, restDoc) => TakesBack(act'[a], Document', restDoc')
    BY <1>5, <1>8 DEF TakesBack
  <2> QED
    BY <1>3, <1>4, <1>5, <1>6, <1>8, <2>1, <2>2 DEF ForwardUnderWay
<1>11. act[a].direction = "Backward" => BackwardUnderWay'
  BY <1>1, <1>3, <1>6, <1>8 DEF SerialInv, HistoryUnderWay, BackwardUnderWay
<1>12. act[a].kind \notin {"Undo", "CreateNewUnit"}
  BY <1>1, <1>3 DEF SerialInv, OneUnderWay
<1>13. Sound(Document') /\ fault' = "none"
  BY <1>4, <1>8 DEF SerialInv
<1> QED
  BY <1>1, <1>3, <1>4, <1>5, <1>7, <1>8, <1>9, <1>10, <1>11, <1>12, <1>13, StepUnderWay

(* ------------------- steps that leave the edit alone -------------------- *)

\* Nothing is to be shown of them but that the plan in work may stay.
LEMMA StepAside ==
  ASSUME Inv, Inv', SerialInv, Observe,
         UNCHANGED <<undoList, units, routes, unitViews, routeViews, fault>>,
         actions = <<>> <=> actions' = <<>>,
         actions # <<>> => Current' = Current /\ act'[Current] = act[Current],
         \A b \in ToSet(undoList) : act'[b] = act[b],
         pc = "publish" <=> pc' = "publish",
         OneUnderWay', PlanUnderWay'
  PROVE  SerialInv' /\ UNCHANGED <<restDoc, restPast>>
<1>1. Document' = Document /\ Sound(Document') /\ fault' = "none"
  BY DEF SerialInv, Document
<1>2. undoList \in Seq(ActionIds)
  BY DEF Inv, TypeOK
<1>3. /\ PastOf(undoList', before') = PastOf(undoList, before)
      /\ \A d : LeadsBack(undoList, act, before, d) => LeadsBack(undoList', act', before', d)
  <2>1. \A b \in ToSet(undoList) : act'[b] = act[b] /\ before'[b] = before[b]
    BY FoundStays
  <2>2. /\ PastOf(undoList, before') = PastOf(undoList, before)
        /\ \A d : LeadsBack(undoList, act, before, d) => LeadsBack(undoList, act', before', d)
    BY <1>2, <2>1, ChainStays
  <2> QED
    BY <2>2
<1>4. CASE actions = <<>>
  <2>1. /\ restPast = PastOf(undoList, before) /\ LeadsBack(undoList, act, before, restDoc)
        /\ Document = restDoc
    BY <1>4 DEF SerialInv, HistoryUnderWay
  <2>2. restDoc' = Document' /\ restPast' = PastOf(undoList', before')
    <3>1. DOMAIN undoList = 1..Len(undoList)
      BY <1>2, ElementsAtPositions
    <3>2. restDoc' = Document' /\ restPast' = [i \in DOMAIN undoList' |-> before'[undoList'[i]]]
      BY <1>4 DEF Observe
    <3> QED
      BY <3>1, <3>2 DEF PastOf
  <2>3. HistoryUnderWay'
    BY <1>1, <1>3, <1>4, <2>1, <2>2 DEF HistoryUnderWay
  <2>4. ViewsUnderWay'
    BY <1>4 DEF SerialInv, ViewsUnderWay
  <2> QED
    BY <1>1, <1>3, <2>1, <2>2, <2>3, <2>4 DEF SerialInv
<1>5. CASE actions # <<>>
  <2>1. restDoc' = restDoc /\ restPast' = restPast
    BY <1>5 DEF Observe
  <2>2. Current' = Current /\ act'[Current] = act[Current] /\ (Begun' <=> Begun) /\ Current \in ActionIds
    BY <1>5, CurrentOwned DEF Current, Begun, SerialInv
  <2>3. act[Current].direction = "Backward" \/ Begun => before'[Current] = before[Current]
    <3>1. act[Current].direction = "Backward" \/ Begun => ~StartsForward(Current)
      <4>1. StartsForward(Current) => act[Current].direction = "Forward" /\ ~Begun
        BY <2>2, FoundStays DEF StartsForward, Runs
      <4> QED
        BY <4>1
    <3> QED
      BY <2>2, <3>1, FoundStays
  <2>4. HistoryUnderWay'
    <3>1. CASE act[Current].direction = "Backward"
      <4>1. /\ restPast = Append(PastOf(undoList, before), before[Current])
            /\ LeadsBack(undoList, act, before, before[Current])
            /\ BackwardUnderWay
        BY <1>5, <3>1 DEF SerialInv, HistoryUnderWay
      <4>2. BackwardUnderWay'
        BY <1>1, <2>1, <2>2, <2>3, <3>1, <4>1 DEF BackwardUnderWay
      <4> QED
        BY <1>3, <1>5, <2>1, <2>2, <2>3, <3>1, <4>1, <4>2 DEF HistoryUnderWay
    <3>2. CASE act[Current].direction # "Backward"
      <4>1. /\ restPast = PastOf(undoList, before)
            /\ LeadsBack(undoList, act, before, restDoc)
            /\ ForwardUnderWay
        BY <1>5, <3>2 DEF SerialInv, HistoryUnderWay
      <4>2. ForwardUnderWay'
        BY <1>1, <2>1, <2>2, <2>3, <4>1 DEF ForwardUnderWay
      <4> QED
        BY <1>3, <1>5, <2>1, <2>2, <3>2, <4>1, <4>2 DEF HistoryUnderWay
    <3> QED
      BY <3>1, <3>2
  <2>5. ViewsUnderWay'
    BY <1>5, <2>2 DEF SerialInv, ViewsUnderWay
  <2> QED
    BY <1>1, <2>1, <2>4, <2>5 DEF SerialInv
<1> QED
  BY <1>4, <1>5

\* The pass goes on, ends or starts anew.
LEMMA PassSerial ==
  ASSUME Inv, Inv', SerialInv, Observe,
         EndWalk \/ EndPass \/ \E a \in ActionIds : SweepKeep(a)
  PROVE  SerialInv' /\ UNCHANGED <<restDoc, restPast>>
<1>1. /\ UNCHANGED <<actions, undoList, act, units, routes, unitViews, routeViews, plan, planInWork,
                     rtTasks, rtPhase, rtPlan, pending, fault>>
      /\ pc # "publish" /\ pc' # "publish"
  BY DEF EndWalk, EndPass, SweepKeep, Sweeps, NextAction, projectVars, viewVars, listVars, rtVars
<1>2. (Sent' <=> Sent) /\ Current' = Current
  BY <1>1 DEF Sent, Current
<1>3. PlanUnderWay'
  <2>1. /\ plan[planInWork] \subseteq units
        /\ rtPlan = IF rtPhase = "render" THEN plan[planInWork] ELSE {}
        /\ rtTasks = IF Sent THEN <<Current>> ELSE <<>>
        /\ Sent => plan[1 - planInWork] = BuildPlan(units, routes)
        /\ ~Sent => plan[planInWork] = BuildPlan(units, routes)
    BY <1>1 DEF SerialInv, PlanUnderWay
  <2> QED
    BY <1>1, <1>2, <2>1 DEF PlanUnderWay
<1>4. OneUnderWay'
  BY <1>1, <1>2 DEF SerialInv, OneUnderWay
<1> QED
  BY <1>1, <1>2, <1>3, <1>4, StepAside

\* A block is rendered.
LEMMA RenderSerial ==
  ASSUME Inv, Inv', SerialInv, Observe, RtRender \/ RtEndBlock
  PROVE  SerialInv' /\ UNCHANGED <<restDoc, restPast>>
<1>1. /\ UNCHANGED <<actions, undoList, act, units, routes, unitViews, routeViews, plan, planInWork,
                     rtTasks, pc, pending, fault>>
      /\ \/ rtPhase' = "render" /\ rtPlan' = plan[planInWork]
         \/ rtPhase' = "tasks" /\ rtPlan' = {}
  BY DEF RtRender, RtEndBlock, projectVars, viewVars, listVars
<1>2. (Sent' <=> Sent) /\ Current' = Current
  BY <1>1 DEF Sent, Current
<1>3. PlanUnderWay'
  <2>1. rtPlan' = IF rtPhase' = "render" THEN plan'[planInWork'] ELSE {}
    BY <1>1
  <2> QED
    BY <1>1, <1>2, <2>1 DEF SerialInv, PlanUnderWay
<1>4. OneUnderWay'
  BY <1>1, <1>2 DEF SerialInv, OneUnderWay
<1> QED
  BY <1>1, <1>2, <1>3, <1>4, StepAside

(* ------------------------------- the sweep ------------------------------- *)

\* Whoever has ended is swept when it is the first on the list: the edit under way,
\* or the undo that restarted it.
LEMMA SweptFirst ==
  ASSUME Inv, OneUnderWay, NEW a \in ActionIds, Sweeps(a), act[a].state \in {"Abort", "Finished"}
  PROVE  /\ actions # <<>> /\ pc = "sweep"
         /\ \/ /\ a = Current /\ RemoveAt(actions, idx) = <<>>
            \/ /\ Len(actions) = 2 /\ a = actions[1] /\ a # Current
               /\ RemoveAt(actions, idx) # <<>> /\ Last(RemoveAt(actions, idx)) = Current
               /\ Len(RemoveAt(actions, idx)) = 1
<1> DEFINE rest == RemoveAt(actions, idx)
<1>1. idx \in 1..Len(actions) /\ a = actions[idx] /\ pc = "sweep" /\ actions # <<>>
  BY Positions DEF Sweeps, Inv, TypeOK
<1>2. /\ actions \in Seq(ActionIds) /\ IsInjective(actions)
      /\ Current = actions[Len(actions)] /\ Len(actions) \in {1, 2}
  BY <1>1, CurrentOwned DEF Inv, TypeOK, OneOwner
<1>3. /\ rest \in Seq(ActionIds) /\ Len(rest) = Len(actions) - 1
      /\ \A i \in 1..(Len(actions) - 1) : rest[i] = IF i < idx THEN actions[i] ELSE actions[i + 1]
  BY <1>1, <1>2, RemoveAtElements
<1> HIDE DEF rest
<1>4. CASE Len(actions) = 1
  <2>1. a = Current /\ Len(rest) = 0
    BY <1>1, <1>2, <1>3, <1>4
  <2>2. rest = <<>>
    BY <1>3, <2>1, EmptySeq
  <2> QED
    BY <1>1, <2>1, <2>2 DEF rest
<1>5. CASE Len(actions) = 2
  <2>1. idx # 2
    <3>1. act[actions[1]].state = "Finished"
      BY <1>5 DEF OneUnderWay
    <3>2. 1 \in DOMAIN actions
      BY <1>5, Positions DEF Inv
    <3> QED
      BY <1>1, <3>1, <3>2 DEF Inv, PassMeetsLiveActions, Live
  <2>2. idx = 1 /\ a = actions[1] /\ Current = actions[2]
    BY <1>1, <1>2, <1>5, <2>1
  <2>3. a # Current
    BY <1>2, <1>5, <2>2, Positions DEF IsInjective, Inv
  <2>4. Len(rest) = 1 /\ rest[1] = Current
    BY <1>3, <1>5, <2>2
  <2>5. rest # <<>>
    BY <2>4
  <2>6. Last(rest) = Current
    BY <2>4 DEF Last
  <2> QED
    BY <1>1, <1>5, <2>2, <2>3, <2>4, <2>5, <2>6 DEF rest
<1> QED
  BY <1>2, <1>4, <1>5

\* Destroyed are a finished undo and a finished update of the plan: neither leaves
\* anything to take back.
LEMMA SweepEraseSerial ==
  ASSUME Inv, Inv', SerialInv, Observe, NEW a \in ActionIds, SweepErase(a)
  PROVE  SerialInv' /\ UNCHANGED <<restDoc, restPast>>
<1>1. /\ Sweeps(a) /\ act[a].state \in {"Abort", "Finished"}
      /\ act[a].state = "Abort" \/ act[a].kind \notin Undoables
      /\ actions' = RemoveAt(actions, idx) /\ act' = [act EXCEPT ![a] = Blank]
      /\ UNCHANGED <<units, routes, unitViews, routeViews, plan, planInWork, undoList, pc, pending, fault,
                     rtTasks, rtPhase, rtPlan>>
  BY DEF SweepErase, projectVars, viewVars, rtVars
<1>2. \A b \in ActionIds \ {a} : act'[b] = act[b]
  BY <1>1 DEF Inv, TypeOK
<1>3. actions # <<>> /\ pc = "sweep"
  BY <1>1, SweptFirst DEF SerialInv
<1>4. CASE a = Current /\ RemoveAt(actions, idx) = <<>>
  <2>1. act[a].state = "Finished" /\ act[a].kind \notin Undoables /\ act[a].direction # "Backward"
    BY <1>1, <1>3, <1>4 DEF SerialInv, OneUnderWay
  <2>2. /\ restPast = PastOf(undoList, before) /\ LeadsBack(undoList, act, before, restDoc)
        /\ Document = restDoc
    BY <1>3, <1>4, <2>1 DEF SerialInv, HistoryUnderWay, ForwardUnderWay
  <2>3. undoList \in Seq(ActionIds) /\ DOMAIN undoList = 1..Len(undoList)
    BY ElementsAtPositions DEF Inv, TypeOK
  <2>4. \A b \in ToSet(undoList) : act'[b] = act[b] /\ before'[b] = before[b]
    <3>1. a \notin ToSet(undoList)
      BY <1>3, <1>4, CurrentOwned DEF SerialInv
    <3> QED
      BY <1>2, <3>1, FoundStays
  <2>5. /\ PastOf(undoList, before') = PastOf(undoList, before)
        /\ \A d : LeadsBack(undoList, act, before, d) => LeadsBack(undoList, act', before', d)
    BY <2>3, <2>4, ChainStays
  <2>6. actions' = <<>> /\ Document' = Document
    BY <1>1, <1>4 DEF Document
  <2>7. restDoc' = Document' /\ restPast' = PastOf(undoList', before')
    BY <1>1, <2>3, <2>6 DEF Observe, PastOf
  <2>8. HistoryUnderWay'
    BY <1>1, <2>2, <2>5, <2>6, <2>7 DEF HistoryUnderWay
  <2>9. PlanUnderWay'
    <3>1. ~Sent /\ ~Sent'
      BY <1>4, <2>1, <2>6 DEF Sent
    <3> QED
      BY <1>1, <1>3, <3>1 DEF SerialInv, PlanUnderWay
  <2>10. ViewsUnderWay'
    <3>1. /\ unitViews = Ids(units)
          /\ \A r \in Routes : r.kind = "audio" => routeViews[r] = routes[r]
      BY <1>4, <2>1 DEF SerialInv, ViewsUnderWay
    <3> QED
      BY <1>1, <3>1 DEF ViewsUnderWay
  <2>11. OneUnderWay'
    BY <2>6, EmptySeq DEF OneUnderWay
  <2> QED
    BY <1>1, <2>2, <2>5, <2>6, <2>7, <2>8, <2>9, <2>10, <2>11 DEF SerialInv
<1>5. CASE /\ a # Current /\ RemoveAt(actions, idx) # <<>>
           /\ Last(RemoveAt(actions, idx)) = Current /\ Len(RemoveAt(actions, idx)) = 1
  <2>1. /\ actions' # <<>> /\ Current' = Current /\ Len(actions') = 1
        /\ act'[Current] = act[Current] /\ Current \in ActionIds
    <3>1. Current \in ActionIds
      BY <1>3, CurrentOwned DEF SerialInv
    <3> QED
      BY <1>1, <1>2, <1>5, <3>1 DEF Current
  <2>2. \A b \in ToSet(undoList) : act'[b] = act[b]
    <3>1. a \in ToSet(actions)
      BY <1>1, Positions DEF Sweeps, Inv, TypeOK
    <3> QED
      BY <1>2, <3>1, Positions DEF Inv, OneOwner
  <2>3. (Sent' <=> Sent) /\ OneUnderWay'
    BY <1>1, <1>3, <2>1 DEF Sent, SerialInv, OneUnderWay
  <2>4. PlanUnderWay'
    BY <1>1, <1>3, <2>1, <2>3 DEF SerialInv, PlanUnderWay
  <2> QED
    BY <1>1, <1>3, <2>1, <2>2, <2>3, <2>4, StepAside
<1> QED
  BY <1>1, <1>4, <1>5, SweptFirst DEF SerialInv

\* The documents of a list that an action moved to, which may have pushed out the oldest.
LEMMA RetiredChain ==
  ASSUME NEW list \in Seq(ActionIds), NEW acts, NEW found, NEW a \in ActionIds, NEW d,
         LeadsBack(list, acts, found, found[a]), Sound(found[a]), TakesBack(acts[a], d, found[a]),
         Len(list) <= UndoLimit
  PROVE  /\ LeadsBack(Retire(list, a), acts, found, d)
         /\ Len(Retire(list, a)) <= UndoLimit
         /\ PastOf(Retire(list, a), found)
              = Append(IF Len(PastOf(list, found)) = UndoLimit THEN Tail(PastOf(list, found))
                       ELSE PastOf(list, found), found[a])
<1>1. Len(PastOf(list, found)) = Len(list) /\ Len(list) \in Nat /\ UndoLimit \in Nat \ {0}
  <2>1. Len(PastOf(list, found)) = Len(list)
    BY PastElements
  <2>2. UndoLimit \in Nat \ {0}
    BY EngineAssumption
  <2> QED
    BY <2>1, <2>2, LenProperties
<1>2. CASE Len(list) = UndoLimit
  <2> DEFINE rest == Tail(list)
  <2>1. Retire(list, a) = Append(rest, a)
    BY <1>2, <1>1 DEF Retire
  <2>2. Len(list) # 0 /\ rest \in Seq(ActionIds) /\ Len(rest) = Len(list) - 1
    BY <1>1, <1>2, HeadTailProperties, EmptySeq
  <2>3. LeadsBack(rest, acts, found, found[a]) /\ PastOf(rest, found) = Tail(PastOf(list, found))
    BY <2>2, ChainForgets
  <2> HIDE DEF rest
  <2>4. /\ LeadsBack(Append(rest, a), acts, found, d)
        /\ PastOf(Append(rest, a), found) = Append(PastOf(rest, found), found[a])
    BY <2>2, <2>3, ChainGrows
  <2>5. Len(Append(rest, a)) = Len(rest) + 1
    BY <2>2, AppendLast
  <2> QED
    BY <1>1, <1>2, <2>1, <2>2, <2>3, <2>4, <2>5
<1>3. CASE Len(list) # UndoLimit
  <2>1. Retire(list, a) = Append(list, a) /\ Len(list) < UndoLimit
    BY <1>1, <1>3 DEF Retire
  <2>2. /\ LeadsBack(Append(list, a), acts, found, d)
        /\ PastOf(Append(list, a), found) = Append(PastOf(list, found), found[a])
    BY ChainGrows
  <2>3. Len(Append(list, a)) = Len(list) + 1
    BY AppendLast
  <2> QED
    BY <1>1, <1>3, <2>1, <2>2, <2>3
<1> QED
  BY <1>2, <1>3

\* A finished edit can be undone next; a finished undo has brought back the document
\* that its edit found.
LEMMA SweepRetireSerial ==
  ASSUME Inv, Inv', SerialInv, Observe, NEW a \in ActionIds, SweepRetire(a)
  PROVE  SerialInv' /\ Stack!Next
<1>1. /\ Sweeps(a) /\ act[a].state = "Finished" /\ act[a].kind \in Undoables
      /\ actions' = RemoveAt(actions, idx)
      /\ UNCHANGED <<units, routes, unitViews, routeViews, plan, planInWork, pc, pending, fault,
                     rtTasks, rtPhase, rtPlan>>
  BY DEF SweepRetire, projectVars, viewVars, rtVars
<1>2. actions # <<>> /\ pc = "sweep" /\ a = Current /\ actions' = <<>>
  <2>1. "Undo" \notin Undoables
    BY DEF Undoables
  <2>2. Len(actions) = 2 => act[actions[1]].kind = "Undo"
    BY DEF SerialInv, OneUnderWay
  <2> QED
    BY <1>1, <2>1, <2>2, SweptFirst DEF SerialInv
<1>3. Begun /\ Document' = Document /\ Sound(Document)
  BY <1>1, <1>2 DEF Begun, Document, SerialInv
<1>4. /\ undoList \in Seq(ActionIds) /\ undoList' \in Seq(ActionIds) /\ redoList \in Seq(ActionIds)
      /\ Len(undoList) <= UndoLimit
      /\ DOMAIN undoList' = 1..Len(undoList')
      /\ a \notin ToSet(undoList) /\ a \notin ToSet(redoList)
      /\ ToSet(undoList) \cap ToSet(redoList) = {}
      /\ IsInjective(undoList) /\ IsInjective(redoList)
      /\ act[a].direction \in {"Forward", "Backward"}
  <2>1. undoList' \in Seq(ActionIds)
    BY DEF Inv, TypeOK
  <2>2. a \notin ToSet(undoList) /\ a \notin ToSet(redoList) /\ act[a] \in ActionRecords
    BY <1>2, CurrentOwned DEF SerialInv
  <2> QED
    BY <2>1, <2>2, ElementsAtPositions DEF Inv, TypeOK, OneOwner, SerialInv, ActionRecords
<1>5. before'[a] = before[a] /\ \A b \in ToSet(undoList) : b \in ActionIds /\ before'[b] = before[b]
  <2>1. ~StartsForward(a)
    BY <1>1 DEF StartsForward, Runs
  <2> QED
    BY <2>1, FoundStays
<1>6. restDoc' = Document' /\ restPast' = PastOf(undoList', before')
  BY <1>2, <1>4 DEF Observe, PastOf
<1>7. PlanUnderWay' /\ ViewsUnderWay' /\ OneUnderWay'
  <2>1. ~Sent /\ ~Sent'
    BY <1>1, <1>2 DEF Sent
  <2>2. PlanUnderWay'
    BY <1>1, <1>2, <2>1 DEF SerialInv, PlanUnderWay
  <2>3. /\ unitViews = Ids(units)
        /\ \A r \in Routes : r.kind = "audio" => routeViews[r] = routes[r]
    BY <1>1, <1>2 DEF SerialInv, ViewsUnderWay
  <2>4. ViewsUnderWay'
    BY <1>1, <2>3 DEF ViewsUnderWay
  <2>5. OneUnderWay'
    BY <1>2, EmptySeq DEF OneUnderWay
  <2> QED
    BY <2>2, <2>4, <2>5
<1>8. CASE act[a].direction = "Forward"
  <2>1. undoList' = Retire(undoList, a) /\ act' = Evict(undoList)
    BY <1>8 DEF SweepRetire
  <2>2. /\ restPast = PastOf(undoList, before) /\ LeadsBack(undoList, act, before, restDoc)
        /\ before[a] = restDoc /\ TakesBack(act[a], Document, restDoc) /\ Sound(restDoc)
    <3>1. /\ restPast = PastOf(undoList, before) /\ LeadsBack(undoList, act, before, restDoc)
          /\ ForwardUnderWay /\ Sound(restDoc)
      BY <1>2, <1>8 DEF SerialInv, HistoryUnderWay
    <3> QED
      BY <1>1, <1>2, <1>3, <3>1 DEF ForwardUnderWay, Undoables
  <2>3. /\ LeadsBack(Retire(undoList, a), act, before, Document)
        /\ Len(Retire(undoList, a)) <= UndoLimit
        /\ PastOf(Retire(undoList, a), before)
             = Append(IF Len(restPast) = UndoLimit THEN Tail(restPast) ELSE restPast, restDoc)
    <3>1. /\ LeadsBack(undoList, act, before, before[a])
          /\ Sound(before[a]) /\ TakesBack(act[a], Document, before[a])
      BY <2>2
    <3>2. /\ LeadsBack(Retire(undoList, a), act, before, Document)
          /\ Len(Retire(undoList, a)) <= UndoLimit
          /\ PastOf(Retire(undoList, a), before)
               = Append(IF Len(PastOf(undoList, before)) = UndoLimit THEN Tail(PastOf(undoList, before))
                        ELSE PastOf(undoList, before), before[a])
      <4>1. undoList \in Seq(ActionIds) /\ Len(undoList) <= UndoLimit
        BY <1>4
      <4> DEFINE d == Document
      <4> HIDE DEF d
      <4>2. TakesBack(act[a], d, before[a])
        BY <3>1 DEF d
      <4> QED
        BY <3>1, <4>1, <4>2, RetiredChain, Zenon DEF d
    <3> QED
      BY <2>2, <3>2
  <2>4. \A b \in ToSet(undoList') : act'[b] = act[b] /\ before'[b] = before[b]
    BY <1>4, <1>5, <2>1, RetireElements DEF Inv
  <2>5. /\ PastOf(undoList', before') = PastOf(undoList', before)
        /\ \A d : LeadsBack(undoList', act, before, d) => LeadsBack(undoList', act', before', d)
    BY <1>4, <2>4, ChainStays
  <2>6. HistoryUnderWay'
    BY <1>2, <1>3, <1>6, <2>1, <2>3, <2>5 DEF HistoryUnderWay
  <2>7. Stack!Do
    BY <1>6, <2>1, <2>3, <2>5 DEF Stack!Do
  <2>8. SerialInv'
    BY <1>1, <1>3, <1>6, <1>7, <2>1, <2>3, <2>6 DEF SerialInv
  <2> QED
    BY <2>7, <2>8 DEF Stack!Next
<1>9. CASE act[a].direction = "Backward"
  <2>1. redoList' = Retire(redoList, a) /\ act' = Evict(redoList) /\ undoList' = undoList
    BY <1>9 DEF SweepRetire
  <2>2. /\ restPast = Append(PastOf(undoList, before), before[a])
        /\ LeadsBack(undoList, act, before, before[a])
        /\ Document = before[a]
    BY <1>2, <1>3, <1>9 DEF SerialInv, HistoryUnderWay, BackwardUnderWay
  <2>3. \A b \in ToSet(undoList) : act'[b] = act[b] /\ before'[b] = before[b]
    BY <1>4, <1>5, <2>1, RetireElements DEF Inv
  <2>4. /\ PastOf(undoList, before') = PastOf(undoList, before)
        /\ \A d : LeadsBack(undoList, act, before, d) => LeadsBack(undoList, act', before', d)
    BY <1>4, <2>3, ChainStays
  <2>5. HistoryUnderWay'
    BY <1>2, <1>3, <1>6, <2>1, <2>2, <2>4 DEF HistoryUnderWay
  <2>6. Stack!Undo
    <3> DEFINE S == {before[b] : b \in ActionIds}
               past == PastOf(undoList, before)
    <3>1. past \in Seq(S) /\ before[a] \in S
      BY <1>4, PastElements
    <3> HIDE DEF S, past
    <3>2. /\ Append(past, before[a]) # <<>> /\ Last(Append(past, before[a])) = before[a]
          /\ Front(Append(past, before[a])) = past
      BY <3>1, AppendLast
    <3>3. restPast = Append(past, before[a]) /\ restPast' = past /\ restDoc' = before[a]
      BY <1>3, <1>6, <2>1, <2>2, <2>4 DEF past
    <3> QED
      BY <3>2, <3>3 DEF Stack!Undo, Stack!Last, Stack!Front, Last, Front
  <2>7. SerialInv'
    BY <1>1, <1>3, <1>4, <1>6, <1>7, <2>1, <2>5 DEF SerialInv
  <2> QED
    BY <2>6, <2>7 DEF Stack!Next
<1> QED
  BY <1>4, <1>8, <1>9

(* ------------------------ the next edit is emitted ----------------------- *)

\* It comes when the list is empty and names what the snapshot, which then shows the
\* project, offers.
LEMMA EmitActionSerial ==
  ASSUME OneEditAtATime, Inv, Inv', SerialInv, Observe,
         NEW kind, NEW id, NEW route, NEW swap, EmitAction(kind, id, route, swap),
         kind = "DeleteUnit" => id \in unitViews,
         kind = "AddNewRoute" => swap /\ route \in Routes /\ Endpoints(route) \subseteq unitViews
  PROVE  SerialInv' /\ actions' # <<>>
<1> DEFINE b == CHOOSE c \in Free : TRUE
<1>1. /\ kind \in Edits /\ Len(actions) < MaxInFlight /\ Free # {}
      /\ act' = [act EXCEPT ![b] = NewAction(kind, id, route, swap)]
      /\ actions' = Append(actions, b)
      /\ UNCHANGED <<units, routes, unitViews, routeViews, plan, planInWork, undoList, pc, pending, fault,
                     rtTasks, rtPhase, rtPlan>>
  BY DEF EmitAction, projectVars, viewVars, rtVars
<1>2. b \in Free /\ b \in ActionIds /\ b \notin ToSet(undoList)
  BY <1>1 DEF Free, Owned
<1> HIDE DEF b
<1>3. actions = <<>> /\ kind # "Redo"
  <2>1. actions \in Seq(ActionIds) /\ MaxInFlight \in Nat /\ MaxInFlight <= 1
    BY EngineAssumption DEF Inv, TypeOK, OneEditAtATime
  <2>2. Len(actions) = 0
    BY <1>1, <2>1, LenProperties
  <2> QED
    BY <1>1, <2>1, <2>2, EmptySeq DEF OneEditAtATime
<1>4. actions' # <<>> /\ Current' = b /\ Len(actions') = 1
  <2>1. actions \in Seq(ActionIds) /\ Len(actions) = 0
    BY <1>3 DEF Inv, TypeOK
  <2>2. actions' # <<>> /\ Last(actions') = b /\ Len(actions') = Len(actions) + 1
    BY <1>1, <1>2, <2>1, AppendLast
  <2> QED
    BY <2>1, <2>2 DEF Current
<1>5. pc # "publish"
  <2>1. DOMAIN actions = 1..0
    BY <1>3, Positions DEF Inv
  <2> QED
    BY <2>1 DEF Inv, PassMeetsLiveActions
<1>6. /\ \A c \in ToSet(undoList) : act'[c] = act[c]
      /\ act'[b].kind = kind /\ act'[b].id = id /\ act'[b].route = route /\ act'[b].swap = swap
      /\ act'[b].direction = "Forward" /\ act'[b].state = "Executing" /\ act'[b].step = 1
      /\ act'[b].saved = NoRoutes
  <2>1. act'[b] = NewAction(kind, id, route, swap) /\ \A c \in ActionIds \ {b} : act'[c] = act[c]
    BY <1>1, <1>2 DEF Inv, TypeOK
  <2> QED
    BY <1>2, <2>1, FoundStays DEF NewAction
<1>7. /\ restPast = PastOf(undoList, before) /\ LeadsBack(undoList, act, before, restDoc)
      /\ Document = restDoc /\ Document' = Document
  BY <1>1, <1>3 DEF SerialInv, HistoryUnderWay, Document
<1>8. /\ restDoc' = restDoc /\ restPast' = restPast
      /\ PastOf(undoList', before') = PastOf(undoList, before)
      /\ \A d : LeadsBack(undoList, act, before, d) => LeadsBack(undoList', act', before', d)
  BY <1>1, <1>4, <1>6, HistoryStays
<1>9. ~Begun' /\ ~Sent /\ ~Sent'
  BY <1>1, <1>3, <1>4, <1>5, <1>6 DEF Begun, Sent
<1>10. OneUnderWay'
  BY <1>3, <1>4, <1>5, <1>6, <1>1 DEF OneUnderWay
<1>11. PlanUnderWay'
  BY <1>1, <1>5, <1>9 DEF SerialInv, PlanUnderWay
<1>12. unitViews = Ids(units) /\ ViewsUnderWay'
  BY <1>1, <1>3 DEF SerialInv, ViewsUnderWay
<1>13. HistoryUnderWay'
  <2>1. unitViews = restDoc.ids
    BY <1>7, <1>12 DEF Document
  <2>2. ForwardUnderWay'
    BY <1>4, <1>6, <1>7, <1>8, <1>9, <2>1 DEF ForwardUnderWay
  <2> QED
    BY <1>4, <1>6, <1>7, <1>8, <2>2 DEF HistoryUnderWay
<1> QED
  BY <1>1, <1>4, <1>7, <1>8, <1>10, <1>11, <1>12, <1>13 DEF SerialInv

\* The four ways to emit an action.
LEMMA EmitSerial ==
  ASSUME OneEditAtATime, Inv, Inv', SerialInv, Observe, Emit
  PROVE  SerialInv' /\ actions' # <<>>
<1>1. CASE EmitCreateNewUnit
  BY <1>1, EmitActionSerial DEF EmitCreateNewUnit
<1>2. CASE EmitDeleteUnit
  BY <1>2, EmitActionSerial DEF EmitDeleteUnit
<1>3. CASE EmitAddNewRoute
  <2>1. ASSUME NEW r \in Routes, Endpoints(r) \subseteq unitViews, NEW swap \in SwapPlans,
               EmitAction("AddNewRoute", 0, r, swap)
        PROVE  SerialInv' /\ actions' # <<>>
    <3>1. swap
      BY <2>1, EngineAssumption DEF OneEditAtATime
    <3> QED
      BY <2>1, <3>1, EmitActionSerial
  <2> QED
    BY <1>3, <2>1 DEF EmitAddNewRoute
<1>4. CASE EmitOther
  BY <1>4, EmitActionSerial DEF EmitOther
<1> QED
  BY <1>1, <1>2, <1>3, <1>4 DEF Emit

(* ------------------------------ every step ------------------------------- *)

\* The loaded project is sound, its plan is in work, and there is nothing to undo.
LEMMA InitSerial ==
  ASSUME OneEditAtATime, HistoryInit
  PROVE  SerialInv
<1>1. /\ units = LoadedUnits /\ routes = LoadedRoutes /\ planInWork = 1
      /\ plan[1] = BuildPlan(units, routes) /\ unitViews = 1..InitialUnits /\ routeViews = routes
      /\ actions = <<>> /\ undoList = <<>> /\ pc = "walk" /\ fault = "none"
      /\ rtTasks = <<>> /\ rtPhase = "tasks" /\ rtPlan = {}
      /\ restDoc = Document /\ restPast = <<>>
  BY DEF HistoryInit, Init
<1>2. Ids(units) = 1..InitialUnits
  <2>1. \A u \in units : u.id \in 1..InitialUnits
    BY <1>1 DEF LoadedUnits
  <2>2. \A i \in 1..InitialUnits : [id |-> i, life |-> 0] \in units /\ [id |-> i, life |-> 0].id = i
    BY <1>1 DEF LoadedUnits
  <2>3. 1..InitialUnits \subseteq Ids(units)
    BY <2>2, Zenon DEF Ids
  <2> QED
    BY <2>1, <2>3 DEF Ids
<1>3. Sound(Document)
  <2>1. 1..InitialUnits \subseteq Nat /\ LoadedRoutes \in RouteBags
    BY EngineAssumption DEF LoadedRoutes, RouteBags
  <2>2. \A r \in Routes : LoadedRoutes[r] > 0 => r \in InitialRoutes
    BY DEF LoadedRoutes
  <2>3. Targets(LoadedRoutes) \subseteq 1..InitialUnits
    BY <2>2, TargetsOfRoutes DEF OneEditAtATime
  <2> QED
    BY <1>1, <1>2, <2>1, <2>3 DEF Sound, Document
<1>4. Len(undoList) = 0 /\ Len(actions) = 0
  BY <1>1
<1>5. HistoryUnderWay
  <2>1. LeadsBack(undoList, act, before, restDoc)
    BY <1>4 DEF LeadsBack
  <2>2. PastOf(undoList, before) = <<>>
    <3> DEFINE S == {before[a] : a \in ActionIds}
    <3>1. undoList \in Seq(ActionIds)
      BY <1>1
    <3>2. PastOf(undoList, before) \in Seq(S) /\ Len(PastOf(undoList, before)) = Len(undoList)
      BY <3>1, PastElements
    <3> HIDE DEF S
    <3> QED
      BY <1>4, <3>2, EmptySeq
  <2> QED
    BY <1>1, <2>1, <2>2 DEF HistoryUnderWay
<1>6. PlanUnderWay
  <2>1. ~Sent /\ BuildPlan(units, routes) \subseteq units
    BY <1>1, PlanType DEF Sent
  <2> QED
    BY <1>1, <2>1 DEF PlanUnderWay
<1>7. ViewsUnderWay /\ OneUnderWay
  BY <1>1, <1>2, <1>4 DEF ViewsUnderWay, OneUnderWay
<1> QED
  BY <1>1, <1>3, <1>4, <1>5, <1>6, <1>7, EngineAssumption DEF SerialInv

\* One step of the engine is one step of an undo stack or none.
LEMMA NextSerial ==
  ASSUME OneEditAtATime, Inv, Inv', UnitInv, SerialInv, HistoryNext
  PROVE  SerialInv' /\ (Stack!Next \/ UNCHANGED <<restDoc, restPast>>)
<1> USE DEF HistoryNext
<1>1. actions' # <<>> => UNCHANGED <<restDoc, restPast>>
  BY DEF Observe
<1>2. ASSUME NEW a \in ActionIds, Exec(a)
      PROVE  SerialInv' /\ actions' # <<>>
  <2>1. At(a) /\ ~RedoExec(a)
    <3>1. At(a)
      BY <1>2 DEF Exec, CreateForward, CreateBackward, DeleteForward1, DeleteForward2, DeleteBackward1,
                  DeleteBackward2, RouteForward1, RouteBackward1, Route2, UpdateRenderPlan1,
                  UpdateRenderPlan2, UndoExec, RedoExec, Runs
    <3>2. act[a].kind # "Redo"
      BY <3>1, AtCurrent DEF SerialInv, OneUnderWay
    <3> QED
      BY <3>1, <3>2 DEF RedoExec, Runs
  <2>2. SerialInv'
    BY <1>2, <2>1, CreateForwardSerial, CreateBackwardSerial, DeleteForward1Serial, DeleteForward2Serial,
       DeleteBackward1Serial, DeleteBackward2Serial, RouteForward1Serial, RouteBackward1Serial, Route2Serial,
       UpdateRenderPlan1Serial, UpdateRenderPlan2Serial, UndoExecSerial DEF Exec
  <2>3. actions # <<>> /\ actions \in Seq(ActionIds)
    BY <2>1, AtCurrent DEF SerialInv, Inv, TypeOK
  <2>4. CASE UndoExec(a)
    <3>1. actions' = actions \/ \E b : actions' = Append(actions, b)
      BY <2>4 DEF UndoExec, Replay
    <3> QED
      BY <2>2, <2>3, <3>1
  <2>5. CASE ~UndoExec(a)
    <3>1. actions' = actions
      BY <1>2, <2>1, <2>5 DEF Exec, CreateForward, CreateBackward, DeleteForward1, DeleteForward2, DeleteBackward1,
                  DeleteBackward2, RouteForward1, RouteBackward1, Route2, UpdateRenderPlan1,
                  UpdateRenderPlan2, listVars
    <3> QED
      BY <2>2, <2>3, <3>1
  <2> QED
    BY <2>4, <2>5
<1>3. ASSUME NEW a \in ActionIds, CheckWaitingCondition(a)
      PROVE  SerialInv' /\ actions' # <<>>
  <2>1. At(a) /\ actions' = actions
    BY <1>3 DEF CheckWaitingCondition, listVars
  <2> QED
    BY <1>3, <2>1, CheckWaitingSerial, AtCurrent DEF SerialInv
<1>4. CASE PublishPlan
  <2>1. actions' = actions /\ actions # <<>>
    BY <1>4, Positions DEF PublishPlan, Inv, PassMeetsLiveActions, listVars
  <2> QED
    BY <1>1, <1>4, <2>1, PublishPlanSerial
<1>5. CASE RtExecTask
  <2>1. actions' = actions /\ actions # <<>>
    BY <1>5 DEF RtExecTask, SerialInv, PlanUnderWay, Sent, listVars
  <2> QED
    BY <1>1, <1>5, <2>1, RtExecTaskSerial
<1>6. CASE Emit
  BY <1>1, <1>6, EmitSerial
<1>7. ASSUME NEW a \in ActionIds, SweepErase(a) \/ SweepRetire(a)
      PROVE  SerialInv' /\ (Stack!Next \/ UNCHANGED <<restDoc, restPast>>)
  BY <1>7, SweepEraseSerial, SweepRetireSerial
<1>8. CASE EndWalk \/ EndPass \/ \E a \in ActionIds : SweepKeep(a)
  BY <1>8, PassSerial
<1>9. CASE RtRender \/ RtEndBlock
  BY <1>9, RenderSerial
<1> QED
  BY <1>1, <1>2, <1>3, <1>4, <1>5, <1>6, <1>7, <1>8, <1>9 DEF Next, ControlStep, RtStep

\* Nor does stuttering change anything.
LEMMA StutterSerial ==
  ASSUME SerialInv, UNCHANGED <<vars, historyVars>>
  PROVE  SerialInv' /\ UNCHANGED <<restDoc, restPast>>
<1>1. /\ UNCHANGED <<units, routes, plan, planInWork, unitViews, routeViews, act, actions, undoList, pc,
                     pending, rtTasks, rtPhase, rtPlan, fault>>
      /\ UNCHANGED <<before, restDoc, restPast>>
  BY DEF vars, historyVars, projectVars, viewVars, listVars, rtVars
<1>2. Current' = Current /\ (Begun' <=> Begun) /\ (Sent' <=> Sent) /\ Document' = Document
  BY <1>1 DEF Current, Begun, Sent, Document
<1>3. OneUnderWay'
  BY <1>1, <1>2 DEF SerialInv, OneUnderWay
<1>4. PlanUnderWay'
  BY <1>1, <1>2 DEF SerialInv, PlanUnderWay
<1>5. ViewsUnderWay'
  BY <1>1, <1>2 DEF SerialInv, ViewsUnderWay
<1>6. HistoryUnderWay'
  <2>1. ForwardUnderWay => ForwardUnderWay'
    BY <1>1, <1>2 DEF ForwardUnderWay
  <2>2. BackwardUnderWay => BackwardUnderWay'
    BY <1>1, <1>2 DEF BackwardUnderWay
  <2> QED
    BY <1>1, <1>2, <2>1, <2>2 DEF SerialInv, HistoryUnderWay
<1> QED
  BY <1>1, <1>2, <1>3, <1>4, <1>5, <1>6 DEF SerialInv

(* ------------------------------- theorems -------------------------------- *)

\* The three invariants hold together in every state of the engine with its history.
LEMMA SerialInvariance ==
  ASSUME OneEditAtATime
  PROVE  HistorySpec => [](Inv /\ UnitInv /\ SerialInv)
<1>1. HistoryInit => Inv /\ UnitInv /\ SerialInv
  BY InitInv, InitUnits, InitSerial DEF HistoryInit
<1>2. Inv /\ UnitInv /\ SerialInv /\ [HistoryNext]_<<vars, historyVars>> => Inv' /\ UnitInv' /\ SerialInv'
  <2> SUFFICES ASSUME Inv, UnitInv, SerialInv, [HistoryNext]_<<vars, historyVars>>
               PROVE  Inv' /\ UnitInv' /\ SerialInv'
    OBVIOUS
  <2>1. [Next]_vars
    BY DEF HistoryNext
  <2>2. Inv' /\ UnitInv'
    BY <2>1, NextInv, NextUnits
  <2> QED
    BY <2>2, NextSerial, StutterSerial
<1> QED
  BY <1>1, <1>2, PTL DEF HistorySpec

\* With one edit at a time nothing that the real-time thread renders, or may pick up
\* next, was destroyed, and no edit ends the process.
THEOREM RtRendersLiveUnitsAlways ==
  ASSUME OneEditAtATime
  PROVE  HistorySpec => []RtRendersLiveUnits
<1>1. SerialInv => RtRendersLiveUnits
  BY DEF SerialInv, PlanUnderWay, RtRendersLiveUnits
<1> QED
  BY <1>1, SerialInvariance, PTL

\* What is heard is what the routes say, as soon as the edit is through.
THEOREM PlanFollowsRoutesAlways ==
  ASSUME OneEditAtATime
  PROVE  HistorySpec => []PlanFollowsRoutes
<1>1. Inv /\ SerialInv => PlanFollowsRoutes
  <2> SUFFICES ASSUME Inv, SerialInv, AtRest
               PROVE  plan[planInWork] = BuildPlan(units, routes)
    BY DEF PlanFollowsRoutes
  <2>1. actions = <<>> /\ ~Sent
    BY DEF AtRest, Sent
  <2>2. pc # "publish"
    <3>1. DOMAIN actions = 1..0
      BY <2>1, Positions DEF Inv
    <3> QED
      BY <3>1 DEF Inv, PassMeetsLiveActions
  <2> QED
    BY <2>1, <2>2 DEF SerialInv, PlanUnderWay
<1> QED
  BY <1>1, SerialInvariance, PTL

\* And what is shown is what is there.
THEOREM ViewsFollowProjectAlways ==
  ASSUME OneEditAtATime
  PROVE  HistorySpec => []ViewsFollowProject
<1>1. SerialInv => ViewsFollowProject
  BY DEF SerialInv, ViewsUnderWay, ViewsFollowProject, AtRest
<1> QED
  BY <1>1, SerialInvariance, PTL

\* The engine implements the undo stack: a finished edit puts the document it found
\* on the stack, a finished undo brings back the document on top, all else stutters.
THEOREM UndoRestoresAlways ==
  ASSUME OneEditAtATime
  PROVE  HistorySpec => UndoRestores
<1>1. HistoryInit => Stack!Init
  BY DEF HistoryInit, Stack!Init
<1>2. /\ Inv /\ UnitInv /\ SerialInv /\ (Inv /\ UnitInv /\ SerialInv)'
      /\ [HistoryNext]_<<vars, historyVars>>
      => [Stack!Next]_<<restDoc, restPast>>
  BY NextSerial, StutterSerial
<1> QED
  BY <1>1, <1>2, SerialInvariance, PTL DEF HistorySpec, UndoRestores, Stack!Spec
=============================================================================
