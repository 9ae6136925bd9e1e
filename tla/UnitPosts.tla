------------------------------ MODULE UnitPosts ------------------------------
(***************************************************************************)
(* The control thread as the two surfaces see it: what an action does to   *)
(* the snapshot the surfaces read and which tasks it posts to them.  The   *)
(* display always gets a task; the push controller only those about units, *)
(* and only while its thread runs.  One action runs at a time here (their  *)
(* overlap is the subject of ControlEngine).                               *)
(***************************************************************************)
EXTENDS Naturals, Sequences, FiniteSets, SequencesExt

CONSTANTS
  Workloads,   \* what the user does: see Display and PushSurface
  SavedUnits,  \* the units of the project file that can be loaded
  MaxUnit      \* a bound on unit IDs

VARIABLES
  plan,       \* the workload of this behaviour and what is left of it
  units,      \* ProjectView::_unitViewList, by ID
  counter,    \* Project::_unitIDCounter
  routes,     \* Project::_routes and _midiRoutes
  seen,       \* ProjectView::_routes and _midiRoutes
  clips,      \* per unit ID, the clips of the container's view of the unit that was
              \* made last under it, the version of the view and that unit's number
  roll,       \* TimelineView::_state, once an action is over
  looping,    \* TimelineView::_isLoop
  emitted,    \* ControlEngine::_actions
  done,       \* _undoList
  undone,     \* _redoList
  tasks,      \* g_async_queue
  pushTasks,  \* _taskQueue of the push thread
  pushRuns,   \* PushThread::isRunning()
  silent,     \* history: what changed without a task since the display last read it
  fault       \* what the process died of

projectVars == <<units, counter, routes, seen, clips, roll, looping>>
controlVars == <<emitted, done, undone, tasks, pushTasks>>

\* An action as the surfaces emit it; the fields its kind does not use keep these values.
Act(kind) ==
  [do |-> kind, id |-> 0, route |-> [from |-> 0, to |-> 0], clip |-> 0, to |-> "Stop",
   step |-> 1, back |-> FALSE, held |-> [audio |-> <<>>, midi |-> <<>>]]

On(kind, id) == [Act(kind) EXCEPT !.id = id]
Task(kind, id) == [do |-> kind, id |-> id]

NoRoutes == [audio |-> <<>>, midi |-> <<>>]
NoClips(n) == [items |-> {}, version |-> 0, unit |-> n]
Newest == Max({clips[i].unit : i \in DOMAIN clips})

Undoables == {"create", "delete", "audio", "midi", "looppos", "tempo", "value"}

\* Mutant: the push controller is not told that the project is gone.
MutTypeOfUnitTask(t) == t.do \in {"add", "remove", "restore", "delete"}

TypeOfUnitTask(t) == t.do \in {"add", "remove", "restore", "delete", "clear"}

\* UIControls: the display's queue takes every task, the push thread's only its own.
Post(ts) ==
  /\ tasks' = tasks \o ts
  /\ pushTasks' = IF pushRuns THEN pushTasks \o SelectSeq(ts, TypeOfUnitTask) ELSE pushTasks

Touches(r, id) == id \in {r.from, r.to}
Keep(rs, id) == SelectSeq(rs, LAMBDA r : ~Touches(r, id))
Take(rs, id) == SelectSeq(rs, LAMBDA r : Touches(r, id))

PostsInit ==
  /\ plan \in Workloads
  /\ units = plan.units
  /\ counter = Len(plan.units)
  /\ routes = plan.routes
  /\ seen = plan.routes
  /\ clips = [i \in 1..MaxUnit |-> NoClips(IF i <= Len(plan.units) THEN i ELSE 0)]
  /\ roll = "Stop"
  /\ looping = FALSE
  /\ emitted = <<>>
  /\ done = <<>>
  /\ undone = <<>>
  /\ tasks = <<>>
  /\ pushTasks = <<>>
  /\ pushRuns = plan.push
  /\ silent = {}
  /\ fault = "none"

(***************************************************************************)
(* Leaving the action list.  A finished undoable action goes to the undo   *)
(* or the redo list; the redo list is not emptied by a new edit.           *)
(***************************************************************************)
Finish(a) ==
  /\ emitted' = Tail(emitted)
  /\ IF a.do \notin Undoables THEN UNCHANGED <<done, undone>>
     ELSE IF a.back
     THEN /\ undone' = Append(undone, [a EXCEPT !.step = 1, !.back = FALSE])
          /\ UNCHANGED done
     ELSE /\ done' = Append(done, [a EXCEPT !.step = 1, !.back = TRUE])
          /\ UNCHANGED undone

Abort ==
  /\ emitted' = Tail(emitted)
  /\ UNCHANGED <<done, undone>>

GoOn(a) ==
  /\ emitted' = <<a>> \o Tail(emitted)
  /\ UNCHANGED <<done, undone>>

Runs(kind) == fault = "none" /\ emitted # <<>> /\ Head(emitted).do = kind

\* Undoing it needs the unit: it is destroyed through the pointer that was found.
CreateUnit ==
  /\ Runs("create")
  /\ LET a == Head(emitted)
         id == IF a.id = 0 THEN counter + 1 ELSE a.id
     IN IF a.back /\ a.id \notin ToSet(units)
        THEN /\ fault' = "no unit to remove"
             /\ UNCHANGED <<units, counter, clips, controlVars>>
        ELSE IF a.back
        THEN /\ units' = SelectSeq(units, LAMBDA u : u # a.id)
             /\ Post(<<Task("remove", a.id), Task("delete", a.id)>>)
             /\ Finish(a)
             /\ UNCHANGED <<counter, clips, fault>>
        ELSE IF \E i \in DOMAIN units : units[i] = id
        THEN Abort /\ UNCHANGED <<units, counter, clips, tasks, pushTasks, fault>>
        ELSE /\ units' = Append(units, id)
             /\ counter' = IF counter + 1 > id THEN counter + 1 ELSE id
             /\ clips' = [clips EXCEPT ![id] = NoClips(Newest + 1)]
             /\ Post(<<Task("add", id)>>)
             /\ Finish([a EXCEPT !.id = id])
             /\ UNCHANGED fault
  /\ UNCHANGED <<plan, routes, seen, roll, looping, pushRuns, silent>>

\* The audio routes of the unit leave the snapshot, its midi routes stay in it.
DeleteUnit ==
  /\ Runs("delete")
  /\ LET a == Head(emitted)
         held == [audio |-> Take(routes.audio, a.id), midi |-> Take(routes.midi, a.id)]
         known == \E i \in DOMAIN units : units[i] = a.id
         back == [audio |-> routes.audio \o a.held.audio, midi |-> routes.midi \o a.held.midi]
     IN \/ /\ a.step = 1 /\ ~a.back
           /\ Post(<<Task("remove", a.id)>>)
           /\ IF held = NoRoutes THEN UNCHANGED <<routes, seen>>
              ELSE /\ routes' = [audio |-> Keep(routes.audio, a.id), midi |-> Keep(routes.midi, a.id)]
                   /\ seen' = [seen EXCEPT !.audio = routes'.audio]
           /\ GoOn([a EXCEPT !.step = 2, !.held = held])
           /\ UNCHANGED units
        \/ /\ a.step = 2 /\ ~a.back
           /\ units' = SelectSeq(units, LAMBDA u : u # a.id)
           /\ IF known THEN Finish(a) ELSE Abort
           /\ UNCHANGED <<routes, seen, tasks, pushTasks>>
        \/ /\ a.step = 1 /\ a.back
           /\ units' = Append(units, a.id)
           /\ routes' = back
           /\ seen' = IF a.held = NoRoutes THEN seen ELSE [seen EXCEPT !.audio = routes'.audio]
           /\ GoOn([a EXCEPT !.step = 2, !.held = NoRoutes])
           /\ UNCHANGED <<tasks, pushTasks>>
        \/ /\ a.step = 2 /\ a.back
           /\ Post(<<Task("restore", a.id)>>)
           /\ Finish(a)
           /\ UNCHANGED <<units, routes, seen>>
  /\ silent' = silent \cup {"routes"}
  /\ UNCHANGED <<plan, counter, clips, roll, looping, pushRuns, fault>>

\* AddNewAudioRoute and AddNewMidiRoute: no route is refused (evaluateRoute), and
\* undoing one removes the first that equals it.  A plan cannot be built over a
\* route whose unit is gone: the process ends (RenderPlan).
AddRoute(tab) ==
  /\ Runs(tab)
  /\ LET a == Head(emitted)
         rs == routes[tab]
         at == {i \in DOMAIN rs : rs[i] = a.route}
         first == CHOOSE i \in at : \A j \in at : i <= j
         now == [routes EXCEPT ![tab] = IF a.back THEN RemoveAt(rs, first) ELSE Append(rs, a.route)]
     IN IF a.back /\ at = {}
        THEN Abort /\ UNCHANGED <<routes, seen, tasks, pushTasks, fault>>
        ELSE IF ~a.back /\ ~({a.route.from, a.route.to} \subseteq {0} \cup ToSet(units))
        THEN /\ fault' = "plan"
             /\ UNCHANGED <<routes, seen, controlVars>>
        ELSE /\ routes' = now
             /\ seen' = [seen EXCEPT ![tab] = routes'[tab]]
             /\ Post(<<Task("routes", 0)>>)
             /\ Finish(a)
             /\ UNCHANGED fault
  /\ UNCHANGED <<plan, units, counter, clips, roll, looping, pushRuns, silent>>

\* Undo and Redo put the newest action of their list at the end of the action list.
Replay ==
  /\ \/ /\ Runs("undo")
        /\ emitted' = Tail(emitted) \o (IF done = <<>> THEN <<>> ELSE <<Last(done)>>)
        /\ done' = IF done = <<>> THEN done ELSE Front(done)
        /\ UNCHANGED undone
     \/ /\ Runs("redo")
        /\ emitted' = Tail(emitted) \o (IF undone = <<>> THEN <<>> ELSE <<Last(undone)>>)
        /\ undone' = IF undone = <<>> THEN undone ELSE Front(undone)
        /\ UNCHANGED done
  /\ UNCHANGED <<plan, projectVars, tasks, pushTasks, pushRuns, silent, fault>>

\* LoadAsClip and RemoveClip swap in a container view of a new version; the
\* surfaces are told nothing and poll the version.
ChangeClips ==
  /\ Runs("clip") \/ Runs("unclip")
  /\ LET a == Head(emitted)
         old == clips[a.id]
         items == IF a.do = "clip" THEN old.items \cup {old.version + 1} ELSE old.items \ {a.clip}
     IN /\ clips' = [clips EXCEPT ![a.id].items = items, ![a.id].version = @ + 1]
        /\ Finish(a)
  /\ UNCHANGED <<plan, units, counter, routes, seen, roll, looping, tasks, pushTasks, pushRuns, silent, fault>>

\* ChangeTimelineState, ToggleLoop, LoopPosition, ChangeSignatureBpm, UpdatePlayhead
\* and ToggleMetronome end with one task for the display each.  The view is taken
\* while the units prepare, or just after.
Timeline ==
  /\ \E kind \in {"roll", "loop", "looppos", "tempo", "playhead", "metronome"} :
       /\ Runs(kind)
       /\ LET a == Head(emitted)
          IN /\ looping' = IF kind = "loop" THEN a.to = "on" ELSE looping
             /\ roll' \in IF kind # "roll" \/ a.to = "Record" THEN {roll}
                        ELSE IF a.to = "Play" THEN {"Preparing", "Play"} ELSE {a.to}
             /\ Post(<<Task(IF kind \in {"roll", "loop", "looppos"} THEN "timeline" ELSE kind, 0)>>)
             /\ Finish(a)
  /\ UNCHANGED <<plan, units, counter, routes, seen, clips, pushRuns, silent, fault>>

\* Names, parameters and moved clips reach the surfaces through the views they poll; a
\* project that is saved does not concern them.
SetValue ==
  /\ Runs("value") \/ Runs("save")
  /\ Finish(Head(emitted))
  /\ UNCHANGED <<plan, projectVars, tasks, pushTasks, pushRuns, silent, fault>>

\* LoadProject replaces the project and its snapshot and emits what the file holds, unless
\* it is no project; its last step empties the undo list, and every deletion in it
\* deletes the surface of its unit.
LoadProject ==
  /\ \/ /\ Runs("load")
        /\ units' = <<>>
        /\ counter' = 0
        /\ routes' = NoRoutes
        /\ seen' = NoRoutes
        /\ roll' = "Stop"
        /\ looping' = FALSE
        /\ Post(<<Task("clear", 0)>>)
        /\ \E loop \in {<<>>, <<[Act("loop") EXCEPT !.to = "on"]>>} :
             LET held == <<Act("tempo"), Act("looppos")>> \o loop
                           \o [i \in DOMAIN SavedUnits |-> On("create", SavedUnits[i])] \o <<Act("loaded")>>
             IN emitted' \in {Tail(emitted), Tail(emitted) \o held}
        /\ silent' = {"routes", "timeline"}
        /\ UNCHANGED done
     \/ /\ Runs("loaded")
        /\ LET held == SelectSeq(done, LAMBDA a : a.do = "delete")
           IN Post([i \in DOMAIN held |-> Task("delete", held[i].id)])
        /\ done' = <<>>
        /\ emitted' = Tail(emitted)
        /\ UNCHANGED <<units, counter, routes, seen, roll, looping, silent>>
  /\ UNCHANGED <<plan, clips, undone, pushRuns, fault>>
=============================================================================
