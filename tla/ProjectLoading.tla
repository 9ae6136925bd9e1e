--------------------------- MODULE ProjectLoading ---------------------------
(***************************************************************************)
(* Saving a project to its file and loading it back (LoadProject,          *)
(* SaveProject, Serializer, prepareForProjectLoading): the engine stops,   *)
(* the project is thrown away, the control thread waits for the file       *)
(* worker to close every file, a new project is made, and then everything  *)
(* in the file comes back through actions emitted in two rounds, which the *)
(* same pass goes on with.  The actions' own details are in ControlEngine  *)
(* and UnitEdits; here they run with the steps that loading depends on.    *)
(***************************************************************************)
EXTENDS Integers, SequencesExt, FiniteSetsExt

CONSTANTS
  Docs,         \* the project files that earlier sessions left behind
  Registered,   \* kinds of unit that UnitManagerFactory knows
  Paths,        \* audio files
  Missing,      \* those of them that do not open
  Values,       \* what an edit may set
  Default,      \* the value everything starts with
  UserEdits,    \* the kinds of action the interface emits
  MaxEmits,     \* bound: actions the interface emits in a behaviour
  MaxInFlight   \* bound: length of the action list at which it emits nothing

None == "none"

Unforced == -1

ASSUME LoadingAssumption ==
  /\ Missing \subseteq Paths /\ None \notin Paths
  /\ Default \in Values
  /\ UserEdits \subseteq {"CreateNewUnit", "SetParameter", "LoadAsClip", "LoadAsset",
                          "AddNewRoute", "SaveProject", "LoadProject"}
  /\ MaxEmits \in Nat /\ MaxInFlight \in Nat

VARIABLES
  units,          \* Project::_unitList with its clip containers
  unitIdCounter,  \* Project::_unitIDCounter
  views,          \* ProjectView::_unitViewList
  clips,          \* ClipStorage::_clipList
  routes,         \* Project::_routes and _midiRoutes
  bpm,            \* Timeline: all that ChangeSignatureBpm and the loop actions set
  plan,           \* what the render plan in work was built from
  life,           \* which of the projects of this process it is
  files,          \* FileWorker::_fileList, the audio files
  fileUniqueId,   \* File.cpp: for the next file
  clipUniqueId,   \* FileContainer.cpp: _clipItemUniqueId
  disk,           \* the project file
  actions, idx, phase,  \* _actions, the pass over them, where the control thread is
  undoable,       \* whether the undo list holds something
  running,        \* RtEngine::_state is RUN
  rtTasks, requests,    \* the ring of tasks, the file worker's queue
  emits, fault,
  loaded, skipped \* history: the file loaded and not edited since; an ID was skipped

projectVars == <<units, unitIdCounter, views, clips, routes, bpm, plan, life>>
fileVars == <<files, fileUniqueId, clipUniqueId, disk>>
listVars == <<actions, idx, phase, undoable>>
queueVars == <<running, rtTasks, requests>>
historyVars == <<loaded, skipped>>
vars == <<projectVars, fileVars, listVars, queueVars, emits, fault, historyVars>>

Closed == [id |-> 0, path |-> None]   \* an entry whose file was reset

NoDoc == [magic |-> FALSE, bpm |-> Default, units |-> <<>>, clips |-> <<>>, files |-> <<>>, routes |-> <<>>]

NewUnit(id, kind) ==
  [id |-> id, kind |-> kind, value |-> Default, asset |-> None,
   box |-> <<<<>>, <<>>>>, inUse |-> FALSE, rtBox |-> 2]

NewView(id, kind) ==
  [id |-> id, kind |-> kind, name |-> Default, value |-> Default, asset |-> None, clips |-> <<>>]

Action(kind, id) ==
  [no |-> 0, kind |-> kind, id |-> id, unitKind |-> None, value |-> Default, path |-> None,
   clipId |-> Unforced, fileId |-> Unforced, route |-> None, doc |-> NoDoc, found |-> 0,
   step |-> 1, state |-> "Executing", completed |-> FALSE, file |-> Closed, clip |-> 0, container |-> 1]

AtRest == actions = <<>> /\ rtTasks = <<>> /\ requests = <<>>

Init ==
  /\ units = <<>> /\ unitIdCounter = 0 /\ views = <<>> /\ clips = <<>> /\ routes = <<>>
  /\ bpm = Default /\ plan = [units |-> {}, routes |-> {}] /\ life = 0
  /\ files = <<>> /\ fileUniqueId = 0 /\ clipUniqueId = 0
  /\ disk \in Docs
  /\ actions = <<>> /\ idx = 1 /\ phase = "pass" /\ undoable = FALSE
  /\ running = TRUE /\ rtTasks = <<>> /\ requests = <<>>
  /\ emits = 0 /\ fault = None
  /\ loaded = NoDoc /\ skipped = FALSE

(* -------------------------------- lookups -------------------------------- *)

HasId(s, id) == \E i \in DOMAIN s : s[i].id = id

\* The position of the first with that ID.
Index(s, id) == Min({i \in DOMAIN s : s[i].id = id})

\* The ID an object takes, and the counter it leaves: one that was forced beyond
\* the counter becomes the counter, and so the next ID.
IdFor(forced, counter) == IF forced = Unforced THEN counter ELSE forced

\* Mutant: the counter is just kept from falling behind.
MutCounterAfter(id, counter) == IF id > counter THEN id ELSE counter

CounterAfter(id, counter) == IF id > counter THEN id ELSE counter + 1

\* The number of the next action object, one that no list or queue holds.
FreshNumbers(n) ==
  LET used == {actions[i].no : i \in DOMAIN actions} \cup {rtTasks[i].no : i \in DOMAIN rtTasks}
                \cup {requests[i].no : i \in DOMAIN requests}
      base == IF used = {} THEN 0 ELSE Max(used)
  IN [i \in 1..n |-> base + i]

Numbered(batch) == [i \in DOMAIN batch |-> [batch[i] EXCEPT !.no = FreshNumbers(Len(batch))[i]]]

(* ------------------------------ the interface ---------------------------- *)

EmitAction(action) ==
  /\ fault = None /\ action.kind \in UserEdits
  /\ emits < MaxEmits /\ Len(actions) < MaxInFlight
  /\ actions' = actions \o Numbered(<<action>>)
  /\ emits' = emits + 1
  /\ loaded' = IF action.kind \in {"SaveProject", "LoadProject"} THEN loaded ELSE NoDoc
  /\ UNCHANGED <<projectVars, fileVars, idx, phase, undoable, queueVars, fault, skipped>>

EmitCreateNewUnit == \E k \in Registered : EmitAction([Action("CreateNewUnit", 0) EXCEPT !.unitKind = k])

EmitSetParameter ==
  \E i \in DOMAIN views, v \in Values : EmitAction([Action("SetParameter", views[i].id) EXCEPT !.value = v])

EmitLoadFile ==
  \E i \in DOMAIN views, p \in Paths :
    EmitAction([Action(IF views[i].kind = "Sampler" THEN "LoadAsset" ELSE "LoadAsClip", views[i].id)
                  EXCEPT !.path = p])

EmitAddNewRoute == \E i \in DOMAIN views : EmitAction([Action("AddNewRoute", 0) EXCEPT !.route = views[i].id])

EmitSave == EmitAction(Action("SaveProject", 0))

EmitLoad == EmitAction(Action("LoadProject", 0))

(* ---------------------------- the control thread ------------------------- *)

Here == actions[idx]

Runs(kind, step) ==
  /\ fault = None /\ phase = "pass" /\ idx <= Len(actions)
  /\ Here.state = "Executing" /\ Here.kind = kind /\ Here.step = step

\* This action becomes "next" and the pass goes on; "emitted" joins the list.
Continue(next, emitted) ==
  /\ actions' = [actions EXCEPT ![idx] = next] \o Numbered(emitted)
  /\ idx' = idx + 1
  /\ UNCHANGED <<phase, undoable, emits>>

InState(state) == [Here EXCEPT !.state = state]

GoTo(step) == [Here EXCEPT !.step = step]

Waits(next) == Continue([next EXCEPT !.state = "Waiting", !.completed = FALSE], <<>>)

SendTask(next) ==
  /\ Waits(next)
  /\ rtTasks' = Append(rtTasks, [no |-> Here.no, kind |-> Here.kind, id |-> Here.id, life |-> life,
                                 value |-> Here.value, file |-> Here.file, container |-> next.container])
  /\ UNCHANGED <<running, requests>>

Ask(what, path, id) ==
  /\ requests' = Append(requests, [no |-> Here.no, what |-> what, path |-> path, id |-> id])
  /\ UNCHANGED <<running, rtTasks>>

Die(why) == fault' = why /\ UNCHANGED <<projectVars, fileVars, listVars, queueVars, emits, historyVars>>

CreateNewUnit ==
  /\ Runs("CreateNewUnit", 1)
  /\ LET id == IF Here.id = 0 THEN unitIdCounter + 1 ELSE Here.id
     IN IF HasId(units, id)
        THEN Continue(InState("Abort"), <<>>) /\ UNCHANGED <<units, unitIdCounter, views>>
        ELSE /\ units' = Append(units, NewUnit(id, Here.unitKind))
             /\ unitIdCounter' = Max({unitIdCounter + 1, id})
             /\ views' = Append(views, NewView(id, Here.unitKind))
             /\ Continue(InState("Finished"), <<>>)
  /\ UNCHANGED <<clips, routes, bpm, plan, life, fileVars, queueVars, fault, historyVars>>

\* Mutant: the action does not wait for its task.
MutSendValue ==
  /\ \/ Runs("SetParameter", 1) \/ Runs("SetTimeline", 1) \/ Runs("UpdateRenderPlan", 1)
  /\ Continue(InState("Finished"), <<>>)
  /\ rtTasks' = Append(rtTasks, [no |-> Here.no, kind |-> Here.kind, id |-> Here.id, life |-> life,
                                 value |-> Here.value, file |-> Here.file, container |-> 1])
  /\ UNCHANGED <<projectVars, fileVars, running, requests, fault, historyVars>>

SendValue ==
  /\ \/ Runs("SetParameter", 1) \/ Runs("SetTimeline", 1) \/ Runs("UpdateRenderPlan", 1)
  /\ IF Here.kind = "SetParameter" /\ ~HasId(units, Here.id)
     THEN Continue(InState("Abort"), <<>>) /\ UNCHANGED queueVars
     ELSE SendTask(Here)
  /\ UNCHANGED <<projectVars, fileVars, fault, historyVars>>

ShowValue ==
  /\ \/ Runs("SetParameter", 2) \/ Runs("SetTimeline", 2) \/ Runs("UpdateRenderPlan", 2)
  /\ views' = IF Here.kind = "SetParameter"
              THEN [views EXCEPT ![Index(views, Here.id)].value = Here.value] ELSE views
  /\ Continue(InState("Finished"), <<>>)
  /\ UNCHANGED <<units, unitIdCounter, clips, routes, bpm, plan, life, fileVars, queueVars, fault, historyVars>>

\* Name and colour.
SetName ==
  /\ Runs("SetName", 1)
  /\ views' = [views EXCEPT ![Index(views, Here.id)].name = Here.value]
  /\ Continue(InState("Finished"), <<>>)
  /\ UNCHANGED <<units, unitIdCounter, clips, routes, bpm, plan, life, fileVars, queueVars, fault, historyVars>>

AddNewRoute1 ==
  /\ Runs("AddNewRoute", 1)
  /\ routes' = Append(routes, Here.route)
  /\ Continue(GoTo(2), <<>>)
  /\ UNCHANGED <<units, unitIdCounter, views, clips, bpm, plan, life, fileVars, queueVars, fault, historyVars>>

AddNewRoute2 ==
  /\ Runs("AddNewRoute", 2)
  /\ Continue(InState("Finished"), <<>>)
  /\ UNCHANGED <<projectVars, fileVars, queueVars, fault, historyVars>>

\* LoadAsClip and LoadAsset begin by having the file opened.
OpenFile1 ==
  /\ Runs("LoadAsClip", 1) \/ Runs("LoadAsset", 1)
  /\ Waits(Here)
  /\ Ask("open", Here.path, Here.fileId)
  /\ UNCHANGED <<projectVars, fileVars, fault, historyVars>>

\* Of the length, file offset and mute flag in the action nothing is used.
NewClip ==
  /\ Runs("LoadAsClip", 2)
  /\ LET id == IdFor(Here.clipId, clipUniqueId)
     IN /\ clips' = Append(clips, [id |-> id, start |-> Here.value, muted |-> FALSE, file |-> Here.file])
        /\ clipUniqueId' = CounterAfter(id, clipUniqueId)
        /\ skipped' = (skipped \/ id > clipUniqueId)
  /\ Continue([GoTo(3) EXCEPT !.clip = Len(clips) + 1], <<>>)
  /\ UNCHANGED <<units, unitIdCounter, views, routes, bpm, plan, life, files, fileUniqueId, disk,
                 queueVars, fault, loaded>>

\* A unit that was never created has no containers and the look-up throws.
AddToContainer ==
  /\ Runs("LoadAsClip", 3)
  /\ IF ~HasId(units, Here.id)
     THEN Die("no containers")
     ELSE /\ LET u == Index(units, Here.id)
                 b == IF units[u].inUse THEN 2 ELSE 1
             IN /\ units' = [units EXCEPT ![u].box[b] = Append(units[u].box[3 - b], Here.clip)]
                /\ SendTask([Here EXCEPT !.container = b])
          /\ UNCHANGED <<unitIdCounter, views, clips, routes, bpm, plan, life, fileVars, fault, historyVars>>

ShowClip ==
  /\ Runs("LoadAsClip", 4)
  /\ units' = [units EXCEPT ![Index(units, Here.id)].inUse = ~@]
  /\ views' = [views EXCEPT ![Index(views, Here.id)].clips = Append(@, Here.clip)]
  /\ Continue(InState("Finished"), <<>>)
  /\ UNCHANGED <<unitIdCounter, clips, routes, bpm, plan, life, fileVars, queueVars, fault, historyVars>>

SendAsset ==
  /\ Runs("LoadAsset", 2)
  /\ SendTask(Here)
  /\ UNCHANGED <<projectVars, fileVars, fault, historyVars>>

ShowAsset ==
  /\ Runs("LoadAsset", 3)
  /\ views' = [views EXCEPT ![Index(views, Here.id)].asset = units[Index(units, Here.id)].asset]
  /\ Continue(InState("Finished"), <<>>)
  /\ UNCHANGED <<units, unitIdCounter, clips, routes, bpm, plan, life, fileVars, queueVars, fault, historyVars>>

(* --------------------------------- saving -------------------------------- *)

saveClip(c) == [id |-> clips[c].id, start |-> clips[c].start, muted |-> clips[c].muted, file |-> clips[c].file.id]

saveUnit(v) ==
  [id |-> v.id, kind |-> v.kind, name |-> v.name, value |-> v.value, asset |-> v.asset,
   clips |-> [i \in DOMAIN v.clips |-> clips[v.clips[i]].id]]

serialize ==
  [magic |-> TRUE, bpm |-> bpm,
   units |-> [i \in DOMAIN views |-> saveUnit(views[i])],
   clips |-> [c \in DOMAIN clips |-> saveClip(c)],
   files |-> files, routes |-> routes]

\* The views are saved first, then the open files are listed and told to save
\* themselves, then the file is written.
SaveProject ==
  /\ Runs("SaveProject", 1)
  /\ IF \E i \in DOMAIN views : views[i].kind = "Sampler" /\ views[i].asset = None
     THEN Die("null asset")
     ELSE IF Closed \in ToSet(files)
     THEN Die("null file")
     ELSE /\ disk' = serialize
          /\ requests' = requests \o [i \in DOMAIN files |-> [no |-> Here.no, what |-> "save",
                                                              path |-> None, id |-> files[i].id]]
          /\ Continue(InState("Finished"), <<>>)
          /\ UNCHANGED <<projectVars, files, fileUniqueId, clipUniqueId, running, rtTasks, fault, historyVars>>

(* --------------------------------- loading ------------------------------- *)

\* prepareForProjectLoading, until the control thread waits for the file worker.
StopAndClear ==
  /\ Runs("LoadProject", 1)
  /\ running' = FALSE
  /\ units' = <<>> /\ unitIdCounter' = 0 /\ views' = <<>> /\ clips' = <<>> /\ routes' = <<>>
  /\ bpm' = Default /\ plan' = [units |-> {}, routes |-> {}] /\ life' = life + 1
  /\ requests' = Append(requests, [no |-> Here.no, what |-> "closeAll", path |-> None, id |-> Unforced])
  /\ phase' = "closing"
  /\ loaded' = NoDoc
  /\ UNCHANGED <<fileVars, actions, idx, undoable, rtTasks, emits, fault, skipped>>

\* Mutant: the units that are not registered are counted with those created.
MutCreateUnits(doc) ==
  LET known == SelectSeq(doc.units, LAMBDA u : u.kind \in Registered)
  IN [emitted |-> <<[Action("SetTimeline", 0) EXCEPT !.value = doc.bpm]>> \o
        [i \in DOMAIN known |-> [Action("CreateNewUnit", known[i].id) EXCEPT !.unitKind = known[i].kind]],
      found |-> Len(doc.units)]

\* The actions of the first round, and how many units they are to create.
CreateUnits(doc) ==
  LET known == SelectSeq(doc.units, LAMBDA u : u.kind \in Registered)
  IN [emitted |-> <<[Action("SetTimeline", 0) EXCEPT !.value = doc.bpm]>> \o
        [i \in DOMAIN known |-> [Action("CreateNewUnit", known[i].id) EXCEPT !.unitKind = known[i].kind]],
      found |-> Len(known)]

\* The rest of the step and of the pass works with the pointers to the project
\* that was freed: it dies, or the new objects are where the old ones were.
RestartAndEmit ==
  /\ fault = None /\ phase = "closing" /\ Here.completed
  /\ \/ fault' = "freed project" /\ UNCHANGED <<actions, idx, phase, undoable, running, emits>>
     \/ /\ running' = TRUE /\ phase' = "pass" /\ idx' = idx + 1
        /\ actions' =
             IF ~disk.magic
             THEN [actions EXCEPT ![idx] = InState("Abort")]
             ELSE LET first == CreateUnits(disk)
                  IN [actions EXCEPT ![idx] = [InState("Waiting") EXCEPT !.doc = disk, !.found = first.found]]
                       \o Numbered(first.emitted)
        /\ UNCHANGED <<undoable, emits, fault>>
  /\ UNCHANGED <<projectVars, fileVars, rtTasks, requests, historyVars>>

\* loadUnit: AudioUnitView's, and what SamplerView adds to it.
loadUnit(u) ==
  <<[Action("SetParameter", u.id) EXCEPT !.value = u.value],
    [Action("SetName", u.id) EXCEPT !.value = u.name]>>
  \o (IF u.kind = "Sampler" /\ u.asset # None
      THEN <<[Action("LoadAsset", u.id) EXCEPT !.path = u.asset]>> ELSE <<>>)

\* The clips of a unit: each with its file, opened once more.
loadClips(doc, u) ==
  [i \in DOMAIN u.clips |->
     LET c == doc.clips[Index(doc.clips, u.clips[i])]
     IN [Action("LoadAsClip", u.id) EXCEPT !.path = doc.files[Index(doc.files, c.file)].path,
            !.value = c.start, !.clipId = c.id, !.fileId = c.file]]

Load2 ==
  /\ Runs("LoadProject", 2)
  /\ LET doc == Here.doc
         known == SelectSeq(doc.units, LAMBDA u : HasId(views, u.id))
         values == FlattenSeq([i \in DOMAIN known |-> loadUnit(known[i])])
         items == FlattenSeq([i \in DOMAIN doc.units |-> loadClips(doc, doc.units[i])])
         lines == [i \in DOMAIN doc.routes |-> [Action("AddNewRoute", 0) EXCEPT !.route = doc.routes[i]]]
     IN Continue(InState("Waiting"), values \o items \o lines)
  /\ UNCHANGED <<projectVars, fileVars, queueVars, fault, historyVars>>

\* Mutant: the render plan is not updated.
MutLoad3 ==
  /\ Runs("LoadProject", 3)
  /\ actions' = [actions EXCEPT ![idx] = InState("Finished")]
  /\ idx' = idx + 1
  /\ undoable' = FALSE
  /\ loaded' = Here.doc
  /\ UNCHANGED <<projectVars, fileVars, phase, queueVars, emits, fault, skipped>>

Load3 ==
  /\ Runs("LoadProject", 3)
  /\ actions' = [actions EXCEPT ![idx] = InState("Finished")] \o Numbered(<<Action("UpdateRenderPlan", 0)>>)
  /\ idx' = idx + 1
  /\ undoable' = FALSE
  /\ loaded' = Here.doc
  /\ UNCHANGED <<projectVars, fileVars, phase, queueVars, emits, fault, skipped>>

(* -------------------------- waiting, end of a pass ----------------------- *)

CheckWaitingCondition ==
  /\ fault = None /\ phase = "pass" /\ idx <= Len(actions) /\ Here.state = "Waiting"
  /\ LET next == [Here EXCEPT !.state = "Executing", !.step = @ + 1]
     IN Continue(CASE Here.kind = "LoadProject" ->
                        IF \/ Here.step = 1 /\ Len(units) = Here.found
                           \/ Here.step = 2 /\ Len(routes) = Len(Here.doc.routes)
                        THEN next ELSE Here
                   [] OTHER -> IF Here.completed THEN next ELSE Here, <<>>)
  /\ UNCHANGED <<projectVars, fileVars, queueVars, fault, historyVars>>

EndPass ==
  /\ fault = None /\ phase = "pass" /\ actions # <<>> /\ idx > Len(actions)
  /\ actions' = SelectSeq(actions, LAMBDA a : a.state \in {"Executing", "Waiting"})
  /\ undoable' = (undoable \/ \E i \in DOMAIN actions :
                    /\ actions[i].state = "Finished"
                    /\ actions[i].kind \in {"CreateNewUnit", "SetParameter", "SetName", "AddNewRoute"})
  /\ idx' = 1
  /\ UNCHANGED <<projectVars, fileVars, phase, queueVars, emits, fault, historyVars>>

(* ---------------------------- the other threads -------------------------- *)

Mark(no, file) ==
  [i \in DOMAIN actions |-> IF actions[i].no = no
                            THEN [actions[i] EXCEPT !.completed = TRUE, !.file = file] ELSE actions[i]]

\* execRT of the tasks.  A task that waited while the project was replaced still
\* points into the old one.
RunTask ==
  /\ fault = None /\ running /\ rtTasks # <<>>
  /\ LET t == Head(rtTasks)
         u == Index(units, t.id)
     IN IF t.life # life
        THEN Die("freed unit")
        ELSE /\ units' = CASE t.kind = "SetParameter" -> [units EXCEPT ![u].value = t.value]
                           [] t.kind = "LoadAsClip" -> [units EXCEPT ![u].rtBox = t.container]
                           [] t.kind = "LoadAsset" -> [units EXCEPT ![u].asset = t.file.path]
                           [] OTHER -> units
             /\ bpm' = IF t.kind = "SetTimeline" THEN t.value ELSE bpm
             /\ plan' = IF t.kind = "UpdateRenderPlan"
                        THEN [units |-> {units[i].id : i \in DOMAIN units}, routes |-> ToSet(routes)] ELSE plan
             /\ actions' = Mark(t.no, t.file)
             /\ rtTasks' = Tail(rtTasks)
             /\ UNCHANGED <<unitIdCounter, views, clips, routes, life, fileVars, idx, phase, undoable,
                            running, requests, emits, fault, historyVars>>

\* openFile: the file takes its ID whether it opens or not, its peaks take the
\* next.  A file that does not open is not answered for.
OpenFile ==
  /\ fault = None /\ requests # <<>> /\ Head(requests).what = "open"
  /\ LET r == Head(requests)
         file == [id |-> IdFor(r.id, fileUniqueId), path |-> r.path]
         next == CounterAfter(file.id, fileUniqueId)
     IN IF r.path \in Missing
        THEN fileUniqueId' = next /\ UNCHANGED <<files, actions>>
        ELSE /\ files' = Append(files, file)
             /\ fileUniqueId' = CounterAfter(next, next)
             /\ actions' = Mark(r.no, file)
  /\ requests' = Tail(requests)
  /\ UNCHANGED <<projectVars, clipUniqueId, disk, idx, phase, undoable, running, rtTasks, emits, fault, historyVars>>

SaveFile ==
  /\ fault = None /\ requests # <<>> /\ Head(requests).what = "save"
  /\ requests' = Tail(requests)
  /\ UNCHANGED <<projectVars, fileVars, listVars, running, rtTasks, emits, fault, historyVars>>

\* Every file is reset and its entry stays.
CloseAllFiles ==
  /\ fault = None /\ requests # <<>> /\ Head(requests).what = "closeAll"
  /\ files' = [i \in DOMAIN files |-> Closed]
  /\ actions' = Mark(Head(requests).no, Closed)
  /\ requests' = Tail(requests)
  /\ UNCHANGED <<projectVars, fileUniqueId, clipUniqueId, disk, idx, phase, undoable, running, rtTasks,
                 emits, fault, historyVars>>

Control ==
  \/ CreateNewUnit \/ SendValue \/ ShowValue \/ SetName \/ AddNewRoute1 \/ AddNewRoute2
  \/ OpenFile1 \/ NewClip \/ AddToContainer \/ ShowClip \/ SendAsset \/ ShowAsset
  \/ SaveProject \/ StopAndClear \/ RestartAndEmit \/ Load2 \/ Load3
  \/ CheckWaitingCondition \/ EndPass

Worker == OpenFile \/ SaveFile \/ CloseAllFiles

Emit == EmitCreateNewUnit \/ EmitSetParameter \/ EmitLoadFile \/ EmitAddNewRoute \/ EmitSave \/ EmitLoad

Next == Control \/ RunTask \/ Worker \/ Emit

Spec == Init /\ [][Next]_vars

\* The control thread and the file worker loop, the driver calls back for every
\* block while it runs.  The user owes nothing.
FairSpec == Spec /\ WF_vars(Control) /\ WF_vars(RunTask) /\ WF_vars(Worker)

(* ------------------------------- properties ------------------------------ *)

\* What a project file says, without the IDs that only link its parts.
Essence(doc) ==
  LET Clip(id) == LET c == doc.clips[Index(doc.clips, id)]
                  IN [start |-> c.start, muted |-> c.muted, path |-> doc.files[Index(doc.files, c.file)].path]
  IN [bpm |-> doc.bpm, routes |-> doc.routes,
      units |-> [i \in DOMAIN doc.units |->
        [doc.units[i] EXCEPT !.clips = [k \in DOMAIN @ |-> Clip(@[k])]]]]

\* The same of the project that is open.
Content ==
  LET Clip(c) == [start |-> clips[c].start, muted |-> clips[c].muted, path |-> clips[c].file.path]
  IN [bpm |-> bpm, routes |-> routes,
      units |-> [i \in DOMAIN views |-> [views[i] EXCEPT !.clips = [k \in DOMAIN @ |-> Clip(@[k])]]]]

\* Loading is known to lose the mute flags, all but one clip of a unit, units of
\* kinds that are not registered and files that are gone.
Plain(doc) ==
  /\ \A i \in DOMAIN doc.units : doc.units[i].kind \in Registered /\ Len(doc.units[i].clips) <= 1
  /\ \A i \in DOMAIN doc.clips : ~doc.clips[i].muted
  /\ \A i \in DOMAIN doc.files : doc.files[i].path \notin Missing

\* A project that was loaded is what its file says, in the units that play, in
\* their views and in the render plan in work.
LoadRestores ==
  (AtRest /\ loaded.magic /\ Plain(loaded)) =>
    /\ Content = Essence(loaded)
    /\ \A i \in DOMAIN units : /\ views[i].clips = units[i].box[units[i].rtBox]
                               /\ views[i].value = units[i].value /\ views[i].asset = units[i].asset
    /\ plan = [units |-> {units[i].id : i \in DOMAIN units}, routes |-> ToSet(routes)]

\* However files are loaded and units and clips added after them, a unit ID
\* names one unit, and the ID of a clip one clip unless a file had gaps in its
\* clip IDs.
IdsAreUnique ==
  /\ \A i, j \in DOMAIN units : units[i].id = units[j].id => i = j
  /\ ~skipped => \A i, j \in DOMAIN clips : clips[i].id = clips[j].id => i = j

\* The process dies of a load or a save in three ways only: the rest of the pass
\* uses the freed project, a sampler without an asset is saved, files that a load
\* closed are listed.  A clip of a unit whose kind is not registered is the
\* fourth, and no task of a project meets the next one.
DiesAsKnown ==
  /\ fault # "freed unit"
  /\ fault = "null file" => life > 0
  /\ fault = "no containers" => \E i \in DOMAIN disk.units : disk.units[i].kind \notin Registered

\* Every load ends, and so does all that it emitted, unless the process dies or
\* an audio file of the project is gone.
LoadEnds ==
  (\E i \in DOMAIN actions : actions[i].kind = "LoadProject")
    ~> (\/ AtRest \/ fault # None
        \/ \E i \in DOMAIN actions : actions[i].path \in Missing)
=============================================================================
