----------------------------- MODULE UnitEdits -----------------------------
(***************************************************************************)
(* The edits of a unit's values and clips: parameters, midi switches, name *)
(* and colour, clips loaded, moved and removed, a sampler's asset          *)
(* (src/core/Actions/AudioUnit, ModifyClipItem, LoadAsset).  A value that  *)
(* the real-time thread reads is written by a task and then copied to the  *)
(* snapshot; the clips of a unit are swapped as a whole between two        *)
(* containers; files are opened by the file worker.  The pass over the     *)
(* action list, the ring of tasks and undo are those of ControlEngine.     *)
(***************************************************************************)
EXTENDS Integers, FiniteSets, SequencesExt

CONSTANTS
  Units,        \* IDs of the units
  Gone,         \* IDs of deleted units that the interface may still name
  Values,       \* what an edit may set
  Default,      \* the value everything starts with
  Mutes,        \* the mute flags a clip edit may set
  Attributes,   \* the attributes the interface edits
  Readable,     \* audio files that open, with their peaks
  NoPeaks,      \* audio files that open and whose peaks cannot be built
  Unreadable,   \* audio files that do not open
  Take,         \* a recorded take, whose file is open already
  Edits,        \* the kinds of edit the interface emits
  ActionIds,    \* names for the action objects that exist at one time
  Reverted,     \* the attributes whose undo is observed
  UndoLimit,    \* 64: longest undo and redo list
  MaxEmits,     \* bound: edits emitted in a behaviour
  MaxInFlight   \* bound: length of the action list at which nothing is emitted

RtAttributes == {"parameter", "midiThru", "omniHwInput"}

ViewAttributes == {"name", "color"}

AllAttributes == RtAttributes \cup ViewAttributes

Files == Readable \cup NoPeaks \cup Unreadable

\* The edits that go to the undo list when they finish.
Undoables == {"SetValue", "ModifyClipItem", "RemoveClip"}

ASSUME EditsAssumption ==
  /\ Units \cap Gone = {} /\ Units # {}
  /\ Default \in Values
  /\ Mutes \subseteq BOOLEAN
  /\ Attributes \subseteq AllAttributes /\ Reverted \subseteq AllAttributes
  /\ Edits \subseteq Undoables \cup {"LoadAsClip", "LoadAsset", "Undo", "Redo"}
  /\ Take \notin Files
  /\ UndoLimit \in Nat \ {0}
  /\ MaxEmits \in Nat /\ MaxInFlight \in Nat

VARIABLES
  unit,      \* per unit, the attributes the real-time thread reads
  view,      \* AudioUnitView: the attributes the interface shows
  clips,     \* ClipStorage::_clipList, the position stands for the ID
  clipViews, \* ClipViewStorage::_clipList, by ID
  box,       \* ClipContainerBuffer: the two containers of a unit
  inUse,     \* ClipContainerBuffer::_inUse
  rtBox,     \* AudioUnit::_clipContainer: which of the two the unit plays
  shown,     \* ClipContainerView::_items
  asset,     \* Sampler::_file
  assetView, \* SamplerView::_fileAsset
  act, actions, undoList, redoList, idx,   \* as in ControlEngine
  rtTasks,   \* actions whose task is in the ring
  requests,  \* actions whose openFile is queued in the file worker
  emits,
  torn,      \* the container that the unit plays was rewritten
  removed,   \* a clip was removed
  restDoc, restPast   \* history: the document at rest, those undo would restore

listVars == <<actions, undoList, redoList, idx>>
valueVars == <<unit, view>>
clipVars == <<clips, clipViews, box, inUse, rtBox, shown, torn, removed>>
assetVars == <<asset, assetView>>
queueVars == <<rtTasks, requests>>
historyVars == <<restDoc, restPast>>
vars == <<valueVars, clipVars, assetVars, act, listVars, queueVars, emits, historyVars>>

NoFile == "none"

NewClip(start) == [start |-> start, muted |-> FALSE]

\* What undo is asked to bring back; a clip not yet loaded counts as a new one.
Document ==
  [values |-> [u \in Units |-> [t \in Reverted |-> IF t \in RtAttributes THEN unit[u][t] ELSE view[u][t]]],
   clips |-> [c \in 1..MaxEmits |-> IF c \in DOMAIN clips THEN clips[c] ELSE NewClip(Default)]]

NewAction(kind, u, attribute, value, clip, file) ==
  [kind |-> kind, unit |-> u, attribute |-> attribute, value |-> value, clip |-> clip, file |-> file,
   step |-> 1, direction |-> "Forward", state |-> "Executing", completed |-> FALSE,
   opened |-> "no", old |-> value, item |-> 0, container |-> 1, before |-> 0]

Blank == NewAction("Undo", 0, "none", Default, 0, NoFile)

\* A set of positions in their order: one sequence.
InOrder(S) ==
  {s \in [1..Cardinality(S) -> S] : ToSet(s) = S /\ \A i, j \in DOMAIN s : i < j => s[i] < s[j]}

\* What lies at the positions S of a list, in the order of the list: one sequence.
Kept(list, S) == {[j \in DOMAIN s |-> list[s[j]]] : s \in InOrder(S)}

Without(list, e) == Kept(list, {i \in DOMAIN list : list[i] # e})

\* A list that is full forgets its oldest.
Newest(list) ==
  IF Len(list) > UndoLimit THEN SubSeq(list, Len(list) - UndoLimit + 1, Len(list)) ELSE list

Owned == ToSet(actions) \cup ToSet(undoList) \cup ToSet(redoList)

AtRest == actions = <<>>

Init ==
  /\ unit = [u \in Units |-> [t \in RtAttributes |-> Default]]
  /\ view = [u \in Units |-> [t \in AllAttributes |-> Default]]
  /\ clips = <<>> /\ clipViews = [c \in {} |-> NewClip(Default)]
  /\ box = [u \in Units \cup Gone |-> [b \in {1, 2} |-> <<>>]]
  /\ inUse = [u \in Units \cup Gone |-> FALSE]
  /\ rtBox = [u \in Units |-> 2]
  /\ shown = [u \in Units |-> <<>>]
  /\ asset = [u \in Units |-> NoFile] /\ assetView = asset
  /\ act = [a \in ActionIds |-> Blank]
  /\ actions = <<>> /\ undoList = <<>> /\ redoList = <<>> /\ idx = 1
  /\ rtTasks = <<>> /\ requests = <<>>
  /\ emits = 0 /\ torn = FALSE /\ removed = FALSE
  /\ restDoc = Document /\ restPast = <<>>

(* --------------------------- the emitting side --------------------------- *)

EmitAction(kind, u, attribute, value, clip, file) ==
  /\ kind \in Edits
  /\ emits < MaxEmits /\ Len(actions) < MaxInFlight
  /\ \E a \in ActionIds \ Owned :
       /\ \A b \in ActionIds \ Owned : a <= b
       /\ act' = [act EXCEPT ![a] = NewAction(kind, u, attribute, value, clip, file)]
       /\ actions' = Append(actions, a)
  /\ emits' = emits + 1
  /\ UNCHANGED <<valueVars, clipVars, assetVars, undoList, redoList, idx, queueVars>>

EmitSetValue ==
  \E u \in Units \cup Gone, t \in Attributes, v \in Values : EmitAction("SetValue", u, t, v, 0, NoFile)

\* The interface moves and removes the clips it shows.
EmitModifyClip ==
  \E u \in Units, v \in Values, m \in Mutes : \E c \in ToSet(shown[u]) :
    EmitAction("ModifyClipItem", u, "none", [start |-> v, muted |-> m], c, NoFile)

EmitRemoveClip ==
  \E u \in Units : \E c \in ToSet(shown[u]) : EmitAction("RemoveClip", u, "none", Default, c, NoFile)

EmitLoadAsClip ==
  \E u \in Units \cup Gone, f \in Files \cup {Take} : EmitAction("LoadAsClip", u, "none", Default, 0, f)

EmitLoadAsset == \E u \in Units \cup Gone, f \in Files : EmitAction("LoadAsset", u, "none", Default, 0, f)

EmitReplay == \E kind \in {"Undo", "Redo"} : EmitAction(kind, 0, "none", Default, 0, NoFile)

(* ---------------------------- the control thread ------------------------- *)

At(a) == idx <= Len(actions) /\ a = actions[idx]

Runs(a, kind, step) ==
  At(a) /\ act[a].state = "Executing" /\ act[a].kind = kind /\ act[a].step = step

NextAction == idx' = idx + 1 /\ UNCHANGED <<actions, undoList, redoList, emits>>

Forward(a) == act[a].direction = "Forward"

\* Mutant: the undo of a value sets it again.
MutTarget(a) == act[a].value

\* What a task or a snapshot is set to.
Target(a) == IF Forward(a) THEN act[a].value ELSE act[a].old

Abort(a) == act' = [act EXCEPT ![a].state = "Abort"] /\ UNCHANGED queueVars

Finish(a) == act' = [act EXCEPT ![a].state = "Finished"] /\ UNCHANGED queueVars

GoTo(a, step) == act' = [act EXCEPT ![a].step = step] /\ UNCHANGED queueVars

\* The forward execution remembers what it replaces; "before" is history.
Remember(a, old) ==
  IF Forward(a) THEN [act EXCEPT ![a].old = old, ![a].before = Document] ELSE act

SendTask(a, acts) ==
  /\ act' = [acts EXCEPT ![a].state = "Waiting", ![a].completed = FALSE]
  /\ rtTasks' = Append(rtTasks, a)
  /\ UNCHANGED requests

\* The unit is read and a task that writes it is sent.
SendValue(a, attribute) ==
  /\ Runs(a, "SetValue", 1) /\ act[a].attribute = attribute
  /\ IF act[a].unit \notin Units
     THEN Abort(a)
     ELSE SendTask(a, Remember(a, unit[act[a].unit][attribute]))
  /\ NextAction
  /\ UNCHANGED <<valueVars, clipVars, assetVars>>

\* The task is done: the snapshot is given the value the action holds.
ShowValue(a, attribute) ==
  /\ Runs(a, "SetValue", 2) /\ act[a].attribute = attribute
  /\ view' = [view EXCEPT ![act[a].unit][attribute] = Target(a)]
  /\ Finish(a)
  /\ NextAction
  /\ UNCHANGED <<unit, clipVars, assetVars>>

SetParameter(a) == SendValue(a, "parameter") \/ ShowValue(a, "parameter")

ToggleMidiThru(a) == SendValue(a, "midiThru") \/ ShowValue(a, "midiThru")

ToggleOmniHwInput(a) == SendValue(a, "omniHwInput") \/ ShowValue(a, "omniHwInput")

\* Name and colour live in the snapshot alone.
SetViewValue(a, attribute, value) ==
  /\ Runs(a, "SetValue", 1) /\ act[a].attribute = attribute
  /\ LET u == act[a].unit
     IN IF u \notin Units
        THEN Abort(a) /\ UNCHANGED view
        ELSE /\ act' = [Remember(a, view[u][attribute]) EXCEPT ![a].state = "Finished"]
             /\ view' = [view EXCEPT ![u][attribute] = value]
             /\ UNCHANGED queueVars
  /\ NextAction
  /\ UNCHANGED <<unit, clipVars, assetVars>>

\* nameToSet is computed for both directions and the new name is set.
SetName(a) == SetViewValue(a, "name", act[a].value)

SetColor(a) == SetViewValue(a, "color", Target(a))

\* The clip is found in ClipStorage, which forgets none.
ModifyClip1(a) ==
  /\ Runs(a, "ModifyClipItem", 1)
  /\ SendTask(a, Remember(a, clips[act[a].clip]))
  /\ NextAction
  /\ UNCHANGED <<valueVars, clipVars, assetVars>>

ModifyClip2(a) ==
  /\ Runs(a, "ModifyClipItem", 2)
  /\ clipViews' = [clipViews EXCEPT ![act[a].clip] = Target(a)]
  /\ Finish(a)
  /\ NextAction
  /\ UNCHANGED <<valueVars, clips, box, inUse, rtBox, shown, torn, removed, assetVars>>

\* ModifyClipItem's task takes the new mute flag in both directions.
ClipToSet(a) == [Target(a) EXCEPT !.muted = act[a].value.muted]

(* ------------------------------- containers ------------------------------ *)

Modifiable(u) == IF inUse[u] THEN 2 ELSE 1

\* A container is rewritten while the unit plays from it.
Tears(u, b) == torn \/ (u \in Units /\ rtBox[u] = b)

\* A path goes to the file worker, a file that is open becomes a clip at once.
OpenClipFile(a) ==
  /\ Runs(a, "LoadAsClip", 1)
  /\ IF act[a].file = Take
     THEN GoTo(a, 2)
     ELSE /\ act' = [act EXCEPT ![a].state = "Waiting"]
          /\ requests' = Append(requests, a)
          /\ UNCHANGED rtTasks
  /\ NextAction
  /\ UNCHANGED <<valueVars, clipVars, assetVars>>

CreateClip(a) ==
  /\ Runs(a, "LoadAsClip", 2)
  /\ clips' = Append(clips, NewClip(act[a].value))
  /\ act' = [act EXCEPT ![a].item = Len(clips) + 1, ![a].step = 3]
  /\ NextAction
  /\ UNCHANGED <<valueVars, clipViews, box, inUse, rtBox, shown, torn, removed, assetVars, queueVars>>

\* The other container is filled with the clips in use and the new one before
\* the unit is looked up: a deleted unit keeps its containers.
AddToContainer(a) ==
  /\ Runs(a, "LoadAsClip", 3)
  /\ LET u == act[a].unit
         b == Modifiable(u)
     IN /\ box' = [box EXCEPT ![u][b] = Append(box[u][3 - b], act[a].item)]
        /\ torn' = Tears(u, b)
        /\ IF u \in Units THEN SendTask(a, [act EXCEPT ![a].container = b]) ELSE Abort(a)
  /\ NextAction
  /\ UNCHANGED <<valueVars, clips, clipViews, inUse, rtBox, shown, removed, assetVars>>

\* Mutant: containerSwapped is forgotten.
MutShowClip(a) ==
  /\ Runs(a, "LoadAsClip", 4)
  /\ clipViews' = [c \in DOMAIN clipViews \cup {act[a].item} |->
                      IF c = act[a].item THEN clips[c] ELSE clipViews[c]]
  /\ shown' = [shown EXCEPT ![act[a].unit] = Append(@, act[a].item)]
  /\ Finish(a)
  /\ NextAction
  /\ UNCHANGED <<valueVars, clips, box, inUse, rtBox, torn, removed, assetVars>>

ShowClip(a) ==
  /\ Runs(a, "LoadAsClip", 4)
  /\ LET u == act[a].unit
     IN /\ inUse' = [inUse EXCEPT ![u] = ~@]
        /\ shown' = [shown EXCEPT ![u] = Append(@, act[a].item)]
  /\ clipViews' = [c \in DOMAIN clipViews \cup {act[a].item} |->
                      IF c = act[a].item THEN clips[c] ELSE clipViews[c]]
  /\ Finish(a)
  /\ NextAction
  /\ UNCHANGED <<valueVars, clips, box, rtBox, torn, removed, assetVars>>

\* The clip leaves the snapshot at once.  When the unit does not have it, which
\* is so when the removal is undone, the action stays as it is and is tried
\* again in every pass.
RemoveClip1(a) ==
  /\ Runs(a, "RemoveClip", 1)
  /\ LET u == act[a].unit
         b == Modifiable(u)
         c == act[a].clip
         played == box[u][rtBox[u]]
     IN /\ \E rest \in Without(shown[u], c) : shown' = [shown EXCEPT ![u] = rest]
        /\ IF c \in ToSet(played)
           THEN /\ \E rest \in Without(played, c) : box' = [box EXCEPT ![u][b] = rest]
                /\ torn' = Tears(u, b)
                /\ removed' = TRUE
                /\ SendTask(a, [Remember(a, act[a].old) EXCEPT ![a].container = b])
           ELSE UNCHANGED <<box, torn, removed, act, queueVars>>
  /\ NextAction
  /\ UNCHANGED <<valueVars, clips, clipViews, inUse, rtBox, assetVars>>

\* Nothing tells the buffer of containers that they were swapped.
RemoveClip2(a) ==
  /\ Runs(a, "RemoveClip", 2)
  /\ Finish(a)
  /\ NextAction
  /\ UNCHANGED <<valueVars, clipVars, assetVars>>

(* --------------------------------- assets -------------------------------- *)

OpenAsset(a) ==
  /\ Runs(a, "LoadAsset", 1)
  /\ act' = [act EXCEPT ![a].state = "Waiting"]
  /\ requests' = Append(requests, a)
  /\ UNCHANGED rtTasks
  /\ NextAction
  /\ UNCHANGED <<valueVars, clipVars, assetVars>>

\* A unit that is gone is reported in every pass and the action stays.
SendAsset(a) ==
  /\ Runs(a, "LoadAsset", 2)
  /\ IF act[a].unit \in Units THEN SendTask(a, act) ELSE UNCHANGED <<act, queueVars>>
  /\ NextAction
  /\ UNCHANGED <<valueVars, clipVars, assetVars>>

ShowAsset(a) ==
  /\ Runs(a, "LoadAsset", 3)
  /\ assetView' = [assetView EXCEPT ![act[a].unit] = asset[act[a].unit]]
  /\ Finish(a)
  /\ NextAction
  /\ UNCHANGED <<valueVars, clipVars, asset>>

(* ------------------------------ waiting, undo ---------------------------- *)

\* checkWaitingCondition: the file first, where there is one, then the task.
CheckWaitingCondition(a) ==
  /\ At(a) /\ act[a].state = "Waiting"
  /\ LET ready(step) == [act EXCEPT ![a].state = "Executing", ![a].step = step]
         next == act[a].step + 1
     IN IF act[a].kind \in {"LoadAsClip", "LoadAsset"} /\ act[a].step = 1
        THEN act' = CASE act[a].opened = "yes" -> ready(2)
                      [] act[a].opened = "failed" -> [act EXCEPT ![a].state = "Abort"]
                      [] OTHER -> act
        ELSE act' = IF act[a].completed THEN ready(next) ELSE act
  /\ NextAction
  /\ UNCHANGED <<valueVars, clipVars, assetVars, queueVars>>

Replay(a, b, direction) ==
  /\ act' = [act EXCEPT ![a].state = "Finished", ![b].state = "Executing",
                        ![b].direction = direction, ![b].step = 1]
  /\ actions' = Append(actions, b)

UndoExec(a) ==
  /\ Runs(a, "Undo", 1)
  /\ IF undoList = <<>>
     THEN act' = [act EXCEPT ![a].state = "Finished"] /\ UNCHANGED <<actions, undoList>>
     ELSE Replay(a, Last(undoList), "Backward") /\ undoList' = Front(undoList)
  /\ idx' = idx + 1
  /\ UNCHANGED <<valueVars, clipVars, assetVars, redoList, queueVars, emits>>

RedoExec(a) ==
  /\ Runs(a, "Redo", 1)
  /\ IF redoList = <<>>
     THEN act' = [act EXCEPT ![a].state = "Finished"] /\ UNCHANGED <<actions, redoList>>
     ELSE Replay(a, Last(redoList), "Forward") /\ redoList' = Front(redoList)
  /\ idx' = idx + 1
  /\ UNCHANGED <<valueVars, clipVars, assetVars, undoList, queueVars, emits>>

\* Met again in the pass that finished or aborted it.
Skip(a) ==
  /\ At(a) /\ act[a].state = "Finished"
  /\ NextAction
  /\ UNCHANGED <<valueVars, clipVars, assetVars, act, queueVars>>

\* The end of a pass: finished undoable actions to their list, the others away.
EndPass ==
  /\ actions # <<>> /\ idx > Len(actions)
  /\ LET live == {i \in DOMAIN actions : act[actions[i]].state \in {"Executing", "Waiting"}}
         done(direction) == {i \in DOMAIN actions : /\ act[actions[i]].state = "Finished"
                                                    /\ act[actions[i]].kind \in Undoables
                                                    /\ act[actions[i]].direction = direction}
     IN /\ actions' \in Kept(actions, live)
        /\ \E more \in Kept(actions, done("Forward")) : undoList' = Newest(undoList \o more)
        /\ \E more \in Kept(actions, done("Backward")) : redoList' = Newest(redoList \o more)
  /\ act' = [a \in ActionIds |-> IF a \in ToSet(actions') \cup ToSet(undoList') \cup ToSet(redoList')
                                THEN act[a] ELSE Blank]
  /\ idx' = 1
  /\ UNCHANGED <<valueVars, clipVars, assetVars, queueVars, emits>>

(* ---------------------------- the other threads -------------------------- *)

\* Mutant: the task of a clip edit writes the clip before the move.
MutExecRT(a) ==
  CASE act[a].kind = "SetValue" ->
         /\ unit' = [unit EXCEPT ![act[a].unit][act[a].attribute] = Target(a)]
         /\ UNCHANGED <<clips, rtBox, asset>>
    [] act[a].kind = "ModifyClipItem" ->
         clips' = [clips EXCEPT ![act[a].clip] = act[a].old] /\ UNCHANGED <<unit, rtBox, asset>>
    [] act[a].kind \in {"LoadAsClip", "RemoveClip"} ->
         rtBox' = [rtBox EXCEPT ![act[a].unit] = act[a].container] /\ UNCHANGED <<unit, clips, asset>>
    [] act[a].kind = "LoadAsset" ->
         asset' = [asset EXCEPT ![act[a].unit] = act[a].file] /\ UNCHANGED <<unit, clips, rtBox>>

\* execRT of the five kinds of task.
ExecRT(a) ==
  CASE act[a].kind = "SetValue" ->
         /\ unit' = [unit EXCEPT ![act[a].unit][act[a].attribute] = Target(a)]
         /\ UNCHANGED <<clips, rtBox, asset>>
    [] act[a].kind = "ModifyClipItem" ->
         clips' = [clips EXCEPT ![act[a].clip] = ClipToSet(a)] /\ UNCHANGED <<unit, rtBox, asset>>
    [] act[a].kind \in {"LoadAsClip", "RemoveClip"} ->
         rtBox' = [rtBox EXCEPT ![act[a].unit] = act[a].container] /\ UNCHANGED <<unit, clips, asset>>
    [] act[a].kind = "LoadAsset" ->
         asset' = [asset EXCEPT ![act[a].unit] = act[a].file] /\ UNCHANGED <<unit, clips, rtBox>>

RunTask ==
  /\ rtTasks # <<>>
  /\ ExecRT(Head(rtTasks))
  /\ act' = [act EXCEPT ![Head(rtTasks)].completed = TRUE]
  /\ rtTasks' = Tail(rtTasks)
  /\ UNCHANGED <<view, clipViews, box, inUse, shown, torn, removed, assetView, listVars, requests, emits>>

\* openFile::exec calls back only for a file that it could open.
OpenFile ==
  /\ requests # <<>>
  /\ LET a == Head(requests)
     IN act' = [act EXCEPT ![a].opened = CASE act[a].file \in Readable -> "yes"
                                           [] act[a].file \in NoPeaks -> "failed"
                                           [] act[a].file \in Unreadable -> "no"]
  /\ requests' = Tail(requests)
  /\ UNCHANGED <<valueVars, clipVars, assetVars, listVars, rtTasks, emits>>

Step(a) ==
  \/ SetParameter(a) \/ ToggleMidiThru(a) \/ ToggleOmniHwInput(a)
  \/ SetName(a) \/ SetColor(a)
  \/ ModifyClip1(a) \/ ModifyClip2(a)
  \/ OpenClipFile(a) \/ CreateClip(a) \/ AddToContainer(a) \/ ShowClip(a)
  \/ RemoveClip1(a) \/ RemoveClip2(a)
  \/ OpenAsset(a) \/ SendAsset(a) \/ ShowAsset(a)
  \/ CheckWaitingCondition(a) \/ UndoExec(a) \/ RedoExec(a) \/ Skip(a)

Emit ==
  \/ EmitSetValue \/ EmitModifyClip \/ EmitRemoveClip
  \/ EmitLoadAsClip \/ EmitLoadAsset \/ EmitReplay

\* Each time the list runs empty the document is observed.
Observe ==
  IF actions' = <<>>
  THEN /\ restDoc' = Document'
       /\ restPast' = [i \in DOMAIN undoList' |-> act'[undoList'[i]].before]
  ELSE UNCHANGED historyVars

Next == ((\E a \in ActionIds : Step(a)) \/ EndPass \/ RunTask \/ OpenFile \/ Emit) /\ Observe

Spec == Init /\ [][Next]_vars

(* ---------- settings, assumed where a property is proved for all ---------- *)

\* The next edit comes when the action list is empty.
OneEditAtATime == MaxInFlight <= 1

\* What an undo restores: every attribute but the name, which is set again, and clips
\* that are never muted, as the mute flag is set again too.
UndoIsComplete == "name" \notin Reverted /\ Mutes \subseteq {FALSE}

(* ------------------------------- properties ------------------------------ *)

\* When nothing is going on the snapshot shows the values the real-time thread
\* works with: every parameter and switch, the place of every clip that has a
\* view, every asset, after any number of edits, undos and redos.
ViewsShowTheUnits ==
  AtRest =>
    /\ \A u \in Units, t \in RtAttributes : view[u][t] = unit[u][t]
    /\ \A c \in DOMAIN clipViews : clipViews[c].start = clips[c].start
    /\ assetView = asset

\* As long as no clip was removed, a unit plays the clips that it shows, in their
\* order, and no container is rewritten while the unit plays from it.
ShownClipsPlay ==
  ~removed => /\ ~torn
              /\ AtRest => \A u \in Units : box[u][rtBox[u]] = shown[u]

Stack == INSTANCE UndoStack WITH doc <- restDoc, past <- restPast, Limit <- UndoLimit

\* Undo brings back exactly what the edit replaced, newest first, for every
\* attribute in Reverted and for the clips ("_direction == Backward means what it
\* should revert", inc/core/primitives/ActionExecutable.h).
UndoReverts == Stack!Spec
=============================================================================
