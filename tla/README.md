# Formal model of slr-gbox

slr-gbox is a groove box and small digital audio workstation in C++: audio units (tracks,
samplers, mixers, oscillators) connected by audio and midi routes, a timeline, recording to
disk, a touch display and an Ableton Push as user interfaces. This directory holds TLA+
modules of its core, the TLC configurations that check them, and theorems proved with TLAPS.
Paths below are relative to the repository.

## The system

### Threads

| thread | code | what it does |
|---|---|---|
| display | `src/ui/display`, loop in `MainWindow.cpp` | handles gestures, runs posted tasks, fires timers, polls and paints the view |
| push | `src/ui/pushThread.cpp`, `src/ui/push` | the same for the buttons, encoders and frames of the push controller |
| control | `processLoop` in `src/core/ControlEngine.cpp` | every 100 ms one pass over the action list |
| real time | `processNextBlock` in `src/core/RtEngine.cpp`, called by a driver | runs queued tasks, then renders one block |
| file worker | `src/core/FileWorker.cpp` | opens, saves and dumps files, calls back into actions |
| midi | `src/core/primitives/MidiPort.cpp`, `MidiController.cpp` | one reader and one writer per open port, detection of devices |

### Components, their state, and what makes them correct

* **Control engine** (`ControlEngine.cpp`, `primitives/ActionExecutable.h`,
  `Actions/Project/Undo.cpp`, `Redo.cpp`). State: the action list, the undo and redo lists.
  An action has a step, a direction (forward, or backward for an undo) and a state
  (Executing, Waiting, Finished, Abort). A pass calls `exec()` of executing and
  `checkWaitingCondition()` of waiting actions, then moves finished undoable actions to the
  undo or redo list and erases whatever ended. *Correct* when every action has one owner at
  every moment, none is lost, none waits for ever, and undo restores what the edit found.
* **Project and render plan** (`Project.cpp`, `primitives/RenderPlan.cpp`). State: units by
  ID, audio and midi routes, two render plans and the index of the one in work. *Correct*
  when the plan in work says what the routes say and names only units that exist, in an
  order in which every unit follows its sources.
* **Edit actions** (`Actions/Project/*.cpp`). They edit the project, build a plan into the
  slot that is not in work, send a `SwapRenderPlan` task and wait for it. *Correct* when the
  real-time thread never renders a destroyed unit.
* **Values and clips of a unit** (`Actions/AudioUnit/*.cpp`, `ModifyClipItem.cpp`,
  `LoadAsset.cpp`). Values live in the unit and in its view; clips live in two containers
  per unit, swapped by a real-time task and edited while out of use. *Correct* when the view
  shows what the unit has, every clip shown is played, and undo brings back what was there.
* **Loading and saving** (`Actions/Project/LoadProject.cpp`, `SaveProject.cpp`,
  `Serializer.cpp`, `prepareForProjectLoading`). *Correct* when loading ends, the project is
  what its file says, and IDs stay unique afterwards.
* **Project snapshot** (`snapshots/*.cpp`). What the interfaces show and let the user choose
  from. *Correct* when it agrees with the project at rest.
* **Real-time engine** (`RtEngine.cpp`, `primitives/RtTask.*`) and the **ring**
  (`primitives/SPSCQueue.h`) in both directions. *Correct* when no task is lost, duplicated
  or run after its owner is gone, and a slot is never read while written.
* **Timeline and metronome** (`Timeline.cpp`, `Metronome.cpp`, `Actions/Timeline`,
  `Actions/Metronome`, `AudioUnit::playbackFiles`). *Correct* when the playhead moves by a
  block or as commanded, each frame of a clip sounds at its place, and each beat is counted
  once.
* **Track recording** (`units/Track`), **buffer manager** (`BufferManager.cpp`) and **file
  worker** (`FileWorker.cpp`, `FileTasks.cpp`). *Correct* when each take becomes a clip that
  is exactly what was recorded, and buffers and files are never shared.
* **Midi controller and ports** (`MidiController.cpp`, `primitives/MidiPort.cpp`). *Correct*
  when the real-time thread serves each open port and no other, and notes arrive complete,
  in order and on time.
* **Display** (`src/ui/display`) and **push controller** (`src/ui/push`). Each keeps widgets
  for the units of the snapshot and is told of changes by posted tasks. *Correct* when they
  end up with the units, routes and loop of the project, no widget is deleted while a
  gesture holds it, a frame shows the view it was drawn for, and every note of a pad ends.
* Audio and midi file formats, mixer, oscillator, settings, painting: `PROJECT.json` lists
  them with the reason they are not modelled.

### What is hard here

Actions of the user overlap: each takes several passes of the control thread, and the user
may emit the next (an undo, a redo) at any time. The real-time thread runs between any two
steps and shares the plan index, the task ring and pointers into actions. Undo works on the
objects that did the edit, so state an action kept from its last execution matters in the
next. The file worker finishes actions from its own thread. The surfaces hear of a change by
a task that reads the snapshot when it runs, not when it was posted, and their widgets point
to each other without ownership. Nothing is persisted step by step, so there is no crash
recovery; nothing has a timeout, so a lost answer means waiting for ever. `PROJECT.json`
lists each hazard at its line.

## The modules

| module | models |
|---|---|
| `Project` | routes, units, saved routes and the plan, as operators on sets and bags |
| `ControlEngine` | emission, control thread, edit actions, undo and redo, task ring, real-time thread |
| `UndoStack` | abstract: a document and the documents before the last edits |
| `EditHistory` | `ControlEngine` observed whenever its action list is empty, mapped to `UndoStack` |
| `UnitEdits` | values, clips and assets of a unit in the unit, in the snapshot and in the two containers; mapped to `UndoStack` |
| `ProjectLoading` | saving, the engine restart in a pass, the load and the actions it emits, IDs of units, files and clips |
| `RenderPlan` | how `buildPlan` counts, sorts and builds, against the operators of `Project` |
| `BoundedFifo` | abstract: a queue that is refused when full |
| `SPSCQueue` | the ring with every step of its two sides, mapped to `BoundedFifo` |
| `TrackRecording` | arming and recording on tracks, through all threads, buffers and files |
| `AudioRecord` | the frames of one recording: two signals, latency, change of buffers |
| `MidiDevices` | detection, opening and closing of ports, reader and writer threads, parser, time stamps, the real-time maps |
| `Playback` | transport, loop, tempo, playhead, metronome, the frames of clips in a block |
| `UnitPosts` | the control thread as the surfaces see it: the snapshot and the tasks it posts |
| `RouteDialog` | the route dialog of the display as operators on a record (extends `UnitPosts`) |
| `Display` | gestures, tasks, timers and polls of the display, its widgets (extends `RouteDialog`) |
| `PushSurface` | the push thread, its views, frames, lights, and the pads (extends `UnitPosts`) |
| `Surfaces` | the control thread and the two surfaces together, and what should hold between them |
| `MCControlEngine`, `MCEditHistory`, `MCRenderPlan`, `MCTrackRecording`, `MCUnitEdits`, `MCProjectLoading`, `MCMidiDevices`, `MCPlayback`, `MCSurfaces` | small instances: sets, settings and workloads |
| `SequenceLemmas` | what appending, removing and cutting do to the elements of a sequence (lemmas) |
| `ControlEngineProofs`, `EditHistoryProofs`, `RenderPlanProofs`, `SPSCQueueProofs`, `AudioRecordProofs`, `PlaybackProofs`, `UnitEditsProofs` | theorems and their proofs |

Composition: `RenderPlan` computes in steps what `Project` says in one operator, and
`ControlEngine` uses the operator; `SPSCQueue` is shown to be the queue that
`ControlEngine`, `TrackRecording`, `UnitEdits`, `ProjectLoading`, `MidiDevices` and
`Playback` use as a sequence; the pass over the action list and the emission of
`ControlEngine` return, reduced to what each needs, in the modules that add actions.
`Surfaces` puts the control thread and the two surfaces into one behaviour.

### ControlEngine and the code

An action object is a record `act[a]`: its kind, the ID, route and `swapPlan` of the emitted
action, `step`, `direction`, `state`, the flag of its task (`completed`), the unit it holds
(`unit`) and the routes it saved (`saved`). The list a member is on owns it; a member on
none is free and holds nothing. A unit is an object, not an ID: a creation that is redone
makes a new object with the old ID (`life`), which lets "renders a destroyed unit" be said.
Routes are bags, because an undo may add a route twice and a vector keeps both; the order
within the vector has no influence on what is modelled. A plan is the set of unit objects it
renders.

One step of the control thread is one call of `exec()` or `checkWaitingCondition()`. Two
exceptions. A step that rebuilds the plan is split inside `prepareSwappablePlan`, after the
load of `_planInWork` and before the write of the slot, so that a swap of the real-time
thread can fall between. And the end of a pass handles one action per step: the code has a
loop that moves undoable actions and a loop that erases, both under the lock; one walk that
retires or erases each ended action in order has the same effect on the lists, because
nothing else changes states of ended actions (the exception, the file worker, has no part in
these actions).

Locks: `_actionMutex` protects the list; a call of `exec()` runs without it, so the
interface may append between any two steps, and an undo appends within the pass. The
real-time callback has three steps: one task, the choice of the plan, the end of the block.
Between the choice and the end it uses the plan it chose.

Ends of the process are recorded in `fault` ("plan": the `LOG_FATAL` of `buildPlan`, "unit":
the null unit in `CreateNewUnit.cpp:79`); nothing moves afterwards.

Not in this module: `evaluateRoute` always answers true, unit creation is taken to succeed
(a unit type that is missing, or memory), the old plan that is overwritten is never freed
and is not modelled, solo is never set by the code.

### UnitEdits and the code

`unit` has the attributes that the real-time thread reads, `view` what `AudioUnitView`
shows. An edit of a parameter or switch sends a task, which writes the unit, and copies to
the view when the task is done; name and colour have no task. `box[u]` are the two clip
containers, `inUse` says which one the actions edit, `rtBox` which one the unit plays, and
`shown` is the list of the snapshot: an action rewrites the spare container and swaps.
Opening a file is a request to the file worker, which calls back `opened`; a file that
cannot be opened never calls back (`FileTasks.cpp:60`), so its action waits for ever (value
"missing" in the run). The passes that keep some elements of a list (`Kept`, `Without`) say
so through the positions in their order (`InOrder`), of which there is one sequence, and a
full undo or redo list keeps its `Newest`. `Observe` records the document whenever the list
is empty; `UndoReverts` maps that history to `UndoStack`.

### ProjectLoading and the code

A pass may contain a load. `StopAndClear` stops the engine and frees the project,
`RestartAndEmit` waits for the file worker to close every file, starts the engine again and
emits the creations and the timeline; the same pass goes on over the actions appended to the
list it walks. `Load2` emits values, names, assets, clips and routes, `Load3` the update of
the plan, each when the number of units or routes is reached. Each action has the steps that
loading depends on and no more; their details are in `ControlEngine` and `UnitEdits`. A
document has units, clips, files and routes with their IDs; `disk` starts as any of `Docs`
and saving overwrites it. Files and clips take their IDs from the two counters of the code.
`life` counts projects, so that an action that still works on the freed one can be told.
`loaded` remembers what was loaded until the next edit, `skipped` that a forced ID went past
its counter.

### RenderPlan and the code

A call of `buildPlan`: `Count` builds nodes, edges and counters and fills the queue in any
order, because the code iterates an `unordered_map`; `Take` is one turn of the loop of
`topoSort`; then the dummy plan, the `LOG_FATAL` for a missing unit, or the plan. An
instance of a route is its place in its vector, so that equal routes, or an audio and a midi
route between the same units, count twice. The targets of a unit were entered by ascending
ID, which fixes the order in which they follow.

Three places of the code cannot be reached and have no action: the plan without nodes
(`RenderPlan.cpp:226`, an order that is not empty has routes), the null units among the
dependencies (each is looked up as a node before), and the mismatch of the output count.
Channel maps are left out; a unit has one output dependency even when several routes lead
from it to ports, with the channel map of the last.

### SPSCQueue and the code

One action per access to shared memory. `push` is `PushCheck` (the load of the tail),
`PushBegin` and `PushEnd` (the copy into the slot, `Torn` in between because an item is
longer than a word), `PushStore` (the store of the head). `pop` and `peek` likewise; a
consumer that peeked may read through the pointer, pop, commit, or peek again, as the midi
loop of `processNextBlock` does. The private index and its published copy are one variable,
because only their owner writes them, one after the other. Acquire and release make each
store visible with what was written before it, so the interleavings of these steps are all
there is. A result (`accepted`, `taken`) changes in the step that decides it, which is where
the abstract queue changes too.

### TrackRecording and the code

The life of a recording goes through all threads. The record button emits `RecordArm`; its
first step prepares a *record target* on the track (a buffer from the pool, a temporary
file) and sends a task that sets `_record`; its second step updates the snapshot, or, when
the track was turned off, releases the target. `ChangeTimelineState` starts and stops the
transport in the real-time thread. While it plays and records, `Track::process` adds to the
buffer of the target; a full one becomes the old buffer and is dumped when the latency has
passed. A dump fills the one flat record of the target and queues a response; the control
thread executes it after its walk and emits `DumpRecordedAudio`, which gives the file worker
a task; the worker writes the buffer, and its callback clears it, returns it to the pool,
and closes a file that is final and emits `LoadAsClip`. A stop finalizes each armed audio
target and asks for a `ReinitTrackRecord`, which prepares the next target and arms the track
again.

The variables follow the code: `target[t]` is `_recordTarget` with its flat record, `store`
the ring of free buffers and the temporary files, `view` and `tlView` the snapshots the
buttons look at, `actions`, `rtTasks`, `responses` and `fileTasks` the queues in between. A
target has an identity (`id`), so that "the block writes to a target that was deleted" can
be said: `using` holds the targets the tracks had when the block began. Sound is a set of
marks per block of a buffer, a mark names track and block: recording *adds* to a buffer, so
a buffer that is not silent, or written by two tracks, shows. Three fields of a file are only
there to state the properties: `heard` is what was recorded for it, `lost` what of that a stop
or a failed write left out, `late` says that the file worker or the control thread did not keep
up: a dump was asked for before the one before was read, or the recording was stopped before
that was on disk. `setting` is one of `Settings`, chosen
at the start: the tracks, the buffers, the user and the disk of this behaviour.

`pc` and `idx` are the walk of the control thread (`walk`, then `respond`). One call of
`exec()` is one step, and so is a task of the real-time thread, one track's part of a block,
the write of a dump, its callback. Ends of the process are in `fault`: "null" (the null file
of a midi target released twice), "file" (a temporary file that is gone), "pool", "files"
(none left), "flat" (a response whose target was deleted), "target" (the block's target was
deleted or is of the other kind).

Taken together: each push and pop of the pool and each search of the temporary files is one
step, although the pool has two producers and two consumers and the files have no lock (both
are data races). The task and response rings and the midi pool do not run full. The plan of
the real-time thread has all tracks. What a midi recording holds, deletion of an armed
track, and the undo of any of this (none of these actions is undoable) are not in the
module; the `LoadAsClip` it emits is in `UnitEdits`, where a take is a file that is open
already.

### AudioRecord and the code

`writeData` is called twice per block, for sound from inside the project and for sound of
the hardware, which belongs `_latencyToCompensate` frames earlier; `incrementCounter`
follows. `Block` is the three calls. A buffer is the set of what was added to it, as
position, signal and time at which the frame came in, so that a frame twice, missing or in
the wrong place shows. `Finalize` is the dump at the end. `SizeAssumption` says that a
buffer, 512 blocks, outlasts the latency by a block, which nothing in the code checks.

### MidiDevices and the code

`listed` and `online` are the device list of the controller, `popup` the settings popup's
copy of it with its generation: actions keep pointers into a copy, and so do ports. `ports`
is `_activePorts`, which never shrinks; each port is a record of its flags, its two threads,
its parser and its queues. The reader steps through its loop: poll, read a part of the line,
stamp, read the anchor, read its frame, push; the two values of the anchor are written by
the real-time thread and read one after the other, and `untorn` of an event says that both
came from one callback. `due` is the block of the first callback to begin after the stamp,
`block` the one in which the event is heard; `offset` counts from the start of that block
once it is heard (`MidiEvent.h:49`). The writer sleeps in `poll` until the eventfd is
written. `opening` is where the control thread stands in `openDevice` and `closeDevice`,
because they join threads. Flags that no constructor sets start as any of `Garbage`. `maps`
are the vectors made for the real-time thread, `rtMap` the one it uses, `freed` those that
were deleted. The clock ticks in frames; a callback comes up to `Jitter` late.

### Playback and the code

`tl` is `Timeline`, `view` its snapshot, `metro` the metronome. The actions of
`Actions/Timeline` and `Actions/Metronome` read the view, send tasks and update the view;
`processNextBlock` then asks `playing()`, `elapsed()` and the metronome and plays the clips.
Numbers of type `frame_t` are taken modulo `FrameRange`. A tempo stands for the frames of a
quarter note. `expected` is the position at which the next block should be played, set by
commands and by the end of the loop, and `steady` says that neither the tempo nor the start
of the loop has moved the grid of beats. `EndPass` takes the three loops at the end of a
pass (what can be undone is moved, the rest erased) as one step over sets of positions:
`InOrder` makes of a set of positions the sequence that keeps their order.

### UnitPosts, RouteDialog, Display, PushSurface, Surfaces and the code

`UnitPosts` is the control thread reduced to what the surfaces can tell: which action it
runs, which parts of the snapshot each step changes, which tasks it posts to whom. One
action runs at a time. `silent` collects what changed without a task ("routes": a deletion
leaves the midi routes of the snapshot or changes the audio ones without a post; "timeline":
a load that gave up had replaced it).

A widget is its type and the number of the object it belongs to; a number of nothing there
is is a dangling pointer. `gui` is `MainWindow` and what it owns: the unit surfaces that are
shown and those kept for an undo, popups, the dialog, the browser's labels (a generation),
the handles of the loop, the selection, the keyboard and its owner. `press` is the finger
with the first and the current target. The loop of the display is a cycle of phases:
gestures (`TouchDown`, `TouchOutside`, `Move`, `Release`), all tasks, timers, poll. Gestures
are given as pairs of a widget and a kind (tap, double tap, hold, drag), and a gesture that
deletes the widget it was made on before `TouchUp` is the fault "killed by its gesture".
`RouteDialog` has the lines of the dialog with the generation of the update that made them,
since each update adds lines to those there are.

`push.root` is `RootWidget`: the list of units with the row each was drawn in last, the view
and the one before, the lights, and the image of the display, region by region. The pads are
mapped to notes in the thread of their port with the scale of the moment.

## The runs

| run | question | bounds |
|---|---|---|
| `serial` | one user action at a time: do plan, routes, units, snapshot and real-time thread agree, and is undo an undo stack? | one unit with its route, a second unit, an audio and a midi route to it, five actions, lists of three |
| `overlap` | up to three actions in flight: are lists, tasks, units and IDs in order, and does every action end? | one unit and route, four actions of every kind, one listed when the user emits, lists of two, a ring of two; fairness |
| `edits` | do views show what units have, are the clips shown played, does undo revert, whatever is edited, undone and redone? | one unit and one that is gone, two values, one file of each kind, four edits, lists of two |
| `loading` | does a load end and bring back what was saved, do IDs stay unique, of what may the process die? | six project files, three actions of the user; fairness |
| `order` | is the plan in order and complete? | all graphs of up to three audio routes and a midi route among three units, any units missing |
| `ring` | is the ring a queue, whatever the interleaving? | three items, four slots, so that it fills and wraps |
| `takes` | does every stopped take become a clip, is the clip the take of its track, is everything in one place, what does the file have when the user does not wait and writes fail, how may the process end? | four settings, see below; fairness |
| `latency` | is every dumped frame in its place, and where does what is dumped end? | blocks of three frames, buffers of four blocks, latencies from 0 to 9, fourteen blocks |
| `devices` | does the real-time thread serve the open ports, are notes in order and complete, are they heard in their block and at their place in it? | two devices, five workloads of toggles, plugs, messages, keys and blocks, queues of two |
| `playback` | does the playhead go on, do clips sound in place, are beats counted, does the view follow? | blocks of two frames, two clips, two tempos and bar sizes, six blocks, five workloads |
| `surfaces` | do both surfaces end up with the project, does no gesture kill its widget, do popups close one another, do frames show the view and notes end? | twelve workloads of four to seven presses on one part of a surface |
| `dead_sleep` | does anyone wait for a writer that nobody wakes? | violated, see *Findings* |

### Bounds, and why they are enough

`MaxInFlight` is the length of the action list at which the user emits nothing; `MaxEmits`
bounds the actions of a behaviour. In `overlap` the user may emit while one action is
listed, and an undo lists the action it takes back: three are the least with which an undo
can fall between the two steps of one edit while another edit waits; four emitted actions
are enough to create, delete, undo and redo. Lists of two overflow with three edits. A ring
of two holds the tasks that can be under way then; with one place a refused task would leave
its action waiting for ever (`RtEngine.cpp:260`). `serial` needs a longer history instead:
create, route, delete and two undos. It has no redo, see *Routes saved twice* below.

The properties of `serial` are checked with one action at a time on purpose: with
overlapping actions the code does not have them. Two creations and routes undone together
destroy a unit the old plan still renders, two swaps in flight put the older plan back, and
an undo emitted while a deletion is under way undoes the creation of that same unit. Those
hazards are in `PROJECT.json`. What does hold with overlap is in `overlap`. `edits` emits an
edit when none is listed, for the reason in *Overlapping edits*; what overlaps there is one
edit with its task and its file. Four edits are a change of one value, of another, an undo
and a redo, or three changes, of which the lists of two forget one, and an undo. `Reverted`
is every attribute but the name, see *Undo of a name*.

`loading`: `MC_Docs` has the files in which something can go wrong: a gap in the unit IDs
with a sampler, a gap in the clip IDs, a kind of unit that is not registered without and
with a clip, a missing audio file, and a file that is no project. Three actions of the user
are an edit, a save and a load, or a load with two edits after it, or two loads.

The four settings of `takes` (`MCTrackRecording`), all with a latency of two blocks, which is
less than a buffer, as in the code. `Takes` has two tracks, the least that can share a file,
buffers of three blocks, two recorded blocks and five commands of every kind but turning a
track off. `LongTakes` has one track that records up to twelve blocks in takes that end
anywhere: a take fills up to four buffers, is stopped while a full one waits out its latency
or after it was dumped, and the next take follows. `TurnedOff` is a user who waits and turns
the track off and on, changes its source, and records up to five blocks between. `Unruly` does
not wait, stops and starts takes that fill two buffers, and any of the writes may fail; its
counter of free temporary files starts at zero or nine (`FileWorker.cpp:129` initialises it
nowhere). Larger bounds of the last three were run as well (sixteen blocks and six commands,
seven commands, thirteen blocks) with the same results. `Patient` says the user waits until
nothing is under way, `Calm` that he does, turns no track off, and no file was `Late`: that
is when buffers of 512 blocks reach the disk before the next is dumped. The properties that
need it name it. `FileFollowsTake` is claimed of every user who turns no track off and of
every answer of the disk, and ends for good once a file was late; `NoFault` is claimed of
every user who waits, and names the three ways in which his process still ends. With five
buffers, of which the ring holds four, the pool does run empty: when the disk is slow, and
when stops have lost buffers.

A latency of up to nine frames with blocks of three covers no latency, parts of a block,
whole blocks, and the largest that `SizeAssumption` allows.

`devices` and `playback` start a behaviour in one of several workloads, each with budgets
for one group of controls; the product of all of them adds states without new meetings of
actors, since groups touch different variables except where a workload has both. A queue of
two is full after two events. Three blocks are enough for an event to be read before a
callback, during it, and to be pushed a block too late. `Jitter = 1` is half a block.
`FrameRange = 64` lets the subtractions of unsigned frame counts go below zero and wrap,
while a behaviour of six blocks never reaches it (`PlaybackAssumption`). One clip begins and
ends inside a block, the other on its borders. A click of three frames is longer than a
block, so it carries over.

`surfaces`: a workload has the presses that work on one part: undoing, routing, browsing,
clips, written values, the timeline, reloading, replacing a project while a popup is open,
panels, routes while they change, the push controller coming, going and its buttons, its
pads and scales. Four to seven presses are a popup opened, a use of it, an edit, and an undo
or a load in between. `MaxUnit = 8` is more than any workload creates; `SavedUnits` has two
units so that a load replaces a project by one of another size; `OutputPort = 0` is the
state without a midi output. Pads 41 and 44 stand for one note, so they are each other's
twin; the two scales differ in length, so that the note of a pad changes with the scale.

Deadlock is checked in `ring` and `serial`, where nothing but the bounds ends a thread;
`CHECK_DEADLOCK FALSE` is set where a budget, the end of an algorithm or a fault of the
process ends the behaviour.

### Histories in the models

Some variables exist for the properties only: `heard`, `lost` and `late` (what was recorded
for a file, what of it was left out, who did not keep up; what a device's events became),
`due`, `block` and `untorn` (the times of an event), `restDoc` and `restPast` (the documents
at rest), `loaded` and `skipped` (loading), `expected` and `steady` (the position due, the
grid of beats), `removed` and `torn` (clips), `silent` (changes the display was not told
of), `mixed` (a dialog that was not empty when it was shown), `missed` (units that an undo
brought back past the push controller), `switched` (a view button was used), `shifted` (the
scale changed while a pad was held). No guard of an action reads them. Each of `removed`,
`silent`, `mixed`, `missed`, `switched`, `shifted`, `steady` and `skipped` marks off a
behaviour of the code in which its property does not hold; they are described below.

### Fairness

`FairSpec` of `ControlEngine` assumes weak fairness of the control thread as a whole (a
`while` loop with a sleep, one thread) and of the real-time thread as a whole (called for
every block by the driver). No fairness is assumed of the user, of a single action, or of
the choice between actions: the order of a pass is the order of the list. `FairSpec` of
`TrackRecording` and of `ProjectLoading` adds weak fairness of the file worker (a loop on a
condition variable with a timeout). `TakeIsLoaded` needs all three threads and nothing of
the user but that the session is calm: a take that was stopped becomes a clip whatever is
pressed next. `LoadEnds` needs
the files of the project to be there: an open that fails never calls back.

## Findings

**A sleep nobody ends** (`dead_sleep`): `MidiPort.cpp:253` says "always write to fd,
otherwise we will get dead sleep". `MidiController.cpp:290-293` clears `_runOutput` and
`_outputOpened` and joins the writer without a write to the eventfd; a writer without events
is in `poll(-1)`, and `sendMidi` no longer writes for a closed output. The control thread
waits for ever.

## Behaviours that bound the passing runs

About these the repository says nothing; they are what the code does, they were met while
modelling, and they set the limits of the runs and the exemptions of the properties.

### Control engine, edits of the project

* **Routes saved twice.** `DeleteUnitAction` appends to its saved routes at each execution
  and never empties them (`DeleteUnit.cpp:159`). Delete, undo, redo, undo: each route is
  there twice (`UndoRestores` fails with `"Redo"` among the `Edits` of `serial`).
  A route from a unit to itself is saved once for each end.
* **Edits that overlap.** What an action needs is looked at when it is emitted, not when it
  runs: a route to a unit whose deletion is still on the list is added after the unit went,
  and `buildPlan` ends the process. `serial` has one edit at a time.
* **Redo after a new edit.** A new edit leaves the redo list alone
  (`ControlEngine.cpp:150`). Add a route, undo it, delete the unit, redo: the route to the
  missing unit is back, and `buildPlan` ends in `LOG_FATAL` (`RenderPlan.cpp:247`).
* **Finished in the window.** An action that the file worker finishes between the two loops
  at `ControlEngine.cpp:140` is erased without reaching the undo list.
* **Shutdown** destroys engine and project before the control thread is joined
  (`ControlEngine.cpp:282`); `Project.cpp:171` reads the vector of units in the real-time
  thread while the control thread changes it. Both are data races outside the models.

### Values and clips

* **Overlapping edits.** Two edits of one value in flight leave the view with another value
  than the unit. Two `LoadAsClip` in flight on one unit rewrite the container that plays and
  may lose a clip. `edits` has `MaxInFlight = 1`; with 2 TLC shows both.
* **Undo of a name** sets the new name once more (`SetName.cpp:45`); the undo of a clip edit
  keeps the new mute flag (`ModifyClipItem.cpp:58`), so `Mutes` has one value; the undo of
  `RemoveClip` never ends.
* A file that cannot be opened never calls back (`FileTasks.cpp:60`).

### Loading

* The mute flag of a clip is not restored, nor are length and file offset; a unit with
  several clips keeps one; a unit of a kind that is not registered is skipped, and one with
  a clip ends the process (`.at` throws). `Plain` names these files.
* The rest of the step and of the pass works with the freed project: undefined, modelled as
  a choice of the end of the process and of going on.
* A user's action during a load, or one of the load's that aborts, changes the numbers the
  load waits for: it never ends. The user of `loading` emits when the list is empty.
* A sampler's asset is opened without its ID before the clips' files, takes a low ID, and
  after another save `findFile` finds the asset for the clip (`LoadAsset.cpp:54-56`,
  `LoadProject.cpp:193`); a clip ID forced beyond the counter is met again by the next clip
  (`FileContainer.cpp:27-29`): `skipped`.
* Entries of closed files stay as null pointers and crash the next save; so does a sampler
  without an asset (`SamplerView.cpp:44`). `DiesAsKnown` says that there are no other ways.
* The undo list is cleared, but the load's own edits enter it afterwards; the redo list is
  not cleared. The interface reads `projectSnapshot()` while it is replaced.

### Recording

* **Two tracks, one file.** Turning a track off releases its file and keeps the target;
  turning it on releases the file a second time, although another track has it now
  (`FileHasOneWriter` fails with `"Disarm"` in `Takes` and without
  `NothingIsTurnedOff` in `Calm`).
* **Sound in a free buffer.** A track turned off while it records returns its buffer as it
  is, and the next recording adds to it (`FreeBuffersAreSilent` fails likewise).
* **The end of a take.** A stop while a full buffer waits out its latency loses that buffer,
  which is never dumped nor returned (`Track.cpp:358-363`): its sound is missing from the clip,
  and the pool is one buffer smaller. `ClipIsTheTake` and `LastEndsTheTake` say that this is
  all that is missing. After enough of them there is none to record to (fault "pool").
* **Late dumps.** A dump asked for before the control thread has read the one before takes its
  place in the flat record (`Track.cpp:432` says "we may loose some data"), so one buffer is
  written twice and the other never comes back; a stop before the last dump is on disk marks
  the file, whose earlier dump then closes it, and the last one ends the process (fault
  "file"). `Late` marks both off.
* **A write that fails** drops its buffer and is not tried again (`FileTasks.cpp:109-116`,
  `DumpRecordedAudio.cpp:65`): when a later one succeeds the file has a gap, which `Kept` of
  `FileFollowsTake` leaves out; when it was the last, the file stays open and there is no clip.
* **Off and on with a midi source.** Arm, change the source to midi, turn the track off, arm
  it: the target whose buffer and file were given back is released once more, by null pointers
  (`Track.cpp:303-308`, fault "null"). A user who waits does it too, so `NoFault` names it.
* **Armed again.** Stop a recording and turn the track off at once: the reinitialisation on
  its way arms the track; the interface goes on showing it off (`Track.cpp:261`).
* **Source changed while recording.** The button is guarded by a snapshot that learns of the
  recording a pass later; the target is deleted under the real-time thread
  (`TrackUI.cpp:87`).

### Midi devices

* Ports keep names of devices in a copy that a refresh of the popup replaces; the popup
  passes pointers to copies its lambda captured. Two new ports in one pass lose one from the
  map. A loop condition in `ToggleMidiDevice.cpp:113` matches the wrong subdevice.
* The flags of a port are not initialised, its thread may read `_run` before it is set; a
  writer that ended by an error leaves the output marked open; a parser keeps its state when
  a port is opened again; a port is never opened again after a disconnect;
  `PushMidi::connect` waits in `while(!trigg1 && !trigg2)` with callbacks into a dead stack
  frame; `checkDevices` pushes into `_activePorts` from the detector thread.
* An event read while a callback stands between its anchor and its collection is taken by
  that callback: there is no upper bound at `RtEngine.cpp:142`. Its time is right, but it is
  heard a block early with an offset of a block or more. So may be one read when the next
  callback is late, at an offset beyond the block by as much. Of those who read events only
  the recording of midi uses the offset. `NotesKeepTheirTime` says there are no others.
* A late event ends the collection of its port with a `break` and is lost
  (`RtEngine.cpp:156-157`), and what stands behind it in the queue waits for the next block,
  where the first of it may be late in turn. The trace there calls this "theoretically
  Unreachable?": it is reached when the anchor and the frame of the last callback are read from
  two callbacks (`untorn` is false), when the stamp comes before the anchor, whose difference
  is then negative, and when the reader is slow to push; and `framesPassed` starts again after
  a load.

### Playback

* Two taps on an active loop add `_lastLoopStamp` twice; a loop switched off after it turned
  with a start that is not zero, or whose start is moved while it turns, moves the playhead;
  two edits of the loop in one pass lose the first's end; the handles allow an end before
  the start. The workloads keep to the loops that `PlayheadGoesOn` names.
* Two changes of the tempo are under way and the real-time thread takes both while the pass
  stands between them: the later one is shown in this pass and the earlier one in the next
  (`ChangeSignatureBpm.cpp:57`), and the snapshot keeps the older tempo. A second step of
  `ChangeSignatureBpm` leaves the lengths of beat and bar of the view as they were.
  `Preparing` in the view makes a second play start anew; `resumePlay` is never called, so a
  pause restarts at zero.
* A clip shorter than a block reads past its file (`AudioUnit.cpp:113`); several beats in a
  block give one tick; a click written for a loop that does not start at zero may lie
  outside the block (`Metronome.cpp:48`, an unsigned difference) and clicks lose frames; a
  muted metronome keeps its remaining frames; `ToggleMetronome` shows the negation of what
  it sent when two overlap.

### Display

* The view of a clip that was removed is erased from the vector that owns it and deleted
  once more (`UnitUIBase.cpp:256`): every removal with the grid shown ends the process. A
  change that leaves the number of clips keeps a stale view of one. `setNudge` reads the
  other coordinate (`UnitUIBase.cpp:318`).
* The route dialog updates while it is hidden: a unit that was deleted is a null pointer,
  rows come twice or mixed when it is shown (`mixed`), lines for new routes stay behind.
  Midi routes of deleted units stay in the snapshot (`silent`). Units are chosen by name; a
  midi output with port ID 0 is refused; `_btnAudioTab` is assigned twice.
* `liveUpdate`, `updateTimeline` and `clearUI` may delete the widget under the finger
  (`MainWindow.cpp:536`); a tap of the browser that is let go on another label reaches a
  dead one. `clearUI` leaves the popup's unit, the selection and the unit shown last
  dangling, and keeps `_removedUnits`; so does the keyboard its owner. `TouchedStaysAlive`
  is about gestures that delete their own widget; a dead widget reached by a task is the
  fault "dead widget" or one like it, and the behaviour ends.
* `MainWindow.h:102` says "only one popup must be active at the time". A tap on the latency in
  the audio tab of the settings opens the on-screen keyboard (`SettingsPopup.cpp:265-283`),
  `enableKeyboard` closes nothing (`PopupManager.cpp:25-31`), and the settings stay active
  below it until the keyboard closes. Touches reach the keyboard, which comes first in the
  list of popups. `OnePopup` says that this is the only pair.
* The selector of a drag stays open when the drag ends, and its timer may fire later and
  turn another press into a drag. `substr(size - 5)` throws for short names, `std::stof`,
  `stod` and `stoi` for what was typed. A line of the playhead leaks at each update. The
  timer of the playhead is neither paused nor resumed in `Preparing`, and a load that gives
  up leaves it and the loop's marks. The undo of a creation emitted together with a delete
  of its unit follows a null pointer.

### Push controller

* A restored unit is searched in the list of removed ones, which nobody fills: units that
  come back by an undo stay missing (`missed`). Units made before the controller was
  connected are missing too. `_removedUnits` is static and survives a reconnect with dead
  parents.
* The button of the grid pressed first follows a null pointer, as there is no view before. A
  failed connect leaves a thread to be joined: the next start ends the process. A failed
  frame disconnects for good, although `isRunning` stays true.
* The index of a scale is not bounded (`PadLayoutWidget.cpp:200`, `&&` in the guard), and is
  used in chromatic mode too. Notes sound on when the layout changes while a pad is held
  (`shifted`); twin pads give one note, and releasing one restores the lights of both; the
  root note is ignored.
* Images: `DisplayTop5` is missing in `_allButtons` (`PushLeds.cpp:12-27`) and stays lit;
  hidden widgets are skipped but stay dirty; the row of a removed last unit is not cleared,
  two removals before a frame lose the first place, `clearUI` clears nothing; two rows fit
  the display; `filledRectangle` ignores its place. Lights are sent by the push thread and
  by the midi reader into one ring for one producer. Play and Record only change a colour.

## Proofs

`ControlEngineProofs` proves, for every set of actions, routes, queue capacity, list limit
and bound: `TypeOK`, `OneOwner`, `TaskHasItsAction`, `PassMeetsLiveActions`,
`ListsHoldTheirKind`, `OnlyLiveActions`, the conjunction of the third and fourth, and
`UnitsAreUnique`. The run `overlap` checks `OneOwner`, `OnlyLiveActions` and
`UnitsAreUnique` on a small instance; `TypeOK` and `ListsHoldTheirKind` are proved and no
longer run. The assumptions are those of `Project` and `ControlEngine`
(`RoutesAssumption`, `EXTAssumption`, `EngineAssumption`).

The inductive invariant `Inv` is the conjunction of the first five. None but `TypeOK` is
inductive alone. That an action is on one list only depends on where the pass stands: the
sweep retires an action it has on the action list, and it may do so because the action ended
in this pass. That a queued task has its action depends on ownership (no list move touches a
waiting action), and on the walk: an action can only be restarted from the undo list, where
nothing waits, which is `ListsHoldTheirKind`. That the pass meets only live actions needs
ownership again: finishing one action must not change another position of the list. The
proof has one lemma per group of actions that disturb the same conjuncts: `StepOfOne` (a
step that changes one action in place), `EditInv`, `UndoRedoInv`, `PublishInv`, `SweepInv`,
`RtInv`, over lemmas on the types of each action. What removing, appending and cutting do to
the set of elements of a sequence and to its injectivity is in `SequenceLemmas`.

Units need `UnitInv` on top of `Inv`. A creation that was undone and is redone brings its ID
back from the action's record, not from the counter; so an ID must belong to one creation,
and while a creation is undone no unit may have its ID, not even one that a deletion keeps.
This is what makes the ID free again when it returns. ID 0 is the unit that is none.

`EditHistoryProofs` proves four properties of the run `serial`, `RtRendersLiveUnits`,
`PlanFollowsRoutes`, `ViewsFollowProject` and the refinement `UndoRestores`, for every set
of routes, loaded project, number of actions and edits and length of the lists, in the
setting `OneEditAtATime` (an `ASSUME` of `MCEditHistory` has TLC confirm that the run is an
instance of it). Each part of the setting excludes a behaviour of the code that is described
above under *Behaviours that bound the passing runs*: the next edit comes when the list is empty
(`MaxInFlight`), because an edit may rest on what the one before it takes away; nothing is
redone, because the redo list survives new edits and a deletion saves its routes once more
when it runs again; every route asks for a new plan; the loaded routes end in loaded units;
no route leads from a unit to itself, because a deletion would save it twice, once for each
end. `QueueCapacity > 0` is a ring with room for one task; the code's holds 255.

The invariant `SerialInv` (with `Inv`) says how far the edit under way has come.
`OneUnderWay`: the list has one action, or a finished undo followed by the action it
restarted. `PlanUnderWay`: the plan in work is the project's, unless a new one is waiting to
be written to the other slot or its task was sent and is alone in the ring. `ViewsUnderWay`:
the snapshot differs in the one route whose edit is half done. `HistoryUnderWay` relates the
project to the documents of the abstract stack: the list of undoable actions, taken back
from the newest to the oldest, leads from the document at rest through exactly the documents
that the stack has (`LeadsBack`), each of which is `Sound` (its routes end in its units), so
that an undo never meets a missing unit; an edit under way has found the document at rest
and has what it needs to take itself back (`ForwardUnderWay`), an undo under way has reached
the document below (`BackwardUnderWay`). Between the two steps of a deletion the routes of
the project and those saved are together the routes that were found. Each step of the engine
then maps to `Do`, `Undo` or a stutter. The runs' liveness is not part of this.

`SPSCQueueProofs` proves, for every capacity above one and every set of items, that no slot
is shared (`NoSlotIsShared`, proved only) and that the ring implements `BoundedFifo`
(`IsFifo`, which the run `ring` checks). The invariant says what each side may rely on since
its check: the producer that there is room, because the consumer can only make more, the
consumer that there is an item, because the producer can only add; and that the slots they
touch therefore differ, so that the copy stays what the slot holds. The rest is arithmetic
of two indices: `HeadMoves` and `TailMoves` say how the distance and the slots change,
`WriteAtHead` that a half-written item is not among the contents.

`RenderPlanProofs` proves, for every set and number of routes, `TypeOK`, `SourcesComeFirst`
and `OutcomeAsSpecified`. The invariant: a counter is the number of routes from units not
yet taken (`Counters`), the units with counter zero are those in the queue or taken
(`NoneForgotten`), each after its sources (`TakenAfterSources`), and no unit of a circle is
taken (`NoneInACircle`). When the queue is empty and a unit is left, the units left wait for
each other: `CompleteUnlessCyclic`. This also justifies the abstraction of the control
engine's model, in which a plan is a set of units and a circle an existential statement.

`AudioRecordProofs` proves, for every block size, buffer size, latency and length, from
`SizeAssumption`, that dumped buffers are aligned and follow without a gap, that the last
one is aligned and ends with the last block recorded (`LastEndsTheTake`), that writes stay
inside, and `DumpedIsTheTake`, the conjunction of the first four parts, which with
`WritesStayInside` is what the run `latency` checks. The last buffer begins where the dumped
ones end, or, when a full one waits, a buffer later: that buffer is missing, and no more
than the latency was recorded after it. The invariant says what each buffer holds as two
runs of frames: the buffer in use both signals up to now, the old buffer the internal signal
whole and the external up to what has come in (`InUseInv`, `OldInv`); that the fill is a
whole number of blocks (`Fills`), so that a buffer is filled exactly; and that the old
buffer is gone before the next one is full (`fill < latency` while it waits, and the latency
leaves room for a block: `OldIsGone`); and where in the take the buffer in use begins
(`TimeInv`), from which follows where the last one ends. `RunGrows` is the one fact about
sets: a piece that begins where a run ends makes a longer run.

`PlaybackProofs` proves four properties of the run `playback` for every block size, range of
frames, set of clips and tempos, ring and workload (`PlaybackAssumption`), each in the
setting it needs. The settings are definitions of `Playback`, and an `ASSUME` of
`MCPlayback` has TLC confirm that the run is an instance of all four.

* `ViewFollowsTimeline`, when at most one change of the tempo is ever made or one action is
  under way at a time (`TempoChangesAlone`); with two under way it does not hold, see above.
  The invariant: what is not shown yet has an action whose task has run and whose second
  step is to come (`TempoShown`, `TimelineShown`). For transport and loop this needs no
  order, since the second step copies what the timeline has; the tempo is copied from the
  action, and so there must be one (`SerialInv`).
* `PlayheadGoesOn`, when a timeline that may play keeps the start of its loop
  (`LoopsKeepTheirStart`): it is not moved or starts at zero, and it is switched off and on
  by one action at a time, since two toggles that end the same loop would add
  `_lastLoopStamp` twice. The invariant `PlayInv` says where the next block is to be played
  from the three numbers the timeline keeps: the frames since the start, minus the frame of
  the last turn, plus the start of the loop when it has turned. That a loop starts at zero
  must hold of every action that could be done again or undone (`Everything`, `FromZero`).
* `BeatsAreCounted`, in that setting and with beats longer than a block
  (`BeatsOutlastBlocks`; two beats in a block give one click). The invariant `BeatInv` says
  that the last beat counted is a multiple of the beat and the last one before the next
  block; the step is arithmetic on remainders.
* `ClipsSoundInPlace`, when a clip is at least as long as a block less one frame
  (`ClipsFillABlock`; a shorter one is read past its end, `AudioUnit.cpp:113`). It is not
  inductive but follows from the step that plays: `ReadsWhatLies` shows for the three cases
  of `read` that the frames copied are those that lie in the block, `FilesSoundInPlace` that
  no other frame is written.

All four rest on `CoreInv`: types; that the ring holds each waiting action once and that the
second step follows the task (`RingInv`); and that the count of frames stays in its range as
long as the workload has blocks (`FramesInv`), so that no subtraction of frame counts wraps.
The lemmas cut the steps into groups by what they touch (`Asks`, `Sends`, `Shows`, `Checks`,
`RestartsOne`, `PassEnds` and the steps of the real-time thread), so that each conjunct has
a short proof for the groups that leave it alone. `PassEnds` moves every action to another
place: its lemmas say that kept actions keep their order, and their tasks find them.

`UnitEditsProofs` proves the three properties of the run `edits`, `ViewsShowTheUnits`,
`ShownClipsPlay` and the refinement `UndoReverts`, for every set of units, values, files,
actions and edits, any number of edits and any length of the undo list, with all the edits
that the interface emits and with undo and redo, from `EditsAssumption`. The settings are
definitions of `UnitEdits`, and an `ASSUME` of `MCUnitEdits` has TLC confirm that the run is
an instance of both. `OneEditAtATime`: the next edit comes when the list is empty, for the
reason in *Values and clips*. `UndoIsComplete`, for `UndoReverts` alone: the name is not
among the attributes whose undo is observed, and clips are not muted, because the code sets
the new name and the new mute flag again when it undoes them.

* What is under way (`CoreInv`). One edit is, alone on the list or behind the finished undo or
  redo that restarted it, and every other action is on one list and stands for an edit that
  can be done again (`OneUnderWay`, `Stored`). The step and state of an edit say whether its
  task is in the ring, has run, or its file is asked for (`UnderWay`, `TasksUnderWay`), and
  that the unit it writes exists: it was looked up by the step that sent the task.
* `ViewsShowTheUnits` from `ValuesShown`: view and unit differ at most in what the task of the
  edit under way has just written, and there the unit has what the action will show.
* `ShownClipsPlay` from `ClipsPlayed`: a unit plays the container that is not modifiable, and
  that one has the clips shown; while a clip is loaded the other has these and the new one.
  A removal, once done, breaks this, as *Values and clips* says, and the invariant with the
  property ends there; one that waits to be done does not.
* `UndoReverts` from `HistoryInv`, the argument of `EditHistoryProofs` with other documents:
  the undo list leads back from the document at rest through those of the stack (`LeadsBack`),
  the edit under way has found the document at rest and can take itself back to it
  (`ForwardUnderWay`), an undo has reached the one below when its task has run
  (`BackwardUnderWay`). Here a redo is allowed: it is an edit of the document at rest, whose
  action reads anew what it replaces. `ChainGrows`, `ChainShrinks` and `ChainForgets` say
  what putting an edit on the list, taking the newest and losing the oldest do to the chain.

There is one lemma per action (`...Keeps`): it keeps the three parts together, and all but
the end of a pass leave the document at rest alone (`Keeps`). At the end of a pass the edit
goes to the undo list (`Do`), or an undo to the redo list (`Undo`), or nothing has changed
(`PassHistory`).

Only model-checked: everything about `TrackRecording`, `ProjectLoading`, `MidiDevices` and
the surfaces, and liveness. Liveness stays with TLC, because the prover
has no support for fairness and ENABLED.

## Not modelled

* Parsing and writing of audio, midi and project formats, and peaks: sequential, without
  state that others share. The models have what the files hold.
* Mixer, oscillator, voices and envelopes of the sampler, mixing in the driver: sample
  arithmetic.
* Painting, fonts, the USB transfer of frames, the scrolling and swipes of grid and browser,
  the tabs of the settings popup but its midi tab and its latency, the virtual keyboard's
  layout: what they draw is no state of the program; of the views the models have which
  widgets there are, whose they are and what a gesture does.
* The pools of regular buffers and the ring of record midi buffers; data races inside a
  vector or pool, which the models take as single steps.
* Start-up and shutdown of the engine, the JACK calls of the drivers, the settings file, the
  registry of units, logging: run once, or only read.
* Build files, generated fonts and vendored code, `lv_conf.h` among them.

## Plan

1. Theorems: for recording, that a task has its action, then where a buffer is
(`NothingIsShared`); that `Heard` and `Left` of `MidiDevices` keep the order of a queue.
Passes that use `SelectSeq` get the `InOrder` of `Playback` first, which the provers can
reason about.
2. `BufferManager` in full: two producers and two consumers on the steps of `SPSCQueue`.
3. The surfaces with overlapping actions.

## Running

    tlc -workers 2 -config overlap.cfg MCControlEngine.tla
    tlc -workers 2 -config serial.cfg MCEditHistory.tla
    tlc -workers 2 -config edits.cfg MCUnitEdits.tla
    tlc -workers 2 -config loading.cfg MCProjectLoading.tla
    tlc -workers 2 -config order.cfg MCRenderPlan.tla
    tlc -workers 2 -config ring.cfg SPSCQueue.tla
    tlc -workers 2 -config takes.cfg MCTrackRecording.tla
    tlc -workers 2 -config latency.cfg AudioRecord.tla
    tlc -workers 2 -config devices.cfg MCMidiDevices.tla
    tlc -workers 2 -config dead_sleep.cfg MCMidiDevices.tla
    tlc -workers 2 -config playback.cfg MCPlayback.tla
    tlc -workers 2 -config surfaces.cfg MCSurfaces.tla
    tlapm ControlEngineProofs.tla
    tlapm EditHistoryProofs.tla
    tlapm RenderPlanProofs.tla
    tlapm SPSCQueueProofs.tla
    tlapm AudioRecordProofs.tla
    tlapm PlaybackProofs.tla
    tlapm UnitEditsProofs.tla
