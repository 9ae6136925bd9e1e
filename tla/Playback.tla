------------------------------ MODULE Playback ------------------------------
(***************************************************************************)
(* Playing the project (src/core/Timeline.cpp, Metronome.cpp, the actions  *)
(* of Actions/Timeline and Actions/Metronome, AudioUnit::playbackFiles,    *)
(* the part of RtEngine::processNextBlock that drives them, and the two    *)
(* drivers).  The interface reads the snapshot of the timeline and emits   *)
(* actions, the control thread sends their tasks and refreshes the         *)
(* snapshot, the real-time thread runs the tasks and then plays a block.   *)
(*                                                                         *)
(* A tempo stands for the frames of a quarter note that it gives.  The     *)
(* paused frame is left out: nothing calls resumePlay, so a play after a   *)
(* pause begins anew.                                                      *)
(***************************************************************************)
EXTENDS Integers, SequencesExt

CONSTANTS
  BlockSize,     \* frames in a block
  Clips,         \* clips the unit plays: where they start, and the frames of their file
  Tempos,        \* tempos the interface sets
  Sizes,         \* bar sizes: numerator and denominator
  SoundLength,   \* frames of a click
  FrameRange,    \* values of frame_t, an unsigned number
  Workloads      \* bounds of a behaviour, its first loop and tempos, the loops that are set

ASSUME PlaybackAssumption ==
  /\ BlockSize \in Nat \ {0} /\ SoundLength \in Nat /\ FrameRange \in Nat
  /\ Clips \subseteq [start : Nat, length : Nat]
  /\ Clips = {} \/ \E c \in Clips : \A d \in Clips : d.length <= c.length
  /\ Tempos \subseteq Nat \ {0}
  /\ Sizes \subseteq [numerator : Nat \ {0}, denominator : Nat \ {0}]
  /\ Workloads \subseteq
       [rolls : Nat, toggles : Nat, moves : Nat, tempi : Nat, clicks : Nat, heads : Nat, undos : Nat,
        inFlight : Nat, blocks : Nat, isLoop : BOOLEAN, loop : Nat \X Nat,
        starts : SUBSET Nat, ends : SUBSET Nat, tempos : SUBSET Tempos]
  /\ \A w \in Workloads : w.blocks * BlockSize < FrameRange

VARIABLES
  tl,            \* Timeline
  view,          \* TimelineView
  metro,         \* Metronome: mute, _lastTickFrame, _lastPlayedStep, _remainedSamplesToPlay
  actions, idx,  \* as in ControlEngine
  undoList, redoList,
  rtTasks,       \* the ring of tasks: the action each belongs to
  phase,         \* the real-time thread runs tasks, or goes on to play
  framesPassed,  \* counted by the driver
  block,         \* what was played last
  expected,      \* history: the position at which the next block should be played
  steady,        \* history: the tempo has not changed since play
  budget         \* what is left of the workload

listVars == <<actions, idx, undoList, redoList>>
engineVars == <<tl, metro, phase, framesPassed, block, expected, steady>>
vars == <<engineVars, view, listVars, rtTasks, budget>>

Wrap(x) == x % FrameRange

framesPerBeat(t) == (4 * t.bpm) \div t.size.denominator

\* TimelineView::update.
update(v, t) ==
  [v EXCEPT !.bpm = t.bpm, !.size = t.size, !.state = t.state, !.recording = t.recording,
            !.isLoop = t.isLoop, !.loopStart = t.loopStart, !.loopEnd = t.loopEnd,
            !.framesPerBeat = framesPerBeat(t)]

NoClick == [from |-> 0, to |-> 0]

Silent == [playing |-> FALSE, elapsed |-> 0, frames |-> {}, click |-> NoClick, beat |-> 0, length |-> 0, steady |-> FALSE]

Init ==
  /\ budget \in Workloads
  /\ \E bpm \in budget.tempos, size \in Sizes :
       tl = [bpm |-> bpm, size |-> size, state |-> "Stop", recording |-> FALSE, isLoop |-> budget.isLoop,
             start |-> 0, lastLoop |-> 0, loopStart |-> budget.loop[1], loopEnd |-> budget.loop[2],
             ongoing |-> FALSE, lastElapsed |-> 0]
  /\ view = update([bpm |-> 0, size |-> tl.size, state |-> "Stop", recording |-> FALSE, isLoop |-> FALSE,
                    loopStart |-> 0, loopEnd |-> 0, framesPerBeat |-> 0, playhead |-> 0], tl)
  /\ metro = [mute |-> TRUE, lastTick |-> 0, step |-> -1, remaining |-> 0]
  /\ actions = <<>> /\ idx = 1 /\ undoList = <<>> /\ redoList = <<>> /\ rtTasks = <<>>
  /\ phase = "tasks" /\ framesPassed = 0 /\ block = Silent /\ expected = 0 /\ steady = TRUE

(* ------------------------------ the interface ---------------------------- *)

NewAction(kind, value) ==
  [kind |-> kind, value |-> value, old |-> value, target |-> value,
   direction |-> "Forward", state |-> "Executing", step |-> 1, completed |-> FALSE]

Emit(what, kind, value) ==
  /\ Len(actions) < budget.inFlight /\ budget[what] > 0
  /\ budget' = [budget EXCEPT ![what] = @ - 1]
  /\ actions' = Append(actions, NewAction(kind, value))
  /\ UNCHANGED <<engineVars, view, idx, undoList, redoList, rtTasks>>

\* The play button pauses what the snapshot shows as playing.
EmitPlay == Emit("rolls", "ChangeTimelineState", IF view.state = "Play" THEN "Pause" ELSE "Play")

EmitStop == Emit("rolls", "ChangeTimelineState", "Stop")

EmitRecord == Emit("rolls", "ChangeTimelineState", IF view.recording THEN "StopRecord" ELSE "StartRecord")

EmitToggleLoop == Emit("toggles", "ToggleLoop", ~view.isLoop)

\* One end of the loop is set by its text, never past the other end; the other end is
\* the one the snapshot shows.
EmitLoopPosition ==
  \/ \E frame \in budget.starts : Emit("moves", "LoopPosition", <<IF frame > view.loopEnd THEN view.loopEnd ELSE frame, view.loopEnd>>)
  \/ \E frame \in budget.ends : Emit("moves", "LoopPosition", <<view.loopStart, IF frame < view.loopStart THEN view.loopStart ELSE frame>>)

\* A handle of the loop is dragged, past the other one if the user wants.
EmitLoopDrag ==
  \/ \E frame \in budget.starts : Emit("moves", "LoopPosition", <<frame, view.loopEnd>>)
  \/ \E frame \in budget.ends : Emit("moves", "LoopPosition", <<view.loopStart, frame>>)

EmitSignatureBpm ==
  \/ \E bpm \in Tempos : Emit("tempi", "ChangeSignatureBpm", [bpm |-> bpm, size |-> view.size])
  \/ \E size \in Sizes : Emit("tempi", "ChangeSignatureBpm", [bpm |-> view.bpm, size |-> size])

EmitToggleMetronome == Emit("clicks", "ToggleMetronome", 0)

\* A timer asks for the play head as long as the snapshot shows that it moves.
EmitUpdatePlayhead == view.state = "Play" /\ Emit("heads", "UpdatePlayhead", 0)

EmitUndo == Emit("undos", "Undo", 0)

EmitRedo == Emit("undos", "Redo", 0)

(* ---------------------------- the control thread ------------------------- *)

At(kind, state, step) ==
  /\ idx <= Len(actions)
  /\ actions[idx].kind = kind /\ actions[idx].state = state /\ actions[idx].step = step

Current == actions[idx]

Continue(a) == actions' = [actions EXCEPT ![idx] = a] /\ idx' = idx + 1

\* Step 1 of an action ends with its task in the ring, step 2 ends the action.
SendTask(a) == Continue([a EXCEPT !.state = "Waiting"]) /\ rtTasks' = Append(rtTasks, idx)

Finish == Continue([Current EXCEPT !.state = "Finished"]) /\ UNCHANGED rtTasks

Step == UNCHANGED <<engineVars, undoList, redoList, budget>>

ChangeTimelineState ==
  \/ At("ChangeTimelineState", "Executing", 1) /\ SendTask([Current EXCEPT !.target = Current.value]) /\ UNCHANGED view /\ Step
  \/ At("ChangeTimelineState", "Executing", 2) /\ view' = update(view, tl) /\ Finish /\ Step

ToggleLoop ==
  \/ At("ToggleLoop", "Executing", 1) /\ SendTask([Current EXCEPT !.target = Current.value]) /\ UNCHANGED view /\ Step
  \/ At("ToggleLoop", "Executing", 2) /\ view' = update(view, tl) /\ Finish /\ Step

\* An undo sets what the first execution found.
Edited(found) ==
  IF Current.direction = "Forward" THEN [Current EXCEPT !.old = found, !.target = Current.value]
  ELSE [Current EXCEPT !.target = Current.old]

LoopPosition ==
  \/ /\ At("LoopPosition", "Executing", 1)
     /\ SendTask(Edited(<<tl.loopStart, tl.loopEnd>>))
     /\ UNCHANGED view /\ Step
  \/ At("LoopPosition", "Executing", 2) /\ view' = update(view, tl) /\ Finish /\ Step

\* Mutant: an undo leaves the view at what the action set.
MutChangeSignatureBpm ==
  \/ /\ At("ChangeSignatureBpm", "Executing", 1)
     /\ SendTask(Edited([bpm |-> tl.bpm, size |-> tl.size]))
     /\ UNCHANGED view /\ Step
  \/ /\ At("ChangeSignatureBpm", "Executing", 2)
     /\ view' = [view EXCEPT !.bpm = Current.value.bpm, !.size = Current.value.size]
     /\ Finish /\ Step

\* Its step 2 sets the two values only, not the lengths that follow from them.
ChangeSignatureBpm ==
  \/ /\ At("ChangeSignatureBpm", "Executing", 1)
     /\ SendTask(Edited([bpm |-> tl.bpm, size |-> tl.size]))
     /\ UNCHANGED view /\ Step
  \/ /\ At("ChangeSignatureBpm", "Executing", 2)
     /\ view' = [view EXCEPT !.bpm = Current.target.bpm, !.size = Current.target.size]
     /\ Finish /\ Step

UpdatePlayhead ==
  \/ At("UpdatePlayhead", "Executing", 1) /\ SendTask(Current) /\ UNCHANGED view /\ Step
  \/ At("UpdatePlayhead", "Executing", 2) /\ view' = [view EXCEPT !.playhead = Current.target] /\ Finish /\ Step

ToggleMetronome ==
  \/ At("ToggleMetronome", "Executing", 1) /\ SendTask([Current EXCEPT !.target = ~metro.mute]) /\ UNCHANGED view /\ Step
  \/ At("ToggleMetronome", "Executing", 2) /\ Finish /\ UNCHANGED view /\ Step

CheckWaitingCondition ==
  /\ idx <= Len(actions) /\ Current.state = "Waiting"
  /\ Continue(IF Current.completed THEN [Current EXCEPT !.state = "Executing", !.step = 2] ELSE Current)
  /\ UNCHANGED <<view, rtTasks>> /\ Step

Replay(list, direction) ==
  /\ actions' = [actions EXCEPT ![idx].state = "Finished"] \o
       (IF list = <<>> THEN <<>>
        ELSE <<[Last(list) EXCEPT !.direction = direction, !.state = "Executing", !.step = 1, !.completed = FALSE]>>)
  /\ idx' = idx + 1
  /\ UNCHANGED <<engineVars, view, rtTasks, budget>>

Shorter(list) == IF list = <<>> THEN list ELSE Front(list)

Undo == At("Undo", "Executing", 1) /\ Replay(undoList, "Backward") /\ undoList' = Shorter(undoList) /\ UNCHANGED redoList

Redo == At("Redo", "Executing", 1) /\ Replay(redoList, "Forward") /\ redoList' = Shorter(redoList) /\ UNCHANGED undoList

\* A set of positions in their order: one sequence.
InOrder(S) ==
  {s \in [1..Cardinality(S) -> S] : ToSet(s) = S /\ \A i, j \in DOMAIN s : i < j => s[i] < s[j]}

\* What has finished leaves the list; what can be undone goes on one of two others.
EndPass ==
  /\ actions # <<>> /\ idx > Len(actions)
  /\ LET finished == {i \in DOMAIN actions : actions[i].state = "Finished"}
         done(direction) == {i \in finished : /\ actions[i].direction = direction
                                              /\ actions[i].kind \in {"LoopPosition", "ChangeSignatureBpm"}}
         at(places) == [j \in DOMAIN places |-> actions[places[j]]]
     IN \E kept \in InOrder(DOMAIN actions \ finished),
           forward \in InOrder(done("Forward")), backward \in InOrder(done("Backward")) :
          /\ actions' = at(kept)
          /\ rtTasks' = [t \in DOMAIN rtTasks |-> CHOOSE j \in DOMAIN kept : kept[j] = rtTasks[t]]
          /\ undoList' = undoList \o at(forward) /\ redoList' = redoList \o at(backward)
  /\ idx' = 1
  /\ UNCHANGED <<engineVars, view, budget>>

(* --------------------------- the real-time thread ------------------------ *)

\* Mutant: the loop that went on before is not forgotten.
Mutplay(t) == [t EXCEPT !.start = 0, !.lastLoop = 0, !.state = "Preparing"]

play(t) == [t EXCEPT !.start = 0, !.ongoing = FALSE, !.lastLoop = 0, !.state = "Preparing"]

setTimelineState(t, state) ==
  CASE state = "Play" -> play(t)
    [] state = "Pause" -> [t EXCEPT !.state = "Pause"]
    [] state = "Stop" -> [t EXCEPT !.recording = FALSE, !.start = 0, !.state = "Stop"]
    [] state = "StartRecord" -> [(IF t.recording \/ t.state = "Play" THEN t ELSE play(t)) EXCEPT !.recording = TRUE]
    [] state = "StopRecord" -> [t EXCEPT !.recording = FALSE]

\* Switched off, the loop leaves the play head where it is when it starts at zero, and
\* ahead of it by its start otherwise.
setLoopState(t, on) ==
  IF on THEN [t EXCEPT !.isLoop = TRUE, !.lastLoop = 0]
  ELSE [t EXCEPT !.isLoop = FALSE, !.start = Wrap(@ + t.lastLoop)]

prepareToPlay(m) == [m EXCEPT !.lastTick = 0, !.step = -1, !.remaining = 0]

\* The task of the action at the head of the ring.
RunTask ==
  /\ phase = "tasks" /\ rtTasks # <<>>
  /\ LET a == actions[Head(rtTasks)]
         starts == a.kind = "ChangeTimelineState"
                     /\ (a.target = "Play" \/ (a.target = "StartRecord" /\ ~tl.recording /\ tl.state # "Play"))
     IN /\ tl' = CASE a.kind = "ChangeTimelineState" -> setTimelineState(tl, a.target)
                   [] a.kind = "ToggleLoop" -> setLoopState(tl, a.target)
                   [] a.kind = "LoopPosition" -> [tl EXCEPT !.loopStart = a.target[1], !.loopEnd = a.target[2]]
                   [] a.kind = "ChangeSignatureBpm" -> [tl EXCEPT !.bpm = a.target.bpm, !.size = a.target.size]
                   [] OTHER -> tl
        /\ metro' = CASE starts -> prepareToPlay(metro)
                      [] a.kind = "ToggleMetronome" -> [metro EXCEPT !.mute = a.target]
                      [] OTHER -> metro
        /\ expected' = IF starts THEN 0 ELSE expected
        /\ steady' = IF starts THEN TRUE ELSE steady /\ framesPerBeat(tl') = framesPerBeat(tl)
        /\ actions' = [actions EXCEPT ![Head(rtTasks)].completed = TRUE,
                                      ![Head(rtTasks)].target = IF a.kind = "UpdatePlayhead" THEN tl.lastElapsed ELSE a.target]
        /\ rtTasks' = Tail(rtTasks)
  /\ UNCHANGED <<view, idx, undoList, redoList, phase, framesPassed, block, budget>>

NoMoreTasks ==
  /\ phase = "tasks" /\ rtTasks = <<>> /\ budget.blocks > 0
  /\ phase' = "play" /\ budget' = [budget EXCEPT !.blocks = @ - 1]
  /\ UNCHANGED <<tl, metro, framesPassed, block, expected, steady, view, listVars, rtTasks>>

\* Timeline::elapsed while it plays: how far it got, in the loop if there is one.
Position(t) ==
  LET since == Wrap(framesPassed - t.start)
  IN IF t.isLoop THEN Wrap(since - t.lastLoop + (IF t.ongoing THEN t.loopStart ELSE 0)) ELSE since

\* The end of the loop is in or right after this block.
EndsLoop(t) ==
  /\ t.isLoop
  /\ Position(t) > t.loopStart /\ Wrap(Position(t) + BlockSize) >= t.loopEnd

\* What elapsed() leaves behind.
Elapsed(t) ==
  CASE t.state = "Play" ->
         [t EXCEPT !.lastElapsed = Position(t),
                   !.lastLoop = IF EndsLoop(t) THEN Wrap(framesPassed - t.start + BlockSize) ELSE @,
                   !.ongoing = @ \/ EndsLoop(t)]
    [] t.state = "Preparing" ->
         [t EXCEPT !.lastElapsed = 0, !.state = "Play",
                   !.start = IF @ = 0 THEN framesPassed + BlockSize ELSE @]
    [] OTHER -> [t EXCEPT !.lastElapsed = 0]

\* Mutant: the start of a clip in the middle of a block is heard at the block's start.
Mutread(c, e) ==
  CASE e < c.start -> [write |-> 0, read |-> 0, count |-> BlockSize - (c.start - e)]
    [] e >= c.start /\ e + BlockSize > c.start + c.length ->
         [write |-> 0, read |-> e - c.start, count |-> c.start + c.length - e]
    [] OTHER -> [write |-> 0, read |-> e - c.start, count |-> BlockSize]

\* The three cases of playbackFiles: the beginning of a clip, its end, its middle.
read(c, e) ==
  CASE e < c.start -> [write |-> c.start - e, read |-> 0, count |-> BlockSize - (c.start - e)]
    [] e >= c.start /\ e + BlockSize > c.start + c.length ->
         [write |-> 0, read |-> e - c.start, count |-> c.start + c.length - e]
    [] OTHER -> [write |-> 0, read |-> e - c.start, count |-> BlockSize]

playbackFiles(e) ==
  LET heard(c) == {[clip |-> c, at |-> read(c, e).write + f, frame |-> read(c, e).read + f] : f \in 0..(read(c, e).count - 1)}
  IN UNION {heard(c) : c \in {d \in Clips : e + BlockSize > d.start /\ e <= d.start + d.length}}

\* Whether a beat falls into the block, and how far into it.
Due(m, t, e) == e = 0 \/ Wrap(e + BlockSize - m.lastTick) >= framesPerBeat(t)

Delay(m, t, e) == IF e = 0 THEN 0 ELSE Wrap(framesPerBeat(t) - Wrap(e - m.lastTick))

\* Mutant: a muted metronome does not count.
Mutcount(m, t, e) ==
  IF m.mute \/ ~Due(m, t, e) THEN m ELSE [m EXCEPT !.lastTick = Wrap(e + Delay(m, t, e))]

\* The count of Metronome::process goes on while it is muted.
count(m, t, e) ==
  IF Due(m, t, e) THEN [m EXCEPT !.lastTick = Wrap(e + Delay(m, t, e))] ELSE m

SamplesToPlay(m, t, e) ==
  IF Due(m, t, e)
  THEN IF SoundLength > BlockSize THEN Wrap(BlockSize - Delay(m, t, e)) ELSE SoundLength
  ELSE IF m.remaining > BlockSize THEN BlockSize ELSE m.remaining

\* The rest of Metronome::process: the step of the bar, the frames of the click, what
\* is left of it; a muted metronome keeps all three.
process(m, t, e) ==
  IF m.mute THEN count(m, t, e)
  ELSE [count(m, t, e) EXCEPT
          !.step = IF ~Due(m, t, e) THEN @ ELSE IF @ + 1 >= t.size.numerator THEN 0 ELSE @ + 1,
          !.remaining = Wrap((IF Due(m, t, e) THEN SoundLength ELSE @) - SamplesToPlay(m, t, e))]

Click(m, t, e) ==
  IF m.mute THEN NoClick
  ELSE [from |-> IF Due(m, t, e) THEN Delay(m, t, e) ELSE 0, to |-> SamplesToPlay(m, t, e)]

\* The second half of processNextBlock; it asks playing() before elapsed().
processNextBlock ==
  /\ phase = "play"
  /\ LET playing == tl.state = "Play"
         e == Elapsed(tl).lastElapsed
     IN /\ tl' = Elapsed(tl)
        /\ IF playing
           THEN /\ metro' = process(metro, tl, e)
                /\ steady' = (steady /\ ~(EndsLoop(tl) /\ tl.loopStart # 0))
                /\ block' = [playing |-> TRUE, elapsed |-> e, frames |-> playbackFiles(e), click |-> Click(metro, tl, e),
                             beat |-> metro'.lastTick, length |-> framesPerBeat(tl), steady |-> steady]
                /\ expected' = IF tl.isLoop /\ e > tl.loopStart /\ e + BlockSize >= tl.loopEnd
                               THEN tl.loopStart ELSE e + BlockSize
           ELSE block' = Silent /\ UNCHANGED <<metro, expected, steady>>
  /\ framesPassed' = framesPassed + BlockSize
  /\ phase' = "tasks"
  /\ UNCHANGED <<view, listVars, rtTasks, budget>>

Interface ==
  \/ EmitPlay \/ EmitStop \/ EmitRecord \/ EmitToggleLoop \/ EmitLoopPosition \/ EmitLoopDrag
  \/ EmitSignatureBpm \/ EmitToggleMetronome \/ EmitUpdatePlayhead \/ EmitUndo \/ EmitRedo

Control ==
  \/ ChangeTimelineState \/ ToggleLoop \/ LoopPosition \/ ChangeSignatureBpm \/ UpdatePlayhead
  \/ ToggleMetronome \/ CheckWaitingCondition \/ Undo \/ Redo \/ EndPass

RealTimeThread == RunTask \/ NoMoreTasks \/ processNextBlock

Next == Interface \/ Control \/ RealTimeThread

Spec == Init /\ [][Next]_vars

(* ---------- settings, assumed where a property is proved for all ---------- *)

\* A timeline that may play keeps the start of its loop, at zero when the loop is
\* moved or switched, and it is switched by one action at a time.
LoopsKeepTheirStart ==
  \A w \in Workloads :
    LET fromZero == w.loop[1] = 0 /\ w.starts = {}
    IN w.rolls = 0 \/ ((w.moves = 0 \/ fromZero) /\ (w.toggles = 0 \/ (fromZero /\ w.inFlight <= 1)))

\* Of two changes of the tempo under way the later one may be shown first.
TempoChangesAlone == \A w \in Workloads : w.tempi <= 1 \/ w.inFlight <= 1

\* A clip that begins in a block is read up to the block's end, however short it is.
ClipsFillABlock == \A c \in Clips : c.length >= BlockSize - 1

\* The metronome counts at most one beat in a block.
BeatsOutlastBlocks ==
  \A bpm \in Tempos, size \in Sizes : BlockSize < framesPerBeat([bpm |-> bpm, size |-> size])

(* ------------------------------- properties ------------------------------ *)

\* The play head moves on block by block and returns to the start of the loop at its
\* end, whatever is pressed meanwhile: loops switched on and off around zero, ends of
\* loops moved, pauses, stops, records; only a play takes it back.
PlayheadGoesOn ==
  [][phase = "play" /\ phase' = "tasks" /\ tl.state = "Play" => block'.elapsed = expected]_vars

LongestClip == CHOOSE n \in {c.length : c \in Clips} : \A c \in Clips : c.length <= n

\* Of every clip a block plays the frames that lie in it, each at its place.
ClipsSoundInPlace ==
  block.playing =>
    block.frames = {p \in [clip : Clips, at : 0..(BlockSize - 1), frame : 0..LongestClip] :
                      p.frame < p.clip.length /\ block.elapsed + p.at = p.clip.start + p.frame}

\* As long as the tempo stays and the loop starts at zero, the metronome has counted
\* the last beat before the end of the block, muted or not, in the loop or not, and
\* writes its click into the frames of the block ("ammount of frames to process ==
\* block size", inc/core/primitives/AudioContext.h).
BeatsAreCounted ==
  block.playing /\ block.steady =>
    LET end == block.elapsed + BlockSize
    IN /\ block.beat % block.length = 0 /\ block.beat <= end /\ end < block.beat + block.length
       /\ block.click.from < block.click.to => block.click.to <= BlockSize

\* When nothing is going on the snapshot shows the timeline; of a play that was just
\* pressed it may still show the preparation.
ViewFollowsTimeline ==
  actions = <<>> =>
    /\ view.bpm = tl.bpm /\ view.size = tl.size
    /\ view.isLoop = tl.isLoop /\ view.loopStart = tl.loopStart /\ view.loopEnd = tl.loopEnd
    /\ view.recording = tl.recording
    /\ view.state = tl.state \/ {view.state, tl.state} = {"Preparing", "Play"}

=============================================================================
