--------------------------- MODULE PlaybackProofs ---------------------------
(***************************************************************************)
(* What holds of Playback for every block size, clip, tempo and workload   *)
(* of the settings: the play head goes on, beats are counted, clips sound  *)
(* in their place and the snapshot follows the timeline.                   *)
(***************************************************************************)
EXTENDS Playback, SequenceLemmas, FiniteSetTheorems, TLAPS

(* --------------------------- types and lists ----------------------------- *)

Commands == {"Play", "Pause", "Stop", "StartRecord", "StopRecord"}

Undoables == {"LoopPosition", "ChangeSignatureBpm"}

Kinds == Undoables \cup {"ChangeTimelineState", "ToggleLoop", "UpdatePlayhead", "ToggleMetronome", "Undo", "Redo"}

States == {"Stop", "Preparing", "Play", "Pause"}

Loops == Nat \X Nat

TempoChanges == [bpm : Tempos, size : Sizes]

Values == Commands \cup BOOLEAN \cup Nat \cup Loops \cup TempoChanges

ActionRecords ==
  [kind : Kinds, value : Values, old : Values, target : Values, direction : {"Forward", "Backward"},
   state : {"Executing", "Waiting", "Finished"}, step : {1, 2}, completed : BOOLEAN]

Timelines ==
  [bpm : Tempos, size : Sizes, state : States, recording : BOOLEAN, isLoop : BOOLEAN,
   start : Nat, lastLoop : Nat, loopStart : Nat, loopEnd : Nat, ongoing : BOOLEAN, lastElapsed : Nat]

Views ==
  [bpm : Tempos, size : Sizes, state : States, recording : BOOLEAN, isLoop : BOOLEAN,
   loopStart : Nat, loopEnd : Nat, framesPerBeat : Nat, playhead : Values]

Budgets ==
  [rolls : Nat, toggles : Nat, moves : Nat, tempi : Nat, clicks : Nat, heads : Nat, undos : Nat,
   inFlight : Nat, blocks : Nat, isLoop : BOOLEAN, loop : Loops,
   starts : SUBSET Nat, ends : SUBSET Nat, tempos : SUBSET Tempos]

TypeInv ==
  /\ tl \in Timelines /\ view \in Views
  /\ metro \in [mute : Values, lastTick : Nat, step : Int, remaining : Nat]
  /\ actions \in Seq(ActionRecords) /\ undoList \in Seq(ActionRecords) /\ redoList \in Seq(ActionRecords)
  /\ rtTasks \in Seq(Nat) /\ idx \in Nat \ {0}
  /\ phase \in {"tasks", "play"} /\ framesPassed \in Nat
  /\ expected \in Nat /\ steady \in BOOLEAN
  /\ budget \in Budgets

\* The values of an action are of its kind.
Fits(a) ==
  /\ a.kind = "ChangeTimelineState" => a.value \in Commands /\ a.target \in Commands
  /\ a.kind = "ToggleLoop" => a.value \in BOOLEAN /\ a.target \in BOOLEAN
  /\ a.kind = "LoopPosition" => a.value \in Loops /\ a.old \in Loops /\ a.target \in Loops
  /\ a.kind = "ChangeSignatureBpm" =>
       a.value \in TempoChanges /\ a.old \in TempoChanges /\ a.target \in TempoChanges

\* The ring holds an action until its task has run, once; the second step of an
\* action follows its task.
RingInv ==
  /\ \A i \in 1..Len(actions) :
       /\ Fits(actions[i])
       /\ actions[i].step = 2 => actions[i].completed
       /\ actions[i].state = "Executing" /\ actions[i].step = 1 => ~actions[i].completed
  /\ \A i \in 1..Len(undoList) : Fits(undoList[i]) /\ undoList[i].kind \in Undoables
  /\ \A i \in 1..Len(redoList) : Fits(redoList[i]) /\ redoList[i].kind \in Undoables
  /\ \A t \in 1..Len(rtTasks) :
       /\ rtTasks[t] \in 1..Len(actions)
       /\ actions[rtTasks[t]].state = "Waiting" /\ ~actions[rtTasks[t]].completed
  /\ \A t, u \in 1..Len(rtTasks) : rtTasks[t] = rtTasks[u] => t = u

\* The driver never counts up to the end of its numbers.
FramesInv == framesPassed + budget.blocks * BlockSize + (IF phase = "play" THEN BlockSize ELSE 0) < FrameRange

(* ----------------------- changes of the tempo ---------------------------- *)

Has(list, kind) == \E i \in 1..Len(list) : list[i].kind = kind

AtMostOne(list, kind) == \A i, j \in 1..Len(list) : list[i].kind = kind /\ list[j].kind = kind => i = j

\* One action under way, or a finished undo or redo and the one that it restarted.
OneAction ==
  \/ Len(actions) <= 1
  \/ /\ Len(actions) = 2
     /\ actions[1].kind \in {"Undo", "Redo"} /\ actions[1].state = "Finished"
     /\ actions[2].kind \in Undoables

Alone == budget.inFlight <= 1 /\ OneAction

\* There is one change of the tempo, wherever it is.
OneTempo ==
  LET tempo(list) == Has(list, "ChangeSignatureBpm")
  IN /\ AtMostOne(actions, "ChangeSignatureBpm")
     /\ AtMostOne(undoList, "ChangeSignatureBpm")
     /\ AtMostOne(redoList, "ChangeSignatureBpm")
     /\ ~(tempo(actions) /\ tempo(undoList)) /\ ~(tempo(actions) /\ tempo(redoList))
     /\ ~(tempo(undoList) /\ tempo(redoList))
     /\ budget.tempi <= 1
     /\ budget.tempi = 1 => ~tempo(actions) /\ ~tempo(undoList) /\ ~tempo(redoList)

SerialInv == Alone \/ OneTempo

(* ----------------------------- the snapshot ------------------------------ *)

\* The task of an action has run and the snapshot may not show it yet.
Unshown(a) == a.completed /\ a.state # "Finished"

Tempo(t) == [bpm |-> t.bpm, size |-> t.size]

TempoShown ==
  /\ \A i \in 1..Len(actions) :
       actions[i].kind = "ChangeSignatureBpm" /\ Unshown(actions[i]) =>
         actions[i].target = Tempo(tl)
  /\ \/ view.bpm = tl.bpm /\ view.size = tl.size
     \/ \E i \in 1..Len(actions) : actions[i].kind = "ChangeSignatureBpm" /\ Unshown(actions[i])

Turning == {"ChangeTimelineState", "ToggleLoop", "LoopPosition"}

Shown ==
  /\ view.isLoop = tl.isLoop /\ view.recording = tl.recording
  /\ view.loopStart = tl.loopStart /\ view.loopEnd = tl.loopEnd
  /\ view.state = tl.state \/ (view.state = "Preparing" /\ tl.state = "Play")

TimelineShown == Shown \/ \E i \in 1..Len(actions) : actions[i].kind \in Turning /\ Unshown(actions[i])

(* ---------------------------- the play head ------------------------------ *)

\* All actions, under way or to be undone or redone.
Everything ==
  {actions[i] : i \in 1..Len(actions)} \cup {undoList[i] : i \in 1..Len(undoList)}
    \cup {redoList[i] : i \in 1..Len(redoList)}

Never(what, kind) == budget[what] = 0 /\ \A x \in Everything : x.kind # kind

\* Nothing ever plays.
NeverRolls == Never("rolls", "ChangeTimelineState") /\ tl.state = "Stop"

\* The loop starts at zero, now and after whatever is done or undone.
FromZero ==
  /\ tl.loopStart = 0 /\ view.loopStart = 0 /\ budget.starts = {}
  /\ \A x \in Everything : x.kind = "LoopPosition" => x.value[1] = 0 /\ x.old[1] = 0 /\ x.target[1] = 0

NeverMoves == Never("moves", "LoopPosition")

NeverToggles == Never("toggles", "ToggleLoop")

\* A toggle under way changes the loop.
Toggles ==
  \A i \in 1..Len(actions) :
    actions[i].kind = "ToggleLoop" /\ ~actions[i].completed =>
      /\ actions[i].value = ~tl.isLoop
      /\ actions[i].state = "Waiting" => actions[i].target = actions[i].value

Since == framesPassed - tl.start

\* Where the next block is to be played, from what the timeline keeps.
PlayInv ==
  /\ tl.ongoing => tl.loopStart <= tl.lastLoop
  /\ tl.state = "Play" =>
       /\ tl.start <= framesPassed
       /\ tl.isLoop => tl.lastLoop <= Since
       /\ expected = IF tl.isLoop THEN Since - tl.lastLoop + (IF tl.ongoing THEN tl.loopStart ELSE 0) ELSE Since
  /\ tl.state = "Preparing" => expected = 0 /\ tl.start = 0 /\ tl.lastLoop = 0 /\ ~tl.ongoing

LoopInv ==
  \/ NeverRolls
  \/ /\ NeverMoves \/ FromZero
     /\ NeverToggles \/ (FromZero /\ Alone /\ Toggles)
     /\ PlayInv

(* ------------------------------- the beats ------------------------------- *)

\* The last beat that was counted is the last one before the next block.
BeatInv ==
  tl.state = "Play" /\ steady /\ expected # 0 =>
    /\ metro.lastTick % framesPerBeat(tl) = 0
    /\ metro.lastTick <= expected /\ expected < metro.lastTick + framesPerBeat(tl)

(* ------------------------------ arithmetic ------------------------------- *)

\* Numbers below the range of frames are kept as they are.
LEMMA WrapSmall ==
  ASSUME NEW x \in Nat, FrameRange \in Nat, x < FrameRange
  PROVE  Wrap(x) = x
BY DEF Wrap

LEMMA WrapNat ==
  ASSUME NEW x \in Int, FrameRange \in Nat \ {0}
  PROVE  Wrap(x) \in Nat
BY DEF Wrap

\* One beat after a multiple of a beat is the next multiple.
LEMMA NextBeat ==
  ASSUME NEW n \in Nat \ {0}, NEW x \in Nat, x % n = 0
  PROVE  (x + n) % n = 0
<1> DEFINE q == x \div n
<1>1. q \in Nat /\ x + n = (q + 1) * n
  OBVIOUS
<1>2. ASSUME NEW k \in Nat
      PROVE  (k * n) % n = 0
  OBVIOUS
<1>3. ((q + 1) * n) % n = 0
  BY <1>1, <1>2
<1> QED
  BY <1>1, <1>3

LEMMA BeatLength ==
  ASSUME PlaybackAssumption, NEW t \in Timelines
  PROVE  /\ framesPerBeat(t) \in Nat
         /\ BeatsOutlastBlocks => BlockSize < framesPerBeat(t)
<1> DEFINE f(b, s) == (4 * b) \div s.denominator
<1>1. /\ t.bpm \in Tempos /\ t.size \in Sizes
      /\ t.bpm \in Nat /\ t.size.denominator \in Nat \ {0}
  BY DEF PlaybackAssumption, Timelines
<1>2. framesPerBeat(t) = f(t.bpm, t.size)
  BY DEF framesPerBeat
<1>3. f(t.bpm, t.size) \in Nat
  BY <1>1
<1>4. ASSUME BeatsOutlastBlocks
      PROVE  BlockSize < f(t.bpm, t.size)
  BY <1>1, <1>4 DEF BeatsOutlastBlocks, framesPerBeat
<1> QED
  BY <1>2, <1>3, <1>4

(* ------------------------- what a step may be ---------------------------- *)

\* What the interface asks for.
Asked(what, kind, value) ==
  \/ kind = "ChangeTimelineState" /\ what = "rolls" /\ value \in Commands
  \/ kind = "ToggleLoop" /\ what = "toggles" /\ value = ~view.isLoop
  \/ /\ kind = "LoopPosition" /\ what = "moves" /\ value \in Loops
     /\ budget.starts = {} => value[1] = view.loopStart
  \/ kind = "ChangeSignatureBpm" /\ what = "tempi" /\ value \in TempoChanges
  \/ kind \in {"ToggleMetronome", "UpdatePlayhead", "Undo", "Redo"} /\ what \in {"clicks", "heads", "undos"} /\ value = 0

Asks ==
  \E what \in {"rolls", "toggles", "moves", "tempi", "clicks", "heads", "undos"}, kind \in Kinds, value \in Values :
    Asked(what, kind, value) /\ Emit(what, kind, value)

LEMMA InterfaceAsks ==
  ASSUME PlaybackAssumption, TypeInv, Interface
  PROVE  Asks
<1>1. /\ view.loopStart \in Nat /\ view.loopEnd \in Nat /\ view.isLoop \in BOOLEAN
      /\ view.bpm \in Tempos /\ view.size \in Sizes
      /\ budget.starts \subseteq Nat /\ budget.ends \subseteq Nat
  BY DEF TypeInv, Views, Budgets
<1>2. ASSUME NEW w, NEW k, NEW v, Asked(w, k, v), Emit(w, k, v),
             w \in {"rolls", "toggles", "moves", "tempi", "clicks", "heads", "undos"}, k \in Kinds, v \in Values
      PROVE  Asks
  BY <1>2 DEF Asks
<1>3. CASE EmitPlay \/ EmitStop \/ EmitRecord
  <2>1. PICK v \in Commands : Emit("rolls", "ChangeTimelineState", v)
    BY <1>3 DEF EmitPlay, EmitStop, EmitRecord, Commands
  <2> QED
    BY <1>2, <2>1 DEF Asked, Kinds, Values
<1>4. CASE EmitToggleLoop
  <2> DEFINE v == ~view.isLoop
  <2>1. v \in BOOLEAN
    OBVIOUS
  <2>2. v \in Values
    BY <2>1 DEF Values
  <2>3. Emit("toggles", "ToggleLoop", v)
    BY <1>4 DEF EmitToggleLoop
  <2>4. Asked("toggles", "ToggleLoop", v)
    BY DEF Asked
  <2> HIDE DEF v
  <2> QED
    BY <1>2, <2>2, <2>3, <2>4 DEF Kinds
<1>5. CASE EmitLoopPosition \/ EmitLoopDrag
  <2>1. PICK v : /\ Emit("moves", "LoopPosition", v) /\ v \in Loops
                 /\ budget.starts = {} => v[1] = view.loopStart
    <3> DEFINE P(v) == /\ Emit("moves", "LoopPosition", v) /\ v \in Loops
                       /\ budget.starts = {} => v[1] = view.loopStart
    <3>1. ASSUME NEW a \in Nat, NEW b \in Nat, Emit("moves", "LoopPosition", <<a, b>>),
                 budget.starts = {} => a = view.loopStart
          PROVE  P(<<a, b>>)
      BY <3>1 DEF Loops
    <3> HIDE DEF P
    <3>2. CASE EmitLoopPosition
      <4>1. CASE \E frame \in budget.starts :
                    Emit("moves", "LoopPosition", <<IF frame > view.loopEnd THEN view.loopEnd ELSE frame, view.loopEnd>>)
        <5>1. PICK frame \in budget.starts :
                    Emit("moves", "LoopPosition", <<IF frame > view.loopEnd THEN view.loopEnd ELSE frame, view.loopEnd>>)
          BY <4>1
        <5> DEFINE a == IF frame > view.loopEnd THEN view.loopEnd ELSE frame
        <5>2. a \in Nat /\ budget.starts # {}
          BY <1>1
        <5>3. P(<<a, view.loopEnd>>)
          BY <5>1, <5>2, <1>1, <3>1
        <5> QED
          BY <5>3 DEF P
      <4>2. CASE \E frame \in budget.ends :
                    Emit("moves", "LoopPosition", <<view.loopStart, IF frame < view.loopStart THEN view.loopStart ELSE frame>>)
        <5>1. PICK frame \in budget.ends :
                    Emit("moves", "LoopPosition", <<view.loopStart, IF frame < view.loopStart THEN view.loopStart ELSE frame>>)
          BY <4>2
        <5> DEFINE b == IF frame < view.loopStart THEN view.loopStart ELSE frame
        <5>2. b \in Nat
          BY <1>1
        <5>3. P(<<view.loopStart, b>>)
          BY <5>1, <5>2, <1>1, <3>1
        <5> QED
          BY <5>3 DEF P
      <4> QED
        BY <3>2, <4>1, <4>2 DEF EmitLoopPosition
    <3>3. CASE EmitLoopDrag
      <4>1. CASE \E frame \in budget.starts : Emit("moves", "LoopPosition", <<frame, view.loopEnd>>)
        <5>1. PICK frame \in budget.starts : P(<<frame, view.loopEnd>>)
          BY <4>1, <1>1, <3>1
        <5> QED
          BY <5>1 DEF P
      <4>2. CASE \E frame \in budget.ends : Emit("moves", "LoopPosition", <<view.loopStart, frame>>)
        <5>1. PICK frame \in budget.ends : P(<<view.loopStart, frame>>)
          BY <4>2, <1>1, <3>1
        <5> QED
          BY <5>1 DEF P
      <4> QED
        BY <3>3, <4>1, <4>2 DEF EmitLoopDrag
    <3> QED
      BY <1>5, <3>2, <3>3
  <2> QED
    BY <1>2, <2>1 DEF Asked, Kinds, Undoables, Values
<1>6. CASE EmitSignatureBpm
  <2>1. PICK v \in TempoChanges : Emit("tempi", "ChangeSignatureBpm", v)
    BY <1>6, <1>1 DEF EmitSignatureBpm, TempoChanges
  <2> QED
    BY <1>2, <2>1 DEF Asked, Kinds, Undoables, Values
<1>7. CASE EmitToggleMetronome
  BY <1>2, <1>7 DEF EmitToggleMetronome, Asked, Kinds, Values
<1>8. CASE EmitUpdatePlayhead
  BY <1>2, <1>8 DEF EmitUpdatePlayhead, Asked, Kinds, Values
<1>9. CASE EmitUndo \/ EmitRedo
  BY <1>2, <1>9 DEF EmitUndo, EmitRedo, Asked, Kinds, Values
<1> QED
  BY <1>3, <1>4, <1>5, <1>6, <1>7, <1>8, <1>9 DEF Interface

\* The first step of an action sends its task.
Sends ==
  /\ idx <= Len(actions) /\ Current.state = "Executing" /\ Current.step = 1 /\ Current.kind \notin {"Undo", "Redo"}
  /\ \E a \in ActionRecords :
       /\ a.kind = Current.kind /\ a.value = Current.value /\ a.direction = Current.direction
       /\ a.state = "Waiting" /\ a.step = 1 /\ a.completed = Current.completed
       /\ Fits(a)
       /\ a.kind = "ToggleLoop" => a.target = a.value
       /\ a.kind = "LoopPosition" =>
            {a.old, a.target} \subseteq {Current.value, Current.old, <<tl.loopStart, tl.loopEnd>>}
       /\ Continue(a)
  /\ rtTasks' = Append(rtTasks, idx)
  /\ UNCHANGED view /\ Step

\* The second step of an action brings the snapshot up to date.
Shows ==
  /\ idx <= Len(actions) /\ Current.state = "Executing" /\ Current.step = 2
  /\ \/ /\ Current.kind \in {"ChangeTimelineState", "ToggleLoop", "LoopPosition"}
        /\ view' = update(view, tl)
     \/ /\ Current.kind = "ChangeSignatureBpm"
        /\ view' = [view EXCEPT !.bpm = Current.target.bpm, !.size = Current.target.size]
     \/ Current.kind = "UpdatePlayhead" /\ view' = [view EXCEPT !.playhead = Current.target]
     \/ Current.kind = "ToggleMetronome" /\ UNCHANGED view
  /\ Finish /\ Step

\* An action found waiting.
Checks ==
  /\ idx <= Len(actions) /\ Current.state = "Waiting"
  /\ \E a \in ActionRecords :
       /\ a = Current \/ (Current.completed /\ a = [Current EXCEPT !.state = "Executing", !.step = 2])
       /\ Continue(a)
  /\ UNCHANGED <<view, rtTasks>> /\ Step

\* Undo and redo start the newest action of a list again.
Restarts ==
  /\ idx <= Len(actions) /\ Current.state = "Executing" /\ Current.step = 1 /\ Current.kind \in {"Undo", "Redo"}
  /\ \/ Replay(undoList, "Backward") /\ undoList' = Shorter(undoList) /\ UNCHANGED redoList
     \/ Replay(redoList, "Forward") /\ redoList' = Shorter(redoList) /\ UNCHANGED undoList

LEMMA CurrentTyped ==
  ASSUME TypeInv, RingInv, idx <= Len(actions)
  PROVE  /\ idx \in 1..Len(actions) /\ Current \in ActionRecords
         /\ Fits(Current)
         /\ Current.step = 2 => Current.completed
         /\ Current.state = "Executing" /\ Current.step = 1 => ~Current.completed
<1>1. idx \in 1..Len(actions)
  BY DEF TypeInv
<1> QED
  BY <1>1 DEF TypeInv, RingInv, Current

LEMMA ControlSteps ==
  ASSUME PlaybackAssumption, TypeInv, RingInv, Control
  PROVE  Sends \/ Shows \/ Checks \/ Restarts \/ EndPass
<1> DEFINE sent(a) == [a EXCEPT !.state = "Waiting"]
           found == <<tl.loopStart, tl.loopEnd>>
           tempo == [bpm |-> tl.bpm, size |-> tl.size]
<1>1. ASSUME NEW k, NEW n, At(k, "Executing", n)
      PROVE  /\ idx <= Len(actions) /\ Current.kind = k /\ Current.state = "Executing" /\ Current.step = n
             /\ Current \in ActionRecords /\ Fits(Current)
  BY <1>1, CurrentTyped DEF At, Current
<1>2. ASSUME NEW a \in ActionRecords, At(Current.kind, "Executing", 1), SendTask(a), UNCHANGED view, Step,
             Current.kind \notin {"Undo", "Redo"},
             a.kind = Current.kind, a.value = Current.value, a.direction = Current.direction,
             a.step = 1, a.completed = Current.completed, Fits(a),
             a.kind = "ToggleLoop" => a.target = a.value,
             a.kind = "LoopPosition" => {a.old, a.target} \subseteq {Current.value, Current.old, found}
      PROVE  Sends
  <2>1. /\ sent(a) \in ActionRecords
        /\ sent(a).kind = a.kind /\ sent(a).value = a.value /\ sent(a).direction = a.direction
        /\ sent(a).old = a.old /\ sent(a).target = a.target
        /\ sent(a).state = "Waiting" /\ sent(a).step = 1 /\ sent(a).completed = a.completed
    BY <1>2 DEF ActionRecords
  <2>2. Fits(sent(a))
    BY <1>2, <2>1 DEF Fits
  <2>3. Continue(sent(a)) /\ rtTasks' = Append(rtTasks, idx)
    BY <1>2 DEF SendTask
  <2>4. idx <= Len(actions) /\ Current.state = "Executing" /\ Current.step = 1
    BY <1>2, <1>1
  <2> HIDE DEF sent
  <2> QED
    BY <1>2, <2>1, <2>2, <2>3, <2>4 DEF Sends
<1>3. /\ found \in Loops /\ found \in Values /\ tempo \in TempoChanges /\ tempo \in Values
      /\ tl.lastElapsed \in Values
  BY DEF TypeInv, Timelines, Loops, TempoChanges, Values
<1> HIDE DEF sent, found, tempo
<1>4. CASE ChangeTimelineState \/ ToggleLoop
  <2>1. CASE \E k \in {"ChangeTimelineState", "ToggleLoop"} :
               At(k, "Executing", 1) /\ SendTask([Current EXCEPT !.target = Current.value]) /\ UNCHANGED view /\ Step
    <3>1. PICK k \in {"ChangeTimelineState", "ToggleLoop"} :
               At(k, "Executing", 1) /\ SendTask([Current EXCEPT !.target = Current.value]) /\ UNCHANGED view /\ Step
      BY <2>1
    <3>2. /\ idx <= Len(actions) /\ Current.kind = k /\ Current.step = 1
          /\ Current \in ActionRecords /\ Fits(Current)
      BY <3>1, <1>1
    <3> DEFINE a == [Current EXCEPT !.target = Current.value]
    <3>3. /\ a \in ActionRecords /\ a.kind = Current.kind /\ a.value = Current.value /\ a.target = a.value
          /\ a.direction = Current.direction /\ a.step = 1 /\ a.completed = Current.completed
      BY <3>2 DEF ActionRecords
    <3>4. Fits(a)
      BY <3>2, <3>3 DEF Fits
    <3> HIDE DEF a
    <3> QED
      BY <1>2, <3>1, <3>2, <3>3, <3>4 DEF a
  <2>2. CASE \E k \in {"ChangeTimelineState", "ToggleLoop"} :
               At(k, "Executing", 2) /\ view' = update(view, tl) /\ Finish /\ Step
    BY <2>2, <1>1 DEF Shows
  <2> QED
    BY <1>4, <2>1, <2>2 DEF ChangeTimelineState, ToggleLoop
<1>5. CASE LoopPosition \/ ChangeSignatureBpm
  <2>1. ASSUME NEW k \in {"LoopPosition", "ChangeSignatureBpm"}, NEW f,
               f = IF k = "LoopPosition" THEN found ELSE tempo,
               At(k, "Executing", 1), SendTask(Edited(f)), UNCHANGED view, Step
        PROVE  Sends
    <3>1. /\ idx <= Len(actions) /\ Current.kind = k /\ Current.step = 1
          /\ Current \in ActionRecords /\ Fits(Current)
      BY <2>1, <1>1
    <3>2. f \in Values
      BY <2>1, <1>3
    <3> DEFINE a == Edited(f)
    <3>3. /\ a \in ActionRecords /\ a.kind = Current.kind /\ a.value = Current.value
          /\ a.direction = Current.direction /\ a.step = 1 /\ a.completed = Current.completed
          /\ {a.old, a.target} \subseteq {Current.value, Current.old, f}
      BY <3>1, <3>2 DEF Edited, ActionRecords
    <3>4. Fits(a)
      BY <3>1, <3>3, <2>1, <1>3 DEF Fits
    <3> HIDE DEF a
    <3>5. At(Current.kind, "Executing", 1) /\ SendTask(a)
      BY <2>1, <3>1 DEF a
    <3> QED
      BY <1>2, <2>1, <3>1, <3>3, <3>4, <3>5
  <2>2. CASE At("LoopPosition", "Executing", 1)
    BY <1>5, <2>2, <2>1 DEF LoopPosition, ChangeSignatureBpm, At, found
  <2>3. CASE At("ChangeSignatureBpm", "Executing", 1)
    BY <1>5, <2>3, <2>1 DEF LoopPosition, ChangeSignatureBpm, At, tempo
  <2>4. CASE At("LoopPosition", "Executing", 2) /\ view' = update(view, tl) /\ Finish /\ Step
    BY <2>4, <1>1 DEF Shows
  <2>5. CASE /\ At("ChangeSignatureBpm", "Executing", 2)
             /\ view' = [view EXCEPT !.bpm = Current.target.bpm, !.size = Current.target.size]
             /\ Finish /\ Step
    BY <2>5, <1>1 DEF Shows
  <2> QED
    BY <1>5, <2>2, <2>3, <2>4, <2>5 DEF LoopPosition, ChangeSignatureBpm
<1>6. CASE UpdatePlayhead
  <2>1. CASE At("UpdatePlayhead", "Executing", 1) /\ SendTask(Current) /\ UNCHANGED view /\ Step
    BY <2>1, <1>1, <1>2
  <2>2. CASE At("UpdatePlayhead", "Executing", 2) /\ view' = [view EXCEPT !.playhead = Current.target] /\ Finish /\ Step
    BY <2>2, <1>1 DEF Shows
  <2> QED
    BY <1>6, <2>1, <2>2 DEF UpdatePlayhead
<1>7. CASE ToggleMetronome
  <2>1. CASE At("ToggleMetronome", "Executing", 1) /\ SendTask([Current EXCEPT !.target = ~metro.mute]) /\ UNCHANGED view /\ Step
    <3>1. /\ idx <= Len(actions) /\ Current.kind = "ToggleMetronome" /\ Current.step = 1
          /\ Current \in ActionRecords /\ Fits(Current)
      BY <2>1, <1>1
    <3> DEFINE on == ~metro.mute
               a == [Current EXCEPT !.target = on]
    <3>2. on \in BOOLEAN
      OBVIOUS
    <3>3. on \in Values
      BY <3>2 DEF Values
    <3> HIDE DEF on
    <3>4. /\ a \in ActionRecords /\ a.kind = Current.kind /\ a.value = Current.value
          /\ a.direction = Current.direction /\ a.step = 1 /\ a.completed = Current.completed
      BY <3>1, <3>3 DEF ActionRecords
    <3>5. Fits(a)
      BY <3>1, <3>4 DEF Fits
    <3>6. SendTask(a)
      BY <2>1 DEF on
    <3> HIDE DEF a
    <3> QED
      BY <1>2, <2>1, <3>1, <3>4, <3>5, <3>6
  <2>2. CASE At("ToggleMetronome", "Executing", 2) /\ Finish /\ UNCHANGED view /\ Step
    BY <2>2, <1>1 DEF Shows
  <2> QED
    BY <1>7, <2>1, <2>2 DEF ToggleMetronome
<1>8. CASE CheckWaitingCondition
  <2>1. /\ idx <= Len(actions) /\ Current.state = "Waiting" /\ Current \in ActionRecords
    BY <1>8, CurrentTyped DEF CheckWaitingCondition
  <2> DEFINE a == IF Current.completed THEN [Current EXCEPT !.state = "Executing", !.step = 2] ELSE Current
  <2>2. a \in ActionRecords
    BY <2>1 DEF ActionRecords
  <2> QED
    BY <1>8, <2>1, <2>2 DEF CheckWaitingCondition, Checks
<1>9. CASE Undo \/ Redo
  BY <1>9, <1>1 DEF Undo, Redo, Restarts
<1> QED
  BY <1>4, <1>5, <1>6, <1>7, <1>8, <1>9 DEF Control

(* ---------------------- what the end of a pass does ---------------------- *)

LEMMA InOrderElements ==
  ASSUME NEW n \in Nat, NEW S \in SUBSET (1..n), NEW s \in InOrder(S)
  PROVE  /\ s \in Seq(1..n)
         /\ DOMAIN s = 1..Len(s)
         /\ \A i \in 1..Len(s) : s[i] \in S
         /\ \A e \in S : \E i \in 1..Len(s) : s[i] = e
         /\ \A i, j \in 1..Len(s) : i < j => s[i] < s[j]
         /\ \A i, j \in 1..Len(s) : s[i] = s[j] => i = j
<1> DEFINE c == Cardinality(S)
<1>1. c \in Nat
  <2>1. IsFiniteSet(1..n)
    BY FS_Interval
  <2>2. IsFiniteSet(S)
    BY <2>1, FS_Subset
  <2> QED
    BY <2>2, FS_CardinalityType
<1>2. s \in [1..c -> S] /\ ToSet(s) = S /\ \A i, j \in DOMAIN s : i < j => s[i] < s[j]
  BY DEF InOrder
<1> HIDE DEF c
<1>3. s \in Seq(S) /\ s \in Seq(1..n) /\ DOMAIN s = 1..Len(s) /\ Len(s) \in Nat
  <2>1. s \in [1..c -> 1..n]
    BY <1>2
  <2> QED
    BY <1>1, <1>2, <2>1
<1>4. \A i \in 1..Len(s) : s[i] \in S /\ s[i] \in 1..n
  BY <1>2, <1>3
<1>5. \A e \in S : \E i \in 1..Len(s) : s[i] = e
  BY <1>2, <1>3, ElementsAtPositions
<1>6. \A i, j \in 1..Len(s) : s[i] = s[j] => i = j
  <2>1. \A i, j \in 1..Len(s) : i < j => s[i] < s[j] /\ s[i] \in Int /\ s[j] \in Int
    BY <1>2, <1>3, <1>4
  <2> QED
    BY <2>1, <1>3
<1> QED
  BY <1>2, <1>3, <1>4, <1>5, <1>6

\* A list grows by finished actions, each once.
GrowsBy(list, longer, places) ==
  /\ longer \in Seq(ActionRecords)
  /\ Len(longer) = Len(list) + Len(places)
  /\ \A i \in 1..Len(list) : longer[i] = list[i]
  /\ \A i \in 1..Len(places) :
       /\ places[i] \in 1..Len(actions)
       /\ longer[Len(list) + i] = actions[places[i]]
       /\ actions[places[i]].state = "Finished" /\ actions[places[i]].kind \in Undoables
  /\ \A i, j \in 1..Len(places) : places[i] = places[j] => i = j

Keeps(kept) ==
  /\ actions' \in Seq(ActionRecords) /\ rtTasks' \in Seq(Nat)
  /\ Len(actions') = Len(kept)
  /\ \A j \in 1..Len(kept) :
       /\ kept[j] \in 1..Len(actions) /\ actions[kept[j]].state # "Finished"
       /\ actions'[j] = actions[kept[j]]
  /\ \A i \in 1..Len(actions) : actions[i].state # "Finished" => \E j \in 1..Len(kept) : kept[j] = i
  /\ \A i, j \in 1..Len(kept) : kept[i] = kept[j] => i = j
  /\ Len(rtTasks') = Len(rtTasks)
  /\ \A t \in 1..Len(rtTasks) : rtTasks'[t] \in 1..Len(kept) /\ kept[rtTasks'[t]] = rtTasks[t]

PassEnds ==
  /\ idx' = 1
  /\ UNCHANGED <<engineVars, view, budget>>
  /\ \E kept \in Seq(Nat) : Keeps(kept)
  /\ \E forward \in Seq(Nat), backward \in Seq(Nat) :
       /\ GrowsBy(undoList, undoList', forward) /\ GrowsBy(redoList, redoList', backward)
       /\ \A i \in 1..Len(forward), j \in 1..Len(backward) : forward[i] # backward[j]

LEMMA EndPassEnds ==
  ASSUME TypeInv, RingInv, EndPass
  PROVE  PassEnds
<1> DEFINE n == Len(actions)
           finished == {i \in DOMAIN actions : actions[i].state = "Finished"}
           done(direction) == {i \in finished : /\ actions[i].direction = direction
                                                /\ actions[i].kind \in {"LoopPosition", "ChangeSignatureBpm"}}
           at(places) == [j \in DOMAIN places |-> actions[places[j]]]
<1>1. PICK kept \in InOrder(DOMAIN actions \ finished),
           forward \in InOrder(done("Forward")), backward \in InOrder(done("Backward")) :
          /\ actions' = at(kept)
          /\ rtTasks' = [t \in DOMAIN rtTasks |-> CHOOSE j \in DOMAIN kept : kept[j] = rtTasks[t]]
          /\ undoList' = undoList \o at(forward) /\ redoList' = redoList \o at(backward)
  BY DEF EndPass
<1>2. /\ n \in Nat /\ DOMAIN actions = 1..n
      /\ \A i \in 1..n : actions[i] \in ActionRecords
      /\ undoList \in Seq(ActionRecords) /\ redoList \in Seq(ActionRecords)
      /\ rtTasks \in Seq(Nat) /\ DOMAIN rtTasks = 1..Len(rtTasks) /\ Len(rtTasks) \in Nat
      /\ \A t \in 1..Len(rtTasks) : rtTasks[t] \in 1..n /\ actions[rtTasks[t]].state = "Waiting"
  BY DEF TypeInv, RingInv
<1>3. /\ DOMAIN actions \ finished \in SUBSET (1..n)
      /\ done("Forward") \in SUBSET (1..n) /\ done("Backward") \in SUBSET (1..n)
  BY <1>2
<1>4. ASSUME NEW S \in SUBSET (1..n), NEW s \in InOrder(S)
      PROVE  /\ at(s) \in Seq(ActionRecords) /\ Len(at(s)) = Len(s) /\ Len(s) \in Nat /\ s \in Seq(Nat)
             /\ \A i \in 1..Len(s) : at(s)[i] = actions[s[i]] /\ s[i] \in 1..n
  <2>1. s \in Seq(1..n) /\ DOMAIN s = 1..Len(s) /\ Len(s) \in Nat /\ \A i \in 1..Len(s) : s[i] \in 1..n
    BY <1>2, <1>4, InOrderElements
  <2>2. at(s) = [j \in 1..Len(s) |-> actions[s[j]]]
    BY <2>1
  <2>3. at(s) \in [1..Len(s) -> ActionRecords]
    BY <2>1, <2>2, <1>2
  <2>4. s \in [1..Len(s) -> Nat]
    BY <2>1
  <2> QED
    BY <2>1, <2>2, <2>3, <2>4
<1>5. \A i \in 1..Len(kept) : actions[kept[i]].state # "Finished"
  <2>1. \A i \in 1..Len(kept) : kept[i] \in DOMAIN actions \ finished
    BY <1>2, <1>3, InOrderElements
  <2> QED
    BY <2>1
<1>6. Keeps(kept)
  <2>1. /\ actions' \in Seq(ActionRecords) /\ Len(actions') = Len(kept)
        /\ \A j \in 1..Len(kept) : kept[j] \in 1..n /\ actions'[j] = actions[kept[j]]
    BY <1>1, <1>3, <1>4
  <2>2. /\ \A i \in 1..n : actions[i].state # "Finished" => \E j \in 1..Len(kept) : kept[j] = i
        /\ \A i, j \in 1..Len(kept) : kept[i] = kept[j] => i = j
        /\ DOMAIN kept = 1..Len(kept) /\ Len(kept) \in Nat
    <3>1. /\ \A e \in DOMAIN actions \ finished : \E i \in 1..Len(kept) : kept[i] = e
          /\ \A i, j \in 1..Len(kept) : kept[i] = kept[j] => i = j
          /\ DOMAIN kept = 1..Len(kept) /\ kept \in Seq(1..n)
      <4> DEFINE S == DOMAIN actions \ finished
      <4>1. S \in SUBSET (1..n) /\ kept \in InOrder(S) /\ n \in Nat
        BY <1>2, <1>3
      <4> HIDE DEF S, finished
      <4>2. /\ \A e \in S : \E i \in 1..Len(kept) : kept[i] = e
            /\ \A i, j \in 1..Len(kept) : kept[i] = kept[j] => i = j
            /\ DOMAIN kept = 1..Len(kept) /\ kept \in Seq(1..n)
        BY <4>1, InOrderElements
      <4> QED
        BY <4>2 DEF S
    <3>2. \A i \in 1..n : actions[i].state # "Finished" => i \in DOMAIN actions \ finished
      BY <1>2
    <3> QED
      BY <3>1, <3>2
  <2> DEFINE r == [t \in 1..Len(rtTasks) |-> CHOOSE j \in 1..Len(kept) : kept[j] = rtTasks[t]]
  <2>3. \A t \in 1..Len(rtTasks) : r[t] \in 1..Len(kept) /\ kept[r[t]] = rtTasks[t]
    <3> SUFFICES ASSUME NEW t \in 1..Len(rtTasks)
                 PROVE  r[t] \in 1..Len(kept) /\ kept[r[t]] = rtTasks[t]
      OBVIOUS
    <3>1. \E j \in 1..Len(kept) : kept[j] = rtTasks[t]
      BY <1>2, <2>2
    <3> QED
      BY <3>1
  <2>4. rtTasks' = r
    BY <1>1, <1>2, <2>2
  <2>5. r \in Seq(Nat) /\ Len(r) = Len(rtTasks)
    <3>1. r \in [1..Len(rtTasks) -> Nat]
      BY <2>3, <2>2
    <3> HIDE DEF r
    <3> QED
      BY <3>1, <1>2, FunctionIsSequence
  <2> HIDE DEF r, finished, done, at
  <2> QED
    BY <2>1, <2>2, <2>3, <2>4, <2>5, <1>5 DEF Keeps
<1>7. ASSUME NEW d \in {"Forward", "Backward"}, NEW list \in Seq(ActionRecords), NEW p \in InOrder(done(d))
      PROVE  GrowsBy(list, list \o at(p), p)
  <2>1. done(d) \in SUBSET (1..n)
    BY <1>2
  <2>2. /\ \A i \in 1..Len(p) : p[i] \in done(d)
        /\ \A i, j \in 1..Len(p) : p[i] = p[j] => i = j
    <3> DEFINE S == done(d)
    <3>1. n \in Nat /\ S \in SUBSET (1..n) /\ p \in InOrder(S)
      BY <1>2, <1>7, <2>1
    <3> HIDE DEF S, n
    <3>2. /\ \A i \in 1..Len(p) : p[i] \in S
          /\ \A i, j \in 1..Len(p) : p[i] = p[j] => i = j
      BY <3>1, InOrderElements
    <3> QED
      BY <3>2 DEF S
  <2>3. \A i \in 1..Len(p) : actions[p[i]].state = "Finished" /\ actions[p[i]].kind \in Undoables
    BY <2>2 DEF Undoables
  <2>4. /\ at(p) \in Seq(ActionRecords) /\ Len(at(p)) = Len(p) /\ Len(p) \in Nat
        /\ \A i \in 1..Len(p) : at(p)[i] = actions[p[i]] /\ p[i] \in 1..n
    BY <2>1, <1>4
  <2> HIDE DEF at, done
  <2>5. /\ list \o at(p) \in Seq(ActionRecords)
        /\ Len(list \o at(p)) = Len(list) + Len(p)
        /\ \A i \in 1..Len(list) : (list \o at(p))[i] = list[i]
        /\ \A i \in 1..Len(p) : (list \o at(p))[Len(list) + i] = at(p)[i]
    <3> DEFINE t == at(p)
    <3>1. t \in Seq(ActionRecords) /\ Len(t) = Len(p)
      BY <2>4
    <3> HIDE DEF t
    <3>2. /\ list \o t \in Seq(ActionRecords) /\ Len(list \o t) = Len(list) + Len(t)
          /\ \A i \in 1..Len(list) : (list \o t)[i] = list[i]
          /\ \A i \in 1..Len(t) : (list \o t)[Len(list) + i] = t[i]
      BY <1>7, <3>1
    <3> QED
      BY <3>1, <3>2 DEF t
  <2> QED
    BY <2>2, <2>3, <2>4, <2>5 DEF GrowsBy
<1>8. \A i \in 1..Len(forward), j \in 1..Len(backward) : forward[i] # backward[j]
  <2>1. \A i \in 1..Len(forward) : forward[i] \in done("Forward")
    BY <1>2, <1>3, InOrderElements
  <2>2. \A i \in 1..Len(backward) : backward[i] \in done("Backward")
    BY <1>2, <1>3, InOrderElements
  <2>3. \A i : i \in done("Forward") => i \notin done("Backward")
    OBVIOUS
  <2> HIDE DEF done
  <2> QED
    BY <2>1, <2>2, <2>3
<1>9. kept \in Seq(Nat) /\ forward \in Seq(Nat) /\ backward \in Seq(Nat)
  BY <1>3, <1>4
<1>10. GrowsBy(undoList, undoList', forward) /\ GrowsBy(redoList, redoList', backward)
  BY <1>1, <1>2, <1>7
<1>11. idx' = 1 /\ UNCHANGED <<engineVars, view, budget>>
  BY DEF EndPass
<1> HIDE DEF finished, done, at
<1> QED
  BY <1>6, <1>8, <1>9, <1>10, <1>11 DEF PassEnds

(* ---------------------------- types and lists ---------------------------- *)

\* What is left of a workload when something was asked for.
LEMMA Spent ==
  ASSUME NEW what \in {"rolls", "toggles", "moves", "tempi", "clicks", "heads", "undos"},
         budget \in Budgets, budget[what] > 0, budget' = [budget EXCEPT ![what] = @ - 1]
  PROVE  /\ budget' \in Budgets
         /\ budget'.rolls = IF what = "rolls" THEN budget.rolls - 1 ELSE budget.rolls
         /\ budget'.toggles = IF what = "toggles" THEN budget.toggles - 1 ELSE budget.toggles
         /\ budget'.moves = IF what = "moves" THEN budget.moves - 1 ELSE budget.moves
         /\ budget'.tempi = IF what = "tempi" THEN budget.tempi - 1 ELSE budget.tempi
         /\ budget'.blocks = budget.blocks /\ budget'.inFlight = budget.inFlight
         /\ budget'.starts = budget.starts
<1>1. CASE what = "rolls"
  BY <1>1 DEF Budgets
<1>2. CASE what = "toggles"
  BY <1>2 DEF Budgets
<1>3. CASE what = "moves"
  BY <1>3 DEF Budgets
<1>4. CASE what = "tempi"
  BY <1>4 DEF Budgets
<1>5. CASE what = "clicks"
  BY <1>5 DEF Budgets
<1>6. CASE what = "heads"
  BY <1>6 DEF Budgets
<1>7. CASE what = "undos"
  BY <1>7 DEF Budgets
<1> QED
  BY <1>1, <1>2, <1>3, <1>4, <1>5, <1>6, <1>7

LEMMA AsksKeepsTypes ==
  ASSUME TypeInv, RingInv, Asks
  PROVE  TypeInv' /\ RingInv'
<1>1. PICK what \in {"rolls", "toggles", "moves", "tempi", "clicks", "heads", "undos"}, kind \in Kinds, value \in Values :
        Asked(what, kind, value) /\ Emit(what, kind, value)
  BY DEF Asks
<1> DEFINE x == NewAction(kind, value)
<1>2. /\ x \in ActionRecords /\ x.kind = kind /\ x.value = value /\ x.old = value /\ x.target = value
      /\ x.state = "Executing" /\ x.step = 1 /\ ~x.completed
  BY <1>1 DEF NewAction, ActionRecords
<1>3. Fits(x)
  <2>1. view.isLoop \in BOOLEAN
    BY DEF TypeInv, Views
  <2>2. kind = "ToggleLoop" => value \in BOOLEAN
    BY <1>1, <2>1 DEF Asked
  <2>3. /\ kind = "ChangeTimelineState" => value \in Commands
        /\ kind = "LoopPosition" => value \in Loops
        /\ kind = "ChangeSignatureBpm" => value \in TempoChanges
    BY <1>1 DEF Asked
  <2> HIDE DEF x
  <2> QED
    BY <1>2, <2>2, <2>3 DEF Fits
<1>4. actions' = Append(actions, x) /\ actions \in Seq(ActionRecords)
  BY <1>1 DEF Emit, TypeInv
<1> HIDE DEF x
<1>5. /\ actions' \in Seq(ActionRecords) /\ Len(actions') = Len(actions) + 1 /\ Len(actions) \in Nat
      /\ actions'[Len(actions) + 1] = x
      /\ \A i \in 1..Len(actions) : actions'[i] = actions[i]
  BY <1>2, <1>4, AppendElements
<1>6. budget' \in Budgets
  BY <1>1, Spent DEF Emit, TypeInv
<1>7. UNCHANGED <<engineVars, view, idx, undoList, redoList, rtTasks>>
  BY <1>1 DEF Emit
<1>8. TypeInv'
  BY <1>5, <1>6, <1>7 DEF TypeInv, engineVars
<1>9. \A i \in 1..Len(actions') : i \in 1..Len(actions) \/ actions'[i] = x
  BY <1>5
<1>10. RingInv'
  <2>1. \A i \in 1..Len(actions') :
       /\ Fits(actions'[i])
       /\ actions'[i].step = 2 => actions'[i].completed
       /\ actions'[i].state = "Executing" /\ actions'[i].step = 1 => ~actions'[i].completed
    BY <1>2, <1>3, <1>5, <1>9 DEF RingInv
  <2>2. \A t \in 1..Len(rtTasks) :
       /\ rtTasks[t] \in 1..Len(actions')
       /\ actions'[rtTasks[t]].state = "Waiting" /\ ~actions'[rtTasks[t]].completed
    BY <1>5 DEF RingInv
  <2> QED
    BY <1>7, <2>1, <2>2 DEF RingInv
<1> QED
  BY <1>8, <1>10

\* What the control thread does to one action of the list.
LEMMA Continued ==
  ASSUME TypeInv, idx <= Len(actions), NEW a \in ActionRecords, Continue(a)
  PROVE  /\ actions' \in Seq(ActionRecords) /\ Len(actions') = Len(actions)
         /\ actions'[idx] = a
         /\ \A i \in 1..Len(actions) : i # idx => actions'[i] = actions[i]
         /\ idx \in 1..Len(actions) /\ idx' = idx + 1 /\ idx' \in Nat \ {0}
<1>1. idx \in 1..Len(actions) /\ actions \in Seq(ActionRecords)
  BY DEF TypeInv
<1>2. actions' = [actions EXCEPT ![idx] = a] /\ idx' = idx + 1
  BY DEF Continue
<1> QED
  BY <1>1, <1>2, ReplaceElements

LEMMA SendsKeepsTypes ==
  ASSUME TypeInv, RingInv, Sends
  PROVE  TypeInv' /\ RingInv'
<1>1. PICK a \in ActionRecords :
        /\ a.state = "Waiting" /\ a.step = 1 /\ a.completed = Current.completed
        /\ Fits(a) /\ Continue(a)
  BY DEF Sends
<1>2. /\ idx <= Len(actions) /\ rtTasks' = Append(rtTasks, idx) /\ UNCHANGED view /\ Step
      /\ Current.state = "Executing" /\ Current.step = 1
  BY DEF Sends
<1>3. /\ actions' \in Seq(ActionRecords) /\ Len(actions') = Len(actions) /\ Len(actions) \in Nat
      /\ actions'[idx] = a
      /\ \A i \in 1..Len(actions) : i # idx => actions'[i] = actions[i]
      /\ idx \in 1..Len(actions) /\ idx' = idx + 1 /\ idx' \in Nat \ {0}
  BY <1>1, <1>2, Continued
<1>4. ~a.completed
  BY <1>1, <1>2, CurrentTyped
<1>5. /\ rtTasks' \in Seq(Nat) /\ Len(rtTasks') = Len(rtTasks) + 1 /\ Len(rtTasks) \in Nat
      /\ rtTasks'[Len(rtTasks) + 1] = idx
      /\ \A t \in 1..Len(rtTasks) : rtTasks'[t] = rtTasks[t]
  <2>1. rtTasks \in Seq(Nat) /\ idx \in Nat
    BY DEF TypeInv
  <2> QED
    BY <2>1, <1>2, AppendElements
<1>6. TypeInv'
  BY <1>2, <1>3, <1>5 DEF TypeInv, Step, engineVars
<1>7. \A i \in 1..Len(actions') :
       /\ Fits(actions'[i])
       /\ actions'[i].step = 2 => actions'[i].completed
       /\ actions'[i].state = "Executing" /\ actions'[i].step = 1 => ~actions'[i].completed
  BY <1>1, <1>3, <1>4 DEF RingInv
<1>8. \A t \in 1..Len(rtTasks) : rtTasks[t] # idx /\ rtTasks[t] \in 1..Len(actions)
  BY <1>2 DEF RingInv, Current
<1>9. \A t \in 1..Len(rtTasks') : rtTasks'[t] = idx \/ t \in 1..Len(rtTasks)
  BY <1>5
<1>10. \A t \in 1..Len(rtTasks') :
       /\ rtTasks'[t] \in 1..Len(actions')
       /\ actions'[rtTasks'[t]].state = "Waiting" /\ ~actions'[rtTasks'[t]].completed
  <2> SUFFICES ASSUME NEW t \in 1..Len(rtTasks')
               PROVE  /\ rtTasks'[t] \in 1..Len(actions')
                      /\ actions'[rtTasks'[t]].state = "Waiting" /\ ~actions'[rtTasks'[t]].completed
    OBVIOUS
  <2>1. CASE rtTasks'[t] = idx
    BY <2>1, <1>1, <1>3, <1>4
  <2>2. CASE t \in 1..Len(rtTasks)
    BY <2>2, <1>3, <1>5, <1>8 DEF RingInv
  <2> QED
    BY <2>1, <2>2, <1>9
<1>11. \A t, u \in 1..Len(rtTasks') : rtTasks'[t] = rtTasks'[u] => t = u
  <2>1. \A t, u \in 1..Len(rtTasks) : rtTasks[t] = rtTasks[u] => t = u
    BY DEF RingInv
  <2> QED
    BY <2>1, <1>5, <1>8
<1>12. RingInv'
  BY <1>2, <1>7, <1>10, <1>11 DEF RingInv, Step
<1> QED
  BY <1>6, <1>12

LEMMA UpdateTyped ==
  ASSUME PlaybackAssumption, NEW v \in Views, NEW t \in Timelines
  PROVE  update(v, t) \in Views
<1>1. framesPerBeat(t) \in Nat
  BY BeatLength
<1> QED
  BY <1>1 DEF update, Views, Timelines

LEMMA ShowsKeepsTypes ==
  ASSUME PlaybackAssumption, TypeInv, RingInv, Shows
  PROVE  TypeInv' /\ RingInv'
<1> DEFINE a == [Current EXCEPT !.state = "Finished"]
<1>1. /\ idx <= Len(actions) /\ Current.state = "Executing" /\ Current.step = 2
      /\ Continue(a) /\ UNCHANGED rtTasks /\ Step
  BY DEF Shows, Finish
<1>2. Current \in ActionRecords /\ Fits(Current) /\ Current.completed
  BY <1>1, CurrentTyped
<1>3. /\ a \in ActionRecords /\ a.kind = Current.kind /\ a.value = Current.value /\ a.old = Current.old
      /\ a.target = Current.target /\ a.state = "Finished" /\ a.completed
  BY <1>2 DEF ActionRecords
<1>4. Fits(a)
  BY <1>2, <1>3 DEF Fits
<1> HIDE DEF a
<1>5. /\ actions' \in Seq(ActionRecords) /\ Len(actions') = Len(actions)
      /\ actions'[idx] = a
      /\ \A i \in 1..Len(actions) : i # idx => actions'[i] = actions[i]
      /\ idx \in 1..Len(actions) /\ idx' \in Nat \ {0}
  BY <1>1, <1>3, Continued
<1>6. view' \in Views
  <2>1. view \in Views /\ tl \in Timelines
    BY DEF TypeInv
  <2>2. CASE view' = update(view, tl)
    BY <2>1, <2>2, UpdateTyped
  <2>3. CASE /\ Current.kind = "ChangeSignatureBpm"
             /\ view' = [view EXCEPT !.bpm = Current.target.bpm, !.size = Current.target.size]
    <3>1. Current.target.bpm \in Tempos /\ Current.target.size \in Sizes
      BY <2>3, <1>2 DEF Fits, TempoChanges
    <3> QED
      BY <2>1, <2>3, <3>1 DEF Views
  <2>4. CASE view' = [view EXCEPT !.playhead = Current.target]
    BY <2>1, <2>4, <1>2 DEF Views, ActionRecords
  <2> QED
    BY <2>1, <2>2, <2>3, <2>4 DEF Shows
<1>7. TypeInv'
  BY <1>1, <1>5, <1>6 DEF TypeInv, Step, engineVars
<1>8. \A t \in 1..Len(rtTasks) : rtTasks[t] # idx
  BY <1>1 DEF RingInv, Current
<1>9. \A t \in 1..Len(rtTasks) :
       /\ rtTasks[t] \in 1..Len(actions')
       /\ actions'[rtTasks[t]].state = "Waiting" /\ ~actions'[rtTasks[t]].completed
  BY <1>5, <1>8 DEF RingInv
<1>10. \A i \in 1..Len(actions') :
       /\ Fits(actions'[i])
       /\ actions'[i].step = 2 => actions'[i].completed
       /\ actions'[i].state = "Executing" /\ actions'[i].step = 1 => ~actions'[i].completed
  BY <1>3, <1>4, <1>5 DEF RingInv
<1>11. RingInv'
  BY <1>1, <1>9, <1>10 DEF RingInv, Step
<1> QED
  BY <1>7, <1>11

LEMMA ChecksKeepsTypes ==
  ASSUME TypeInv, RingInv, Checks
  PROVE  TypeInv' /\ RingInv'
<1>1. PICK a \in ActionRecords :
       /\ a = Current \/ (Current.completed /\ a = [Current EXCEPT !.state = "Executing", !.step = 2])
       /\ Continue(a)
  BY DEF Checks
<1>2. idx <= Len(actions) /\ Current.state = "Waiting" /\ UNCHANGED <<view, rtTasks>> /\ Step
  BY DEF Checks
<1>3. /\ Current \in ActionRecords /\ Fits(Current)
      /\ Current.step = 2 => Current.completed
      /\ Current.state = "Executing" /\ Current.step = 1 => ~Current.completed
  BY <1>2, CurrentTyped
<1>4. /\ a.kind = Current.kind /\ a.value = Current.value /\ a.old = Current.old /\ a.target = Current.target
      /\ a.completed = Current.completed
      /\ a.step = 2 => a.completed
      /\ a.state = "Executing" => a.step = 2
      /\ ~a.completed => a.state = "Waiting"
  BY <1>1, <1>2, <1>3 DEF ActionRecords
<1>5. Fits(a)
  BY <1>3, <1>4 DEF Fits
<1>6. /\ actions' \in Seq(ActionRecords) /\ Len(actions') = Len(actions)
      /\ actions'[idx] = a
      /\ \A i \in 1..Len(actions) : i # idx => actions'[i] = actions[i]
      /\ idx \in 1..Len(actions) /\ idx' \in Nat \ {0}
  BY <1>1, <1>2, Continued
<1>7. TypeInv'
  BY <1>2, <1>6 DEF TypeInv, Step, engineVars
<1>8. \A t \in 1..Len(rtTasks) :
       /\ rtTasks[t] \in 1..Len(actions')
       /\ actions'[rtTasks[t]].state = "Waiting" /\ ~actions'[rtTasks[t]].completed
  BY <1>4, <1>6 DEF RingInv, Current
<1>9. \A i \in 1..Len(actions') :
       /\ Fits(actions'[i])
       /\ actions'[i].step = 2 => actions'[i].completed
       /\ actions'[i].state = "Executing" /\ actions'[i].step = 1 => ~actions'[i].completed
  BY <1>4, <1>5, <1>6 DEF RingInv
<1>10. RingInv'
  BY <1>2, <1>8, <1>9 DEF RingInv, Step
<1> QED
  BY <1>7, <1>10

\* The newest action of a list comes back to the action list, to be done or undone.
Takes(list, shorter) ==
  /\ Len(list) > 0 /\ shorter \in Seq(ActionRecords) /\ Len(shorter) = Len(list) - 1
  /\ \A i \in 1..Len(shorter) : shorter[i] = list[i]
  /\ Len(actions') = Len(actions) + 1
  /\ LET x == actions'[Len(actions) + 1]
         a == list[Len(list)]
     IN /\ x.kind = a.kind /\ x.value = a.value /\ x.old = a.old /\ x.target = a.target
        /\ x.state = "Executing" /\ x.step = 1 /\ ~x.completed

RestartsOne ==
  /\ idx \in 1..Len(actions) /\ Current.kind \in {"Undo", "Redo"}
  /\ Current.state = "Executing" /\ Current.step = 1
  /\ UNCHANGED <<engineVars, view, rtTasks, budget>> /\ idx' = idx + 1
  /\ actions' \in Seq(ActionRecords)
  /\ \A i \in 1..Len(actions) : i # idx => actions'[i] = actions[i]
  /\ actions'[idx].kind = Current.kind /\ actions'[idx].value = Current.value
  /\ actions'[idx].state = "Finished" /\ actions'[idx].step = 1
  /\ \/ Len(actions') = Len(actions) /\ UNCHANGED <<undoList, redoList>>
     \/ Takes(undoList, undoList') /\ UNCHANGED redoList
     \/ Takes(redoList, redoList') /\ UNCHANGED undoList

LEMMA RestartsRestart ==
  ASSUME TypeInv, RingInv, Restarts
  PROVE  RestartsOne
<1> DEFINE c == [Current EXCEPT !.state = "Finished"]
           s == [actions EXCEPT ![idx] = c]
<1>1. /\ idx \in 1..Len(actions) /\ Current \in ActionRecords
      /\ Current.kind \in {"Undo", "Redo"} /\ Current.step = 1 /\ Current.state = "Executing"
  BY CurrentTyped DEF Restarts
<1>2. c \in ActionRecords /\ c.kind = Current.kind /\ c.value = Current.value /\ c.state = "Finished" /\ c.step = 1
  BY <1>1 DEF ActionRecords
<1>3. /\ actions \in Seq(ActionRecords) /\ Len(actions) \in Nat
      /\ undoList \in Seq(ActionRecords) /\ redoList \in Seq(ActionRecords)
  BY DEF TypeInv
<1>4. [actions EXCEPT ![idx].state = "Finished"] = s
  BY DEF Current
<1> HIDE DEF c
<1>5. /\ s \in Seq(ActionRecords) /\ Len(s) = Len(actions)
      /\ s[idx] = c /\ \A i \in 1..Len(actions) : i # idx => s[i] = actions[i]
  BY <1>1, <1>2, <1>3, ReplaceElements
<1> HIDE DEF s
<1>6. ASSUME NEW list \in Seq(ActionRecords), NEW shorter, NEW d \in {"Forward", "Backward"},
             Replay(list, d), shorter = Shorter(list)
      PROVE  /\ actions' \in Seq(ActionRecords)
             /\ \A i \in 1..Len(actions) : actions'[i] = s[i]
             /\ (Len(actions') = Len(actions) /\ shorter = list) \/ Takes(list, shorter)
  <2>1. CASE list = <<>>
    <3>1. actions' = s \o <<>>
      BY <2>1, <1>6, <1>4 DEF Replay
    <3>2. actions' = s
      BY <3>1, <1>5, ConcatEmptySeq
    <3> QED
      BY <2>1, <3>2, <1>5, <1>6 DEF Shorter
  <2>2. CASE list # <<>>
    <3> DEFINE x == [Last(list) EXCEPT !.direction = d, !.state = "Executing", !.step = 1, !.completed = FALSE]
    <3>1. Len(list) # 0 /\ Len(list) \in Nat
      BY <2>2, <1>6
    <3>2. /\ Front(list) \in Seq(ActionRecords) /\ Len(Front(list)) = Len(list) - 1
          /\ \A i \in 1..(Len(list) - 1) : Front(list)[i] = list[i]
          /\ Last(list) \in ActionRecords /\ Last(list) = list[Len(list)]
      BY <1>6, <3>1, FrontLast
    <3>3. /\ x \in ActionRecords /\ x.kind = Last(list).kind /\ x.value = Last(list).value /\ x.old = Last(list).old
          /\ x.target = Last(list).target
          /\ x.state = "Executing" /\ x.step = 1 /\ ~x.completed
      BY <1>6, <3>2 DEF ActionRecords
    <3>4. actions' = s \o <<x>>
      BY <2>2, <1>6, <1>4 DEF Replay
    <3> HIDE DEF x
    <3>5. /\ actions' \in Seq(ActionRecords) /\ Len(actions') = Len(actions) + 1
          /\ actions'[Len(actions) + 1] = x
          /\ \A i \in 1..Len(actions) : actions'[i] = s[i]
      <4>1. s \o <<x>> = Append(s, x)
        BY <1>5, <3>3
      <4>2. /\ Append(s, x) \in Seq(ActionRecords) /\ Len(Append(s, x)) = Len(s) + 1
            /\ Append(s, x)[Len(s) + 1] = x
            /\ \A i \in 1..Len(s) : Append(s, x)[i] = s[i]
        BY <1>5, <3>3, AppendElements
      <4> QED
        BY <4>1, <4>2, <3>4, <1>5
    <3>6. shorter = Front(list)
      BY <2>2, <1>6 DEF Shorter
    <3> QED
      BY <3>1, <3>2, <3>3, <3>5, <3>6 DEF Takes
  <2> QED
    BY <2>1, <2>2
<1>7. /\ UNCHANGED <<engineVars, view, rtTasks, budget>> /\ idx' = idx + 1
      /\ actions' \in Seq(ActionRecords)
      /\ \A i \in 1..Len(actions) : actions'[i] = s[i]
      /\ \/ Len(actions') = Len(actions) /\ UNCHANGED <<undoList, redoList>>
         \/ Takes(undoList, undoList') /\ UNCHANGED redoList
         \/ Takes(redoList, redoList') /\ UNCHANGED undoList
  <2>1. CASE Replay(undoList, "Backward") /\ undoList' = Shorter(undoList) /\ UNCHANGED redoList
    <3>1. UNCHANGED <<engineVars, view, rtTasks, budget>> /\ idx' = idx + 1
      BY <2>1 DEF Replay
    <3> QED
      BY <2>1, <3>1, <1>3, <1>6
  <2>2. CASE Replay(redoList, "Forward") /\ redoList' = Shorter(redoList) /\ UNCHANGED undoList
    <3>1. UNCHANGED <<engineVars, view, rtTasks, budget>> /\ idx' = idx + 1
      BY <2>2 DEF Replay
    <3> QED
      BY <2>2, <3>1, <1>3, <1>6
  <2> QED
    BY <2>1, <2>2 DEF Restarts
<1>8. /\ \A i \in 1..Len(actions) : i # idx => actions'[i] = actions[i]
      /\ actions'[idx] = c
  BY <1>1, <1>5, <1>7
<1> QED
  BY <1>1, <1>2, <1>7, <1>8 DEF RestartsOne

LEMMA RestartsKeepsTypes ==
  ASSUME TypeInv, RingInv, RestartsOne
  PROVE  TypeInv' /\ RingInv'
<1>1. /\ actions \in Seq(ActionRecords) /\ Len(actions) \in Nat /\ idx \in 1..Len(actions)
      /\ undoList \in Seq(ActionRecords) /\ redoList \in Seq(ActionRecords)
      /\ Len(undoList) \in Nat /\ Len(redoList) \in Nat
  BY DEF TypeInv, RestartsOne
<1>2. /\ UNCHANGED <<engineVars, view, rtTasks, budget>> /\ idx' = idx + 1
      /\ actions' \in Seq(ActionRecords)
      /\ \A i \in 1..Len(actions) : i # idx => actions'[i] = actions[i]
      /\ actions'[idx].kind \in {"Undo", "Redo"} /\ actions'[idx].state = "Finished" /\ actions'[idx].step = 1
  BY DEF RestartsOne
<1>3. undoList' \in Seq(ActionRecords) /\ redoList' \in Seq(ActionRecords)
  BY <1>1 DEF RestartsOne, Takes
<1>4. TypeInv'
  BY <1>1, <1>2, <1>3 DEF TypeInv, engineVars
<1>5. /\ \A i \in 1..Len(undoList') : Fits(undoList'[i]) /\ undoList'[i].kind \in Undoables
      /\ \A i \in 1..Len(redoList') : Fits(redoList'[i]) /\ redoList'[i].kind \in Undoables
  <2>1. ASSUME NEW list \in {undoList, redoList}, NEW shorter, Takes(list, shorter)
        PROVE  \A i \in 1..Len(shorter) : Fits(shorter[i]) /\ shorter[i].kind \in Undoables
    <3>1. \A i \in 1..Len(list) : Fits(list[i]) /\ list[i].kind \in Undoables
      BY DEF RingInv
    <3> QED
      BY <3>1, <2>1, <1>1 DEF Takes
  <2> QED
    BY <2>1 DEF RestartsOne, RingInv
<1>6. \A i \in 1..Len(actions') :
       /\ Fits(actions'[i])
       /\ actions'[i].step = 2 => actions'[i].completed
       /\ actions'[i].state = "Executing" /\ actions'[i].step = 1 => ~actions'[i].completed
  <2> SUFFICES ASSUME NEW i \in 1..Len(actions')
               PROVE  /\ Fits(actions'[i])
                      /\ actions'[i].step = 2 => actions'[i].completed
                      /\ actions'[i].state = "Executing" /\ actions'[i].step = 1 => ~actions'[i].completed
    OBVIOUS
  <2>1. CASE i = idx
    BY <2>1, <1>2 DEF Fits
  <2>2. CASE i \in 1..Len(actions) /\ i # idx
    BY <2>2, <1>2 DEF RingInv
  <2>3. ASSUME NEW list \in {undoList, redoList}, NEW shorter, Takes(list, shorter), i = Len(actions) + 1
        PROVE  /\ Fits(actions'[i])
               /\ actions'[i].step = 2 => actions'[i].completed
               /\ actions'[i].state = "Executing" /\ actions'[i].step = 1 => ~actions'[i].completed
    <3>1. Fits(list[Len(list)])
      BY <2>3, <1>1 DEF RingInv, Takes
    <3>2. Fits(actions'[i])
      BY <3>1, <2>3 DEF Takes, Fits
    <3> QED
      BY <3>2, <2>3 DEF Takes
  <2>4. i \in 1..Len(actions) \/ (i = Len(actions) + 1 /\ Len(actions') = Len(actions) + 1)
    BY <1>1 DEF RestartsOne, Takes
  <2> QED
    BY <2>1, <2>2, <2>3, <2>4 DEF RestartsOne
<1>7. \A t \in 1..Len(rtTasks) : rtTasks[t] # idx
  BY DEF RingInv, Current, RestartsOne
<1>8. Len(actions) <= Len(actions') /\ Len(actions') \in Nat
  BY <1>1 DEF RestartsOne, Takes
<1>9. \A t \in 1..Len(rtTasks) :
       /\ rtTasks[t] \in 1..Len(actions')
       /\ actions'[rtTasks[t]].state = "Waiting" /\ ~actions'[rtTasks[t]].completed
  BY <1>1, <1>2, <1>7, <1>8 DEF RingInv
<1>10. RingInv'
  BY <1>2, <1>5, <1>6, <1>9 DEF RingInv
<1> QED
  BY <1>4, <1>10

LEMMA EndPassKeepsTypes ==
  ASSUME TypeInv, RingInv, PassEnds
  PROVE  TypeInv' /\ RingInv'
<1>1. PICK kept \in Seq(Nat) : Keeps(kept)
  BY DEF PassEnds
<1>2. PICK forward \in Seq(Nat), backward \in Seq(Nat) :
        GrowsBy(undoList, undoList', forward) /\ GrowsBy(redoList, redoList', backward)
  BY DEF PassEnds
<1>3. idx' = 1 /\ UNCHANGED <<engineVars, view, budget>>
  BY DEF PassEnds
<1>4. TypeInv'
  BY <1>1, <1>2, <1>3 DEF TypeInv, engineVars, Keeps, GrowsBy
<1>5. \A i \in 1..Len(actions') :
       /\ Fits(actions'[i])
       /\ actions'[i].step = 2 => actions'[i].completed
       /\ actions'[i].state = "Executing" /\ actions'[i].step = 1 => ~actions'[i].completed
  <2>1. \A i \in 1..Len(actions) :
          /\ Fits(actions[i])
          /\ actions[i].step = 2 => actions[i].completed
          /\ actions[i].state = "Executing" /\ actions[i].step = 1 => ~actions[i].completed
    BY DEF RingInv
  <2>2. Len(actions') = Len(kept) /\ \A j \in 1..Len(kept) : kept[j] \in 1..Len(actions) /\ actions'[j] = actions[kept[j]]
    BY <1>1 DEF Keeps
  <2> QED
    BY <2>1, <2>2
<1>6. ASSUME NEW list \in Seq(ActionRecords), NEW longer, NEW places \in Seq(Nat), GrowsBy(list, longer, places),
             \A i \in 1..Len(list) : Fits(list[i]) /\ list[i].kind \in Undoables
      PROVE  \A i \in 1..Len(longer) : Fits(longer[i]) /\ longer[i].kind \in Undoables
  <2> SUFFICES ASSUME NEW i \in 1..Len(longer)
               PROVE  Fits(longer[i]) /\ longer[i].kind \in Undoables
    OBVIOUS
  <2>1. CASE i \in 1..Len(list)
    BY <2>1, <1>6 DEF GrowsBy
  <2>2. CASE i \notin 1..Len(list)
    <3>1. Len(list) \in Nat /\ Len(places) \in Nat
      BY <1>6
    <3>2. Len(longer) = Len(list) + Len(places)
      BY <1>6 DEF GrowsBy
    <3>3. i - Len(list) \in 1..Len(places) /\ Len(list) + (i - Len(list)) = i
      BY <2>2, <3>1, <3>2
    <3> QED
      BY <3>3, <1>6 DEF GrowsBy, RingInv
  <2> QED
    BY <2>1, <2>2
<1>7. /\ \A i \in 1..Len(undoList') : Fits(undoList'[i]) /\ undoList'[i].kind \in Undoables
      /\ \A i \in 1..Len(redoList') : Fits(redoList'[i]) /\ redoList'[i].kind \in Undoables
  BY <1>2, <1>6 DEF RingInv, TypeInv
<1>8. \A t \in 1..Len(rtTasks') :
       /\ rtTasks'[t] \in 1..Len(actions')
       /\ actions'[rtTasks'[t]].state = "Waiting" /\ ~actions'[rtTasks'[t]].completed
  BY <1>1 DEF Keeps, RingInv
<1>9. \A t, u \in 1..Len(rtTasks') : rtTasks'[t] = rtTasks'[u] => t = u
  BY <1>1 DEF Keeps, RingInv
<1>10. RingInv'
  BY <1>5, <1>7, <1>8, <1>9 DEF RingInv
<1> QED
  BY <1>4, <1>10

\* What a task that has run leaves on the lists.
RunsOne ==
  LET h == rtTasks[1]
      a == actions[h]
      b == actions'[h]
  IN /\ phase = "tasks" /\ Len(rtTasks) > 0
     /\ h \in 1..Len(actions) /\ a \in ActionRecords /\ Fits(a) /\ a.state = "Waiting" /\ ~a.completed
     /\ actions' \in Seq(ActionRecords) /\ Len(actions') = Len(actions)
     /\ b.kind = a.kind /\ b.value = a.value /\ b.old = a.old /\ b.state = a.state /\ b.step = a.step /\ b.completed
     /\ a.kind # "UpdatePlayhead" => b.target = a.target
     /\ \A i \in 1..Len(actions) : i # h => actions'[i] = actions[i]
     /\ rtTasks' \in Seq(Nat) /\ Len(rtTasks') = Len(rtTasks) - 1
     /\ \A t \in 1..Len(rtTasks') : rtTasks'[t] = rtTasks[t + 1]
     /\ UNCHANGED <<view, idx, undoList, redoList, phase, framesPassed, block, budget>>

\* A play begins with this task.
Starts(a) ==
  /\ a.kind = "ChangeTimelineState"
  /\ a.target = "Play" \/ (a.target = "StartRecord" /\ ~tl.recording /\ tl.state # "Play")

LEMMA RunTaskRuns ==
  ASSUME TypeInv, RingInv, RunTask
  PROVE  RunsOne
<1> DEFINE h == rtTasks[1]
           a == actions[h]
           b == [a EXCEPT !.completed = TRUE, !.target = IF a.kind = "UpdatePlayhead" THEN tl.lastElapsed ELSE a.target]
<1>1. /\ phase = "tasks" /\ rtTasks # <<>> /\ rtTasks \in Seq(Nat) /\ actions \in Seq(ActionRecords)
      /\ Len(rtTasks) \in Nat /\ Len(rtTasks) > 0 /\ Head(rtTasks) = h
  BY DEF RunTask, TypeInv
<1>2. h \in 1..Len(actions) /\ a \in ActionRecords /\ Fits(a) /\ a.state = "Waiting" /\ ~a.completed
  BY <1>1 DEF RingInv
<1>3. tl.lastElapsed \in Values
  BY DEF TypeInv, Timelines, Values
<1>4. /\ b \in ActionRecords /\ b.kind = a.kind /\ b.value = a.value /\ b.old = a.old
      /\ b.state = a.state /\ b.step = a.step /\ b.completed
      /\ a.kind # "UpdatePlayhead" => b.target = a.target
  BY <1>2, <1>3 DEF ActionRecords
<1>5. actions' = [actions EXCEPT ![h] = b]
  <2>1. actions' = [actions EXCEPT ![h].completed = TRUE,
                                   ![h].target = IF a.kind = "UpdatePlayhead" THEN tl.lastElapsed ELSE a.target]
    BY <1>1 DEF RunTask
  <2> DEFINE t == IF a.kind = "UpdatePlayhead" THEN tl.lastElapsed ELSE a.target
             d == [a EXCEPT !.completed = TRUE]
             s == [actions EXCEPT ![h] = d]
  <2>2. s \in Seq(ActionRecords) /\ s[h] = d
    <3>1. d \in ActionRecords
      BY <1>2 DEF ActionRecords
    <3> HIDE DEF d, a, h
    <3>2. /\ [actions EXCEPT ![h] = d] \in Seq(ActionRecords)
          /\ [actions EXCEPT ![h] = d][h] = d
      BY <3>1, <1>1, <1>2, ReplaceElements
    <3> QED
      BY <3>2
  <2>3. actions' = [s EXCEPT ![h] = [s[h] EXCEPT !.target = t]]
    BY <2>1
  <2>4. [s[h] EXCEPT !.target = t] = b
    BY <2>2
  <2>5. [s EXCEPT ![h] = b] = [actions EXCEPT ![h] = b]
    BY <1>1, <1>2
  <2> QED
    BY <2>3, <2>4, <2>5
<1> HIDE DEF b
<1>6. /\ actions' \in Seq(ActionRecords) /\ Len(actions') = Len(actions) /\ actions'[h] = b
      /\ \A i \in 1..Len(actions) : i # h => actions'[i] = actions[i]
  BY <1>1, <1>2, <1>4, <1>5, ReplaceElements
<1>7. /\ rtTasks' \in Seq(Nat) /\ Len(rtTasks') = Len(rtTasks) - 1
      /\ \A t \in 1..Len(rtTasks') : rtTasks'[t] = rtTasks[t + 1]
  <2>1. rtTasks' = Tail(rtTasks)
    BY DEF RunTask
  <2> QED
    BY <2>1, <1>1
<1>8. UNCHANGED <<view, idx, undoList, redoList, phase, framesPassed, block, budget>>
  BY DEF RunTask
<1> QED
  BY <1>1, <1>2, <1>4, <1>6, <1>7, <1>8 DEF RunsOne

\* What the task of the action a does to the timeline.
Turned(t, a) ==
  CASE a.kind = "ChangeTimelineState" -> setTimelineState(t, a.target)
    [] a.kind = "ToggleLoop" -> setLoopState(t, a.target)
    [] a.kind = "LoopPosition" -> [t EXCEPT !.loopStart = a.target[1], !.loopEnd = a.target[2]]
    [] a.kind = "ChangeSignatureBpm" -> [t EXCEPT !.bpm = a.target.bpm, !.size = a.target.size]
    [] OTHER -> t

LEMMA RunTaskTurns ==
  ASSUME TypeInv, RingInv, RunTask
  PROVE  LET a == actions[rtTasks[1]]
         IN /\ tl' = Turned(tl, a)
            /\ metro' = CASE Starts(a) -> prepareToPlay(metro)
                          [] a.kind = "ToggleMetronome" -> [metro EXCEPT !.mute = a.target]
                          [] OTHER -> metro
            /\ expected' = IF Starts(a) THEN 0 ELSE expected
            /\ steady' = IF Starts(a) THEN TRUE ELSE steady /\ framesPerBeat(tl') = framesPerBeat(tl)
<1>1. Head(rtTasks) = rtTasks[1]
  BY DEF RunTask, TypeInv
<1> QED
  BY <1>1 DEF RunTask, Turned, Starts

LEMMA TurnedTyped ==
  ASSUME NEW t \in Timelines, NEW a \in ActionRecords, Fits(a), FrameRange \in Nat \ {0}
  PROVE  Turned(t, a) \in Timelines
<1>1. CASE a.kind = "ChangeTimelineState"
  <2>1. a.target \in Commands
    BY <1>1 DEF Fits
  <2>2. setTimelineState(t, a.target) \in Timelines
    BY <2>1 DEF setTimelineState, play, Timelines, States, Commands
  <2> QED
    BY <1>1, <2>2 DEF Turned
<1>2. CASE a.kind = "ToggleLoop"
  <2>1. t.start + t.lastLoop \in Int
    BY DEF Timelines
  <2>2. Wrap(t.start + t.lastLoop) \in Nat
    BY <2>1, WrapNat
  <2>3. setLoopState(t, a.target) \in Timelines
    BY <2>2 DEF setLoopState, Timelines
  <2> QED
    BY <1>2, <2>3 DEF Turned
<1>3. CASE a.kind = "LoopPosition"
  <2>1. a.target \in Nat \X Nat
    BY <1>3 DEF Fits, Loops
  <2>2. a.target[1] \in Nat /\ a.target[2] \in Nat
    BY <2>1
  <2> QED
    BY <1>3, <2>2 DEF Turned, Timelines
<1>4. CASE a.kind = "ChangeSignatureBpm"
  <2>1. a.target.bpm \in Tempos /\ a.target.size \in Sizes
    BY <1>4 DEF Fits, TempoChanges
  <2> QED
    BY <1>4, <2>1 DEF Turned, Timelines
<1> QED
  BY <1>1, <1>2, <1>3, <1>4 DEF Turned

LEMMA RangePositive ==
  ASSUME PlaybackAssumption, TypeInv, FramesInv
  PROVE  /\ FrameRange \in Nat \ {0} /\ BlockSize \in Nat \ {0}
         /\ budget.blocks \in Nat /\ budget.blocks * BlockSize \in Nat
         /\ framesPassed < FrameRange
<1>1. /\ FrameRange \in Nat /\ BlockSize \in Nat \ {0} /\ budget.blocks \in Nat /\ framesPassed \in Nat
  BY DEF PlaybackAssumption, TypeInv, Budgets
<1>2. budget.blocks * BlockSize \in Nat
  BY <1>1
<1> QED
  BY <1>1, <1>2 DEF FramesInv

LEMMA RunTaskKeepsTypes ==
  ASSUME PlaybackAssumption, TypeInv, RingInv, FramesInv, RunTask
  PROVE  TypeInv' /\ RingInv'
<1> DEFINE h == rtTasks[1]
           a == actions[h]
           b == actions'[h]
<1>1. RunsOne
  BY RunTaskRuns
<1>2. /\ h \in 1..Len(actions) /\ a \in ActionRecords /\ Fits(a) /\ a.state = "Waiting" /\ ~a.completed
      /\ actions' \in Seq(ActionRecords) /\ Len(actions') = Len(actions) /\ Len(actions) \in Nat
      /\ b.kind = a.kind /\ b.value = a.value /\ b.old = a.old /\ b.state = a.state /\ b.step = a.step /\ b.completed
      /\ a.kind # "UpdatePlayhead" => b.target = a.target
      /\ \A i \in 1..Len(actions) : i # h => actions'[i] = actions[i]
  BY <1>1 DEF RunsOne
<1>3. /\ rtTasks' \in Seq(Nat) /\ Len(rtTasks') = Len(rtTasks) - 1 /\ Len(rtTasks) \in Nat /\ Len(rtTasks) > 0
      /\ \A t \in 1..Len(rtTasks') : rtTasks'[t] = rtTasks[t + 1]
      /\ UNCHANGED <<view, idx, undoList, redoList, phase, framesPassed, block, budget>>
  BY <1>1 DEF RunsOne, TypeInv
<1>4. /\ tl' = Turned(tl, a)
      /\ metro' = CASE Starts(a) -> prepareToPlay(metro)
                    [] a.kind = "ToggleMetronome" -> [metro EXCEPT !.mute = a.target]
                    [] OTHER -> metro
      /\ expected' = IF Starts(a) THEN 0 ELSE expected
      /\ steady' = IF Starts(a) THEN TRUE ELSE steady /\ framesPerBeat(tl') = framesPerBeat(tl)
  BY RunTaskTurns
<1> HIDE DEF a, b
<1>5. tl' \in Timelines
  BY <1>2, <1>4, TurnedTyped, RangePositive DEF TypeInv
<1>6. metro' \in [mute : Values, lastTick : Nat, step : Int, remaining : Nat]
  <2>1. a.target \in Values
    BY <1>2 DEF ActionRecords
  <2>2. metro \in [mute : Values, lastTick : Nat, step : Int, remaining : Nat]
    BY DEF TypeInv
  <2>3. CASE Starts(a)
    <3>1. metro' = prepareToPlay(metro)
      BY <2>3, <1>4 DEF Starts
    <3>2. -1 \in Int
      OBVIOUS
    <3> QED
      BY <3>1, <3>2, <2>2 DEF prepareToPlay
  <2>4. CASE ~Starts(a) /\ a.kind = "ToggleMetronome"
    <3>1. metro' = [metro EXCEPT !.mute = a.target]
      BY <2>4, <1>4
    <3> QED
      BY <3>1, <2>1, <2>2
  <2>5. CASE ~Starts(a) /\ a.kind # "ToggleMetronome"
    <3>1. metro' = metro
      BY <2>5, <1>4
    <3> QED
      BY <3>1, <2>2
  <2> QED
    BY <2>3, <2>4, <2>5
<1>7. expected' \in Nat /\ steady' \in BOOLEAN
  <2>1. expected' \in Nat
    BY <1>4 DEF TypeInv
  <2>2. steady' \in BOOLEAN
    BY <1>4
  <2> QED
    BY <2>1, <2>2
<1>8. TypeInv'
  BY <1>2, <1>3, <1>5, <1>6, <1>7 DEF TypeInv
<1>9. Fits(b)
  BY <1>2 DEF Fits
<1>10. \A i \in 1..Len(actions') :
       /\ Fits(actions'[i])
       /\ actions'[i].step = 2 => actions'[i].completed
       /\ actions'[i].state = "Executing" /\ actions'[i].step = 1 => ~actions'[i].completed
  <2>1. \A i \in 1..Len(actions') : i # h \/ actions'[i] = b
    BY DEF b
  <2> QED
    BY <1>2, <1>9, <2>1 DEF RingInv
<1>11. \A t \in 1..Len(rtTasks') : t + 1 \in 1..Len(rtTasks) /\ rtTasks[t + 1] # h
  <2>1. \A t \in 1..Len(rtTasks') : t + 1 \in 1..Len(rtTasks) /\ t + 1 # 1 /\ 1 \in 1..Len(rtTasks)
    BY <1>3
  <2> QED
    BY <2>1 DEF RingInv
<1>12. \A t \in 1..Len(rtTasks') :
       /\ rtTasks'[t] \in 1..Len(actions')
       /\ actions'[rtTasks'[t]].state = "Waiting" /\ ~actions'[rtTasks'[t]].completed
  <2> SUFFICES ASSUME NEW t \in 1..Len(rtTasks')
               PROVE  /\ rtTasks'[t] \in 1..Len(actions')
                      /\ actions'[rtTasks'[t]].state = "Waiting" /\ ~actions'[rtTasks'[t]].completed
    OBVIOUS
  <2> DEFINE g == rtTasks[t + 1]
  <2>1. g \in 1..Len(actions) /\ actions[g].state = "Waiting" /\ ~actions[g].completed
    BY <1>11 DEF RingInv
  <2>2. rtTasks'[t] = g /\ g # h
    BY <1>3, <1>11
  <2> HIDE DEF g, h
  <2> QED
    BY <2>1, <2>2, <1>2
<1>13. \A t, u \in 1..Len(rtTasks') : rtTasks'[t] = rtTasks'[u] => t = u
  <2> SUFFICES ASSUME NEW t \in 1..Len(rtTasks'), NEW u \in 1..Len(rtTasks'), rtTasks'[t] = rtTasks'[u]
               PROVE  t = u
    OBVIOUS
  <2>1. rtTasks[t + 1] = rtTasks[u + 1] /\ t + 1 \in 1..Len(rtTasks) /\ u + 1 \in 1..Len(rtTasks)
    BY <1>3, <1>11
  <2>2. t + 1 = u + 1
    BY <2>1 DEF RingInv
  <2> QED
    BY <2>2
<1>14. RingInv'
  BY <1>3, <1>10, <1>12, <1>13 DEF RingInv
<1> QED
  BY <1>8, <1>14

LEMMA PositionTyped ==
  ASSUME NEW t \in Timelines, FrameRange \in Nat \ {0}, framesPassed \in Nat
  PROVE  Position(t) \in Nat
<1> DEFINE since == Wrap(framesPassed - t.start)
           off == IF t.ongoing THEN t.loopStart ELSE 0
<1>1. t.start \in Nat /\ t.lastLoop \in Nat /\ off \in Nat
  BY DEF Timelines
<1>2. since \in Nat
  <2>1. framesPassed - t.start \in Int
    BY <1>1
  <2> QED
    BY <2>1, WrapNat
<1> HIDE DEF since, off
<1>3. Wrap(since - t.lastLoop + off) \in Nat
  BY <1>1, <1>2, WrapNat
<1> QED
  BY <1>2, <1>3 DEF Position, since, off

\* A block leaves the tempo and the loop alone, and prepares a play or goes on with it.
LEMMA ElapsedTurns ==
  ASSUME NEW t \in Timelines, FrameRange \in Nat \ {0}, BlockSize \in Nat, framesPassed \in Nat
  PROVE  /\ Elapsed(t) \in Timelines
         /\ Elapsed(t).bpm = t.bpm /\ Elapsed(t).size = t.size /\ Elapsed(t).recording = t.recording
         /\ Elapsed(t).isLoop = t.isLoop /\ Elapsed(t).loopStart = t.loopStart /\ Elapsed(t).loopEnd = t.loopEnd
         /\ t.state = "Preparing" =>
              /\ Elapsed(t).state = "Play" /\ Elapsed(t).lastLoop = t.lastLoop /\ Elapsed(t).ongoing = t.ongoing
              /\ Elapsed(t).start = IF t.start = 0 THEN framesPassed + BlockSize ELSE t.start
         /\ t.state = "Play" =>
              /\ Elapsed(t).state = "Play" /\ Elapsed(t).start = t.start /\ Elapsed(t).lastElapsed = Position(t)
              /\ Elapsed(t).lastLoop = IF EndsLoop(t) THEN Wrap(framesPassed - t.start + BlockSize) ELSE t.lastLoop
              /\ Elapsed(t).ongoing = (t.ongoing \/ EndsLoop(t))
         /\ t.state \notin {"Play", "Preparing"} =>
              /\ Elapsed(t).state = t.state /\ Elapsed(t).lastLoop = t.lastLoop
              /\ Elapsed(t).ongoing = t.ongoing /\ Elapsed(t).start = t.start
<1>1. CASE t.state = "Play"
  <2> DEFINE l == IF EndsLoop(t) THEN Wrap(framesPassed - t.start + BlockSize) ELSE t.lastLoop
             o == t.ongoing \/ EndsLoop(t)
             p == Position(t)
  <2>1. p \in Nat
    BY PositionTyped
  <2>2. l \in Nat
    <3>1. framesPassed - t.start + BlockSize \in Int /\ t.lastLoop \in Nat
      BY DEF Timelines
    <3> QED
      BY <3>1, WrapNat
  <2>3. o \in BOOLEAN
    OBVIOUS
  <2>4. Elapsed(t) = [t EXCEPT !.lastElapsed = p, !.lastLoop = l, !.ongoing = o]
    BY <1>1 DEF Elapsed
  <2> HIDE DEF p, l, o
  <2>5. /\ Elapsed(t) \in Timelines /\ Elapsed(t).state = "Play" /\ Elapsed(t).start = t.start
        /\ Elapsed(t).lastElapsed = p /\ Elapsed(t).lastLoop = l /\ Elapsed(t).ongoing = o
        /\ Elapsed(t).bpm = t.bpm /\ Elapsed(t).size = t.size /\ Elapsed(t).recording = t.recording
        /\ Elapsed(t).isLoop = t.isLoop /\ Elapsed(t).loopStart = t.loopStart /\ Elapsed(t).loopEnd = t.loopEnd
    BY <1>1, <2>1, <2>2, <2>3, <2>4 DEF Timelines
  <2> QED
    BY <1>1, <2>5 DEF p, l, o
<1>2. CASE t.state = "Preparing"
  <2> DEFINE b == IF t.start = 0 THEN framesPassed + BlockSize ELSE t.start
  <2>1. b \in Nat
    BY DEF Timelines
  <2>2. Elapsed(t) = [t EXCEPT !.lastElapsed = 0, !.state = "Play", !.start = b]
    BY <1>2 DEF Elapsed
  <2> HIDE DEF b
  <2>3. /\ Elapsed(t) \in Timelines /\ Elapsed(t).state = "Play" /\ Elapsed(t).start = b
        /\ Elapsed(t).lastLoop = t.lastLoop /\ Elapsed(t).ongoing = t.ongoing
        /\ Elapsed(t).bpm = t.bpm /\ Elapsed(t).size = t.size /\ Elapsed(t).recording = t.recording
        /\ Elapsed(t).isLoop = t.isLoop /\ Elapsed(t).loopStart = t.loopStart /\ Elapsed(t).loopEnd = t.loopEnd
    <3> DEFINE z == 0
               r == [t EXCEPT !.lastElapsed = z, !.state = "Play", !.start = b]
    <3>1. z \in Nat /\ "Play" \in States
      BY DEF States
    <3>2. Elapsed(t) = r
      BY <2>2
    <3> HIDE DEF z
    <3>3. r \in Timelines
      BY <2>1, <3>1 DEF Timelines
    <3>4. /\ r.state = "Play" /\ r.start = b /\ r.lastLoop = t.lastLoop /\ r.ongoing = t.ongoing
          /\ r.bpm = t.bpm /\ r.size = t.size /\ r.recording = t.recording
          /\ r.isLoop = t.isLoop /\ r.loopStart = t.loopStart /\ r.loopEnd = t.loopEnd
      BY DEF Timelines
    <3> QED
      BY <3>2, <3>3, <3>4
  <2> QED
    BY <1>2, <2>3 DEF b
<1>3. CASE t.state \notin {"Play", "Preparing"}
  <2>1. Elapsed(t) = [t EXCEPT !.lastElapsed = 0]
    BY <1>3 DEF Elapsed
  <2> QED
    BY <1>3, <2>1 DEF Timelines
<1> QED
  BY <1>1, <1>2, <1>3

LEMMA ProcessTyped ==
  ASSUME PlaybackAssumption, FrameRange \in Nat \ {0}, NEW t \in Timelines, NEW e \in Nat,
         NEW m \in [mute : Values, lastTick : Nat, step : Int, remaining : Nat]
  PROVE  /\ process(m, t, e) \in [mute : Values, lastTick : Nat, step : Int, remaining : Nat]
         /\ process(m, t, e).lastTick = count(m, t, e).lastTick
<1> DEFINE d == Delay(m, t, e)
           s == SamplesToPlay(m, t, e)
           due == Due(m, t, e)
           c == count(m, t, e)
<1>1. BlockSize \in Nat /\ SoundLength \in Nat /\ framesPerBeat(t) \in Nat
  BY BeatLength DEF PlaybackAssumption
<1>2. m.lastTick \in Nat /\ m.step \in Int /\ m.remaining \in Nat
  OBVIOUS
<1>3. d \in Nat
  <2>1. e - m.lastTick \in Int
    BY <1>2
  <2>2. Wrap(e - m.lastTick) \in Int
    BY <2>1, WrapNat
  <2>3. framesPerBeat(t) - Wrap(e - m.lastTick) \in Int
    BY <1>1, <2>2
  <2> QED
    BY <2>3, WrapNat DEF Delay
<1>4. s \in Nat
  <2>1. Wrap(BlockSize - d) \in Nat
    BY <1>1, <1>3, WrapNat
  <2> QED
    BY <1>1, <1>2, <2>1 DEF SamplesToPlay
<1>5. c \in [mute : Values, lastTick : Nat, step : Int, remaining : Nat]
  <2> DEFINE l == Wrap(e + d)
  <2>1. l \in Nat
    BY <1>3, WrapNat
  <2>2. c = IF due THEN [m EXCEPT !.lastTick = l] ELSE m
    BY DEF count
  <2> HIDE DEF l, due, c
  <2> QED
    BY <2>1, <2>2
<1> DEFINE st == IF ~due THEN c.step ELSE IF c.step + 1 >= t.size.numerator THEN 0 ELSE c.step + 1
           re == Wrap((IF due THEN SoundLength ELSE c.remaining) - s)
<1>6. st \in Int
  <2> HIDE DEF c, due
  <2> QED
    BY <1>5
<1>7. re \in Nat
  <2> DEFINE x == (IF due THEN SoundLength ELSE c.remaining) - s
  <2> HIDE DEF c, due, s
  <2>1. x \in Int
    BY <1>1, <1>4, <1>5
  <2> HIDE DEF x
  <2>2. Wrap(x) \in Nat
    BY <2>1, WrapNat
  <2> QED
    BY <2>2 DEF x
<1>8. process(m, t, e) = IF m.mute THEN c ELSE [c EXCEPT !.step = st, !.remaining = re]
  BY DEF process
<1> HIDE DEF c, st, re
<1>9. /\ process(m, t, e) \in [mute : Values, lastTick : Nat, step : Int, remaining : Nat]
      /\ process(m, t, e).lastTick = c.lastTick
  BY <1>5, <1>6, <1>7, <1>8
<1> QED
  BY <1>9 DEF c

LEMMA BlockKeepsTypes ==
  ASSUME PlaybackAssumption, TypeInv, RingInv, FramesInv, processNextBlock
  PROVE  TypeInv' /\ RingInv' /\ FramesInv'
<1> DEFINE e == Elapsed(tl).lastElapsed
<1>1. /\ FrameRange \in Nat \ {0} /\ BlockSize \in Nat \ {0} /\ framesPassed \in Nat /\ framesPassed < FrameRange
      /\ budget.blocks * BlockSize \in Nat
      /\ tl \in Timelines /\ metro \in [mute : Values, lastTick : Nat, step : Int, remaining : Nat]
  BY RangePositive DEF TypeInv
<1>2. tl' \in Timelines /\ e \in Nat
  <2>1. tl' = Elapsed(tl) /\ Elapsed(tl) \in Timelines
    BY <1>1, ElapsedTurns DEF processNextBlock
  <2> QED
    BY <2>1 DEF Timelines
<1>3. metro' \in [mute : Values, lastTick : Nat, step : Int, remaining : Nat]
  BY <1>1, <1>2, ProcessTyped DEF processNextBlock
<1>4. expected' \in Nat
  <2>1. expected' \in {expected, tl.loopStart, e + BlockSize}
    BY DEF processNextBlock
  <2>2. expected \in Nat /\ tl.loopStart \in Nat
    BY DEF TypeInv, Timelines
  <2> HIDE DEF e
  <2>3. e + BlockSize \in Nat
    BY <1>1, <1>2
  <2> QED
    BY <2>1, <2>2, <2>3
<1>5. steady' \in BOOLEAN
  BY DEF processNextBlock, TypeInv
<1>6. /\ framesPassed' = framesPassed + BlockSize /\ phase = "play" /\ phase' = "tasks"
      /\ UNCHANGED <<view, listVars, rtTasks, budget>>
  BY DEF processNextBlock
<1>7. TypeInv'
  BY <1>1, <1>2, <1>3, <1>4, <1>5, <1>6 DEF TypeInv, listVars
<1>8. RingInv'
  BY <1>6 DEF RingInv, listVars
<1>9. FramesInv'
  BY <1>1, <1>6 DEF FramesInv
<1> QED
  BY <1>7, <1>8, <1>9

LEMMA NoMoreTasksKeepsTypes ==
  ASSUME PlaybackAssumption, TypeInv, RingInv, FramesInv, NoMoreTasks
  PROVE  TypeInv' /\ RingInv' /\ FramesInv'
<1>1. /\ phase = "tasks" /\ budget.blocks > 0
      /\ phase' = "play" /\ budget' = [budget EXCEPT !.blocks = @ - 1]
      /\ UNCHANGED <<tl, metro, framesPassed, block, expected, steady, view, listVars, rtTasks>>
  BY DEF NoMoreTasks
<1>2. budget' \in Budgets /\ budget'.blocks = budget.blocks - 1 /\ budget.blocks \in Nat
  <2> DEFINE n == budget.blocks - 1
  <2>1. budget \in Budgets /\ budget.blocks \in Nat /\ n \in Nat
    <3>1. budget \in Budgets
      BY DEF TypeInv
    <3>2. budget.blocks \in Nat
      BY <3>1 DEF Budgets
    <3> QED
      BY <3>1, <3>2, <1>1
  <2>2. budget' = [budget EXCEPT !.blocks = n]
    BY <1>1
  <2> HIDE DEF n
  <2>3. budget' \in Budgets /\ budget'.blocks = n
    BY <2>1, <2>2 DEF Budgets
  <2> QED
    BY <2>1, <2>3 DEF n
<1>3. TypeInv'
  BY <1>1, <1>2 DEF TypeInv, listVars
<1>4. RingInv'
  BY <1>1 DEF RingInv, listVars
<1>5. FramesInv'
  <2>1. BlockSize \in Nat /\ framesPassed \in Nat
    BY DEF TypeInv, PlaybackAssumption
  <2>2. (budget.blocks - 1) * BlockSize + BlockSize = budget.blocks * BlockSize
        /\ (budget.blocks - 1) * BlockSize \in Int /\ budget.blocks * BlockSize \in Int
    BY <1>2, <2>1
  <2> QED
    BY <1>1, <1>2, <2>1, <2>2 DEF FramesInv
<1> QED
  BY <1>3, <1>4, <1>5

(* ------------------------- steps and invariants -------------------------- *)

LEMMA NextSteps ==
  ASSUME PlaybackAssumption, TypeInv, RingInv, [Next]_vars
  PROVE  \/ Asks \/ Sends \/ Shows \/ Checks \/ RestartsOne \/ PassEnds
         \/ RunTask \/ NoMoreTasks \/ processNextBlock \/ UNCHANGED vars
BY InterfaceAsks, ControlSteps, RestartsRestart, EndPassEnds DEF Next, RealTimeThread

\* Only the real-time thread counts frames.
LEMMA QuietKeepsFrames ==
  ASSUME FramesInv, UNCHANGED <<phase, framesPassed>>, budget'.blocks = budget.blocks
  PROVE  FramesInv'
BY DEF FramesInv

CoreInv == TypeInv /\ RingInv /\ FramesInv

LEMMA CoreStep ==
  ASSUME PlaybackAssumption, CoreInv, [Next]_vars
  PROVE  CoreInv'
<1> USE DEF CoreInv
<1>1. CASE Asks
  <2>1. PICK what \in {"rolls", "toggles", "moves", "tempi", "clicks", "heads", "undos"}, kind \in Kinds, value \in Values :
          Emit(what, kind, value)
    BY <1>1 DEF Asks
  <2>2. budget'.blocks = budget.blocks /\ UNCHANGED <<phase, framesPassed>>
    BY <2>1, Spent DEF Emit, engineVars, TypeInv
  <2> QED
    BY <1>1, <2>2, AsksKeepsTypes, QuietKeepsFrames
<1>2. CASE Sends
  BY <1>2, SendsKeepsTypes, QuietKeepsFrames DEF Sends, Step, engineVars
<1>3. CASE Shows
  BY <1>3, ShowsKeepsTypes, QuietKeepsFrames DEF Shows, Step, engineVars
<1>4. CASE Checks
  BY <1>4, ChecksKeepsTypes, QuietKeepsFrames DEF Checks, Step, engineVars
<1>5. CASE RestartsOne
  BY <1>5, RestartsKeepsTypes, QuietKeepsFrames DEF RestartsOne, engineVars
<1>6. CASE PassEnds
  BY <1>6, EndPassKeepsTypes, QuietKeepsFrames DEF PassEnds, engineVars
<1>7. CASE RunTask
  BY <1>7, RunTaskKeepsTypes, QuietKeepsFrames DEF RunTask
<1>8. CASE NoMoreTasks
  BY <1>8, NoMoreTasksKeepsTypes
<1>9. CASE processNextBlock
  BY <1>9, BlockKeepsTypes
<1>10. CASE UNCHANGED vars
  BY <1>10 DEF TypeInv, RingInv, FramesInv, Fits, vars, engineVars, listVars
<1> QED
  BY <1>1, <1>2, <1>3, <1>4, <1>5, <1>6, <1>7, <1>8, <1>9, <1>10, NextSteps

LEMMA CoreInit ==
  ASSUME PlaybackAssumption, Init
  PROVE  CoreInv
<1>1. budget \in Workloads /\ budget \in Budgets
  BY DEF Init, PlaybackAssumption, Budgets, Loops
<1>2. budget.blocks * BlockSize < FrameRange
  BY <1>1 DEF PlaybackAssumption
<1>3. PICK bpm \in budget.tempos, size \in Sizes :
       tl = [bpm |-> bpm, size |-> size, state |-> "Stop", recording |-> FALSE, isLoop |-> budget.isLoop,
             start |-> 0, lastLoop |-> 0, loopStart |-> budget.loop[1], loopEnd |-> budget.loop[2],
             ongoing |-> FALSE, lastElapsed |-> 0]
  BY DEF Init
<1>4. tl \in Timelines
  <2>1. budget.loop[1] \in Nat /\ budget.loop[2] \in Nat /\ budget.isLoop \in BOOLEAN /\ bpm \in Tempos
    BY <1>1 DEF Budgets, Loops
  <2> QED
    BY <1>3, <2>1 DEF Timelines, States
<1>5. view \in Views
  <2>1. view = [bpm |-> tl.bpm, size |-> tl.size, state |-> tl.state, recording |-> tl.recording,
                isLoop |-> tl.isLoop, loopStart |-> tl.loopStart, loopEnd |-> tl.loopEnd,
                framesPerBeat |-> framesPerBeat(tl), playhead |-> 0]
    BY DEF Init, update
  <2>2. framesPerBeat(tl) \in Nat
    BY <1>4, BeatLength
  <2> QED
    BY <1>4, <2>1, <2>2 DEF Views, Timelines, Values
<1>6. metro \in [mute : Values, lastTick : Nat, step : Int, remaining : Nat]
  <2>1. metro = [mute |-> TRUE, lastTick |-> 0, step |-> -1, remaining |-> 0]
    BY DEF Init
  <2>2. -1 \in Int
    OBVIOUS
  <2> QED
    BY <2>1, <2>2 DEF Values
<1>7. /\ actions = <<>> /\ undoList = <<>> /\ redoList = <<>> /\ rtTasks = <<>>
      /\ idx = 1 /\ phase = "tasks" /\ framesPassed = 0 /\ expected = 0 /\ steady = TRUE
  BY DEF Init
<1>8. TypeInv
  BY <1>1, <1>4, <1>5, <1>6, <1>7 DEF TypeInv
<1>9. RingInv
  BY <1>7 DEF RingInv
<1>10. FramesInv
  BY <1>1, <1>2, <1>7 DEF FramesInv, PlaybackAssumption, Budgets
<1> QED
  BY <1>8, <1>9, <1>10 DEF CoreInv

(* ------------------------ the snapshot follows --------------------------- *)

\* What the task of each kind of action leaves alone.
LEMMA TurnedKeeps ==
  ASSUME NEW t \in Timelines, NEW a \in ActionRecords, Fits(a)
  PROVE  /\ a.kind = "ChangeSignatureBpm" => Tempo(Turned(t, a)) = a.target
         /\ a.kind # "ChangeSignatureBpm" => Turned(t, a).bpm = t.bpm /\ Turned(t, a).size = t.size
         /\ a.kind \notin Turning \cup {"ChangeSignatureBpm"} => Turned(t, a) = t
         /\ a.kind = "ChangeSignatureBpm" =>
              /\ Turned(t, a).isLoop = t.isLoop /\ Turned(t, a).recording = t.recording /\ Turned(t, a).state = t.state
              /\ Turned(t, a).loopStart = t.loopStart /\ Turned(t, a).loopEnd = t.loopEnd
              /\ Turned(t, a).start = t.start /\ Turned(t, a).lastLoop = t.lastLoop /\ Turned(t, a).ongoing = t.ongoing
<1>1. CASE a.kind = "ChangeTimelineState"
  <2>1. a.target \in Commands
    BY <1>1 DEF Fits
  <2>2. /\ setTimelineState(t, a.target).bpm = t.bpm /\ setTimelineState(t, a.target).size = t.size
    BY <2>1 DEF setTimelineState, play, Timelines, Commands
  <2> QED
    BY <1>1, <2>2 DEF Turned, Turning
<1>2. CASE a.kind = "ToggleLoop"
  <2>1. setLoopState(t, a.target).bpm = t.bpm /\ setLoopState(t, a.target).size = t.size
    BY DEF setLoopState, Timelines
  <2> QED
    BY <1>2, <2>1 DEF Turned, Turning
<1>3. CASE a.kind = "LoopPosition"
  BY <1>3 DEF Turned, Turning, Timelines
<1>4. CASE a.kind = "ChangeSignatureBpm"
  <2>1. Turned(t, a) = [t EXCEPT !.bpm = a.target.bpm, !.size = a.target.size]
    BY <1>4 DEF Turned
  <2>2. /\ Turned(t, a).bpm = a.target.bpm /\ Turned(t, a).size = a.target.size
        /\ Turned(t, a).isLoop = t.isLoop /\ Turned(t, a).recording = t.recording /\ Turned(t, a).state = t.state
        /\ Turned(t, a).loopStart = t.loopStart /\ Turned(t, a).loopEnd = t.loopEnd
        /\ Turned(t, a).start = t.start /\ Turned(t, a).lastLoop = t.lastLoop /\ Turned(t, a).ongoing = t.ongoing
    BY <2>1 DEF Timelines
  <2>3. a.target \in [bpm : Tempos, size : Sizes]
    BY <1>4 DEF Fits, TempoChanges
  <2>4. Tempo(Turned(t, a)) = a.target
    BY <2>2, <2>3 DEF Tempo
  <2> QED
    BY <1>4, <2>2, <2>4
<1>5. CASE a.kind \notin Turning \cup {"ChangeSignatureBpm"}
  BY <1>5 DEF Turned, Turning
<1> QED
  BY <1>1, <1>2, <1>3, <1>4, <1>5 DEF Turning

\* An action of the list after a step of the control thread or of the ring was there
\* before, or its task has not run.
Stays(i, j) ==
  /\ i \in 1..Len(actions) /\ j \in 1..Len(actions')
  /\ actions'[j].kind = actions[i].kind /\ actions'[j].value = actions[i].value
  /\ Unshown(actions'[j]) = Unshown(actions[i])
  /\ Unshown(actions[i]) => actions'[j].target = actions[i].target

\* Steps that neither turn nor show: what is to be shown stays to be shown.
Passes ==
  /\ UNCHANGED <<tl, view>>
  /\ \A i \in 1..Len(actions) : Unshown(actions[i]) => \E j \in 1..Len(actions') : Stays(i, j)
  /\ \A j \in 1..Len(actions') : Unshown(actions'[j]) => \E i \in 1..Len(actions) : Stays(i, j)

LEMMA QuietPasses ==
  ASSUME CoreInv, Asks \/ Sends \/ Checks \/ RestartsOne \/ PassEnds \/ NoMoreTasks \/ UNCHANGED vars
  PROVE  Passes
<1> DEFINE n == Len(actions)
<1>0. n \in Nat /\ TypeInv /\ RingInv
  BY DEF CoreInv, TypeInv
<1>1. ASSUME UNCHANGED <<tl, view>>, n <= Len(actions'), Len(actions') \in Nat, idx \in 1..n,
             \A i \in 1..n : i # idx => actions'[i] = actions[i],
             Unshown(actions[idx]) => Stays(idx, idx),
             Unshown(actions'[idx]) => Stays(idx, idx),
             \A j \in 1..Len(actions') : j \in 1..n \/ ~Unshown(actions'[j])
      PROVE  Passes
  <2>1. \A i \in 1..n : i # idx => Stays(i, i)
    BY <1>0, <1>1 DEF Stays
  <2>2. \A i \in 1..n : i \in 1..Len(actions')
    BY <1>0, <1>1
  <2> HIDE DEF n
  <2> QED
    BY <1>1, <2>1, <2>2 DEF Passes, n
<1>2. CASE Asks
  <2>1. PICK what, kind, value : Emit(what, kind, value)
    BY <1>2 DEF Asks
  <2> DEFINE x == NewAction(kind, value)
  <2>2. actions' = Append(actions, x) /\ UNCHANGED <<tl, view>> /\ ~x.completed
    BY <2>1 DEF Emit, engineVars, NewAction
  <2> HIDE DEF x
  <2>3. /\ Len(actions') = n + 1 /\ actions'[n + 1] = x
        /\ \A i \in 1..n : actions'[i] = actions[i]
    BY <1>0, <2>2 DEF TypeInv
  <2>4. \A i \in 1..n : Stays(i, i)
    BY <1>0, <2>3 DEF Stays
  <2>5. \A j \in 1..Len(actions') : j \in 1..n \/ actions'[j] = x
    BY <1>0, <2>3
  <2>6. \A i \in 1..n : i \in 1..Len(actions')
    BY <1>0, <2>3
  <2> QED
    BY <2>2, <2>4, <2>5, <2>6 DEF Passes, Unshown
<1>3. CASE Sends
  <2>1. PICK a \in ActionRecords : a.completed = Current.completed /\ Continue(a)
    BY <1>3 DEF Sends
  <2>2. /\ idx <= n /\ UNCHANGED <<tl, view>>
        /\ Current.state = "Executing" /\ Current.step = 1
    BY <1>3 DEF Sends, Step, engineVars
  <2>3. ~Current.completed
    BY <1>0, <2>2, CurrentTyped
  <2>4. /\ Len(actions') = n /\ actions'[idx] = a /\ idx \in 1..n
        /\ \A i \in 1..n : i # idx => actions'[i] = actions[i]
    BY <1>0, <2>1, <2>2, Continued
  <2>5. ~Unshown(actions[idx]) /\ ~Unshown(actions'[idx])
    BY <2>1, <2>3, <2>4 DEF Unshown, Current
  <2> QED
    BY <1>0, <1>1, <2>2, <2>4, <2>5
<1>4. CASE Checks
  <2>1. PICK a \in ActionRecords :
       /\ a = Current \/ (Current.completed /\ a = [Current EXCEPT !.state = "Executing", !.step = 2])
       /\ Continue(a)
    BY <1>4 DEF Checks
  <2>2. idx <= n /\ UNCHANGED <<tl, view>> /\ Current.state = "Waiting"
    BY <1>4 DEF Checks, Step, engineVars
  <2>3. Current \in ActionRecords
    BY <1>0, <2>2, CurrentTyped
  <2>4. /\ Len(actions') = n /\ actions'[idx] = a /\ idx \in 1..n
        /\ \A i \in 1..n : i # idx => actions'[i] = actions[i]
    BY <1>0, <2>1, <2>2, Continued
  <2>5. /\ a.kind = Current.kind /\ a.value = Current.value /\ a.target = Current.target
        /\ a.completed = Current.completed /\ a.state # "Finished"
    BY <2>1, <2>2, <2>3 DEF ActionRecords
  <2>6. Stays(idx, idx)
    BY <2>2, <2>4, <2>5 DEF Stays, Current, Unshown
  <2> QED
    BY <1>0, <1>1, <2>2, <2>4, <2>6
<1>5. CASE RestartsOne
  <2>1. /\ idx \in 1..n /\ UNCHANGED <<tl, view>> /\ Current.state = "Executing" /\ Current.kind \in {"Undo", "Redo"}
        /\ \A i \in 1..n : i # idx => actions'[i] = actions[i]
        /\ actions'[idx].state = "Finished"
        /\ actions' \in Seq(ActionRecords)
    BY <1>5 DEF RestartsOne, engineVars
  <2>2. \/ Len(actions') = n
        \/ Len(actions') = n + 1 /\ ~actions'[n + 1].completed
    BY <1>5 DEF RestartsOne, Takes
  <2>3. ~Unshown(actions'[idx])
    BY <2>1 DEF Unshown
  <2>4. ~Current.completed
    <3>1. idx <= n /\ Current.step = 1
      BY <1>0, <1>5, <2>1 DEF RestartsOne
    <3> QED
      BY <1>0, <2>1, <3>1, CurrentTyped
  <2>5. ~Unshown(actions[idx])
    BY <2>4 DEF Unshown, Current
  <2>6. \A j \in 1..Len(actions') : j \in 1..n \/ ~Unshown(actions'[j])
    BY <1>0, <2>2 DEF Unshown
  <2>7. n <= Len(actions') /\ Len(actions') \in Nat
    BY <1>0, <2>2
  <2> QED
    BY <1>1, <2>1, <2>3, <2>5, <2>6, <2>7
<1>6. CASE PassEnds
  <2>1. PICK kept \in Seq(Nat) : Keeps(kept)
    BY <1>6 DEF PassEnds
  <2>2. UNCHANGED <<tl, view>>
    BY <1>6 DEF PassEnds, engineVars
  <2>3. \A j \in 1..Len(actions') : Stays(kept[j], j)
    BY <2>1 DEF Keeps, Stays
  <2>4. \A i \in 1..n : Unshown(actions[i]) => \E j \in 1..Len(actions') : kept[j] = i
    BY <2>1 DEF Keeps, Unshown
  <2>5. \A j \in 1..Len(actions') : kept[j] \in 1..n
    BY <2>1 DEF Keeps
  <2> QED
    BY <2>2, <2>3, <2>4, <2>5 DEF Passes
<1>7. CASE NoMoreTasks \/ UNCHANGED vars
  <2>1. UNCHANGED <<tl, view, actions>>
    BY <1>7 DEF NoMoreTasks, vars, engineVars, listVars
  <2>2. \A i \in 1..n : Stays(i, i)
    BY <2>1 DEF Stays, Unshown
  <2> QED
    BY <2>1, <2>2 DEF Passes
<1> QED
  BY <1>2, <1>3, <1>4, <1>5, <1>6, <1>7

\* What the second step of an action does.
LEMMA ShowsOne ==
  ASSUME PlaybackAssumption, CoreInv, Shows
  PROVE  /\ idx \in 1..Len(actions) /\ Current \in ActionRecords /\ Fits(Current) /\ Unshown(Current)
         /\ Len(actions') = Len(actions) /\ actions'[idx].kind = Current.kind /\ ~Unshown(actions'[idx])
         /\ actions'[idx].state = "Finished"
         /\ actions'[idx].value = Current.value /\ actions'[idx].completed = Current.completed
         /\ actions'[idx].old = Current.old /\ actions'[idx].target = Current.target
         /\ \A i \in 1..Len(actions) : i # idx => actions'[i] = actions[i]
         /\ UNCHANGED <<engineVars, undoList, redoList, rtTasks, budget>>
<1> DEFINE a == [Current EXCEPT !.state = "Finished"]
<1>1. /\ idx <= Len(actions) /\ Current.state = "Executing" /\ Current.step = 2
      /\ Continue(a) /\ UNCHANGED rtTasks /\ Step
  BY DEF Shows, Finish
<1>2. Current \in ActionRecords /\ Fits(Current) /\ Current.completed
  BY <1>1, CurrentTyped DEF CoreInv
<1>3. /\ a \in ActionRecords /\ a.kind = Current.kind /\ a.state = "Finished" /\ a.value = Current.value
      /\ a.completed = Current.completed /\ a.old = Current.old /\ a.target = Current.target
  BY <1>2 DEF ActionRecords
<1> HIDE DEF a
<1>4. /\ Len(actions') = Len(actions) /\ actions'[idx] = a
      /\ \A i \in 1..Len(actions) : i # idx => actions'[i] = actions[i]
      /\ idx \in 1..Len(actions)
  BY <1>1, <1>3, Continued DEF CoreInv
<1> QED
  BY <1>1, <1>2, <1>3, <1>4 DEF Unshown, Step

LEMMA TimelineShownStep ==
  ASSUME PlaybackAssumption, CoreInv, TimelineShown, [Next]_vars
  PROVE  TimelineShown'
<1> DEFINE W(i) == i \in 1..Len(actions) /\ actions[i].kind \in Turning /\ Unshown(actions[i])
<1>0. TypeInv /\ RingInv /\ FramesInv /\ tl \in Timelines
  BY DEF CoreInv, TypeInv
<1>1. CASE Passes
  <2>1. CASE Shown
    <3>1. Shown'
      BY <1>1, <2>1 DEF Shown, Passes
    <3> QED
      BY <3>1 DEF TimelineShown
  <2>2. CASE \E i : W(i)
    <3>1. PICK i : W(i)
      BY <2>2
    <3>2. PICK j \in 1..Len(actions') : Stays(i, j)
      BY <1>1, <3>1 DEF Passes
    <3>3. actions'[j].kind \in Turning /\ Unshown(actions'[j])
      BY <3>1, <3>2 DEF Stays
    <3> QED
      BY <3>3 DEF TimelineShown, Unshown
  <2> QED
    BY <2>1, <2>2 DEF TimelineShown
<1>2. CASE Shows
  <2>1. /\ Len(actions') = Len(actions)
        /\ \A i \in 1..Len(actions) : i # idx => actions'[i] = actions[i]
        /\ UNCHANGED tl
    BY <1>2, ShowsOne DEF engineVars
  <2>2. CASE Current.kind \in Turning
    <3>1. view' = update(view, tl)
      BY <1>2, <2>2 DEF Shows, Turning
    <3>2. view \in Views
      BY <1>0 DEF TypeInv
    <3>3. Shown'
      BY <2>1, <3>1, <3>2 DEF Shown, update, Views
    <3> QED
      BY <3>3 DEF TimelineShown
  <2>3. CASE Current.kind \notin Turning
    <3>1. /\ view'.isLoop = view.isLoop /\ view'.recording = view.recording
          /\ view'.loopStart = view.loopStart /\ view'.loopEnd = view.loopEnd /\ view'.state = view.state
      <4>1. view \in Views
        BY <1>0 DEF TypeInv
      <4> QED
        BY <1>2, <2>3, <4>1 DEF Shows, Turning, Views
    <3>2. Shown => Shown'
      BY <2>1, <3>1 DEF Shown
    <3>3. ASSUME NEW i, W(i)
          PROVE  i # idx /\ actions'[i].kind \in Turning /\ Unshown(actions'[i]) /\ i \in 1..Len(actions')
      BY <2>1, <2>3, <3>3 DEF Current
    <3> QED
      BY <3>2, <3>3 DEF TimelineShown, Unshown
  <2> QED
    BY <2>2, <2>3
<1>3. CASE RunTask
  <2> DEFINE h == rtTasks[1]
             a == actions[h]
  <2>1. /\ h \in 1..Len(actions) /\ a \in ActionRecords /\ Fits(a) /\ a.state = "Waiting" /\ ~a.completed
        /\ Len(actions') = Len(actions)
        /\ actions'[h].kind = a.kind /\ actions'[h].state = a.state /\ actions'[h].completed
        /\ \A i \in 1..Len(actions) : i # h => actions'[i] = actions[i]
        /\ UNCHANGED view
    BY <1>0, <1>3, RunTaskRuns DEF RunsOne
  <2>2. tl' = Turned(tl, a)
    BY <1>0, <1>3, RunTaskTurns
  <2> HIDE DEF h
  <2>3. CASE a.kind \in Turning
    <3>1. actions'[h].kind \in Turning /\ Unshown(actions'[h]) /\ h \in 1..Len(actions')
      BY <2>1, <2>3 DEF Unshown
    <3> QED
      BY <3>1 DEF TimelineShown, Unshown
  <2>4. CASE a.kind \notin Turning
    <3>1. /\ tl'.isLoop = tl.isLoop /\ tl'.recording = tl.recording /\ tl'.state = tl.state
          /\ tl'.loopStart = tl.loopStart /\ tl'.loopEnd = tl.loopEnd
      BY <1>0, <2>1, <2>2, <2>4, TurnedKeeps
    <3>2. Shown => Shown'
      BY <2>1, <3>1 DEF Shown
    <3>3. ASSUME NEW i, W(i)
          PROVE  actions'[i].kind \in Turning /\ Unshown(actions'[i]) /\ i \in 1..Len(actions')
      <4>1. i # h
        BY <2>1, <3>3 DEF Unshown
      <4> QED
        BY <4>1, <2>1, <3>3
    <3> QED
      BY <3>2, <3>3 DEF TimelineShown, Unshown
  <2> QED
    BY <2>3, <2>4
<1>4. CASE processNextBlock
  <2>1. tl' = Elapsed(tl) /\ UNCHANGED <<view, actions>>
    BY <1>4 DEF processNextBlock, listVars
  <2>2. /\ tl'.isLoop = tl.isLoop /\ tl'.recording = tl.recording
        /\ tl'.loopStart = tl.loopStart /\ tl'.loopEnd = tl.loopEnd
        /\ tl'.state = IF tl.state = "Preparing" THEN "Play" ELSE tl.state
    BY <1>0, <2>1, ElapsedTurns, RangePositive DEF TypeInv
  <2>3. Shown => Shown'
    BY <2>1, <2>2 DEF Shown
  <2> QED
    BY <2>1, <2>3 DEF TimelineShown, Unshown
<1> QED
  BY <1>0, <1>1, <1>2, <1>3, <1>4, NextSteps, QuietPasses

(* ------------------- one change of the tempo at a time ------------------- *)

LEMMA AloneStep ==
  ASSUME PlaybackAssumption, CoreInv, Alone, [Next]_vars
  PROVE  Alone'
<1> DEFINE n == Len(actions)
<1>0. TypeInv /\ RingInv /\ n \in Nat /\ n <= 2 /\ budget.inFlight <= 1
  <2>1. TypeInv /\ RingInv /\ n \in Nat
    BY DEF CoreInv, TypeInv
  <2>2. budget.inFlight <= 1 /\ (n <= 1 \/ n = 2)
    BY DEF Alone, OneAction
  <2> HIDE DEF n
  <2> QED
    BY <2>1, <2>2
<1>1. ASSUME Len(actions') = n, n = 2 => actions'[1].kind = actions[1].kind /\ actions'[1].state = actions[1].state,
             n = 2 => actions'[2].kind = actions[2].kind
      PROVE  OneAction'
  BY <1>1 DEF Alone, OneAction
<1>2. CASE Asks
  <2>1. PICK what \in {"rolls", "toggles", "moves", "tempi", "clicks", "heads", "undos"}, kind \in Kinds, value \in Values :
          Emit(what, kind, value)
    BY <1>2 DEF Asks
  <2>2. budget'.inFlight = budget.inFlight
    BY <1>0, <2>1, Spent DEF Emit, TypeInv
  <2>3. budget.inFlight \in Nat
    <3>1. budget \in Budgets
      BY <1>0 DEF TypeInv
    <3> QED
      BY <3>1 DEF Budgets
  <2>4. n = 0 /\ actions' = Append(actions, NewAction(kind, value))
    BY <1>0, <2>1, <2>3 DEF Emit
  <2>5. Len(actions') = 1
    BY <1>0, <2>4 DEF TypeInv
  <2> QED
    BY <1>0, <2>2, <2>5 DEF Alone, OneAction
<1>3. CASE Sends \/ Checks
  <2>1. PICK a \in ActionRecords : Continue(a) /\ a.kind = Current.kind
    <3>1. CASE Sends
      BY <3>1 DEF Sends
    <3>2. CASE Checks
      <4>1. PICK a \in ActionRecords :
             /\ a = Current \/ (Current.completed /\ a = [Current EXCEPT !.state = "Executing", !.step = 2])
             /\ Continue(a)
        BY <3>2 DEF Checks
      <4>2. Current \in ActionRecords
        BY <1>0, <3>2, CurrentTyped DEF Checks
      <4>3. a.kind = Current.kind
        BY <4>1, <4>2 DEF ActionRecords
      <4> QED
        BY <4>1, <4>3
    <3> QED
      BY <1>3, <3>1, <3>2
  <2>2. /\ idx <= n /\ Current.state # "Finished" /\ UNCHANGED budget
    BY <1>3 DEF Sends, Checks, Step
  <2>3. /\ Len(actions') = n /\ actions'[idx] = a /\ idx \in 1..n
        /\ \A i \in 1..n : i # idx => actions'[i] = actions[i]
    BY <1>0, <2>1, <2>2, Continued
  <2>4. n = 2 => idx = 2
    BY <1>0, <2>2, <2>3 DEF Alone, OneAction, Current
  <2>5. OneAction'
    BY <1>1, <2>1, <2>3, <2>4 DEF Current
  <2> QED
    BY <1>0, <2>2, <2>5 DEF Alone
<1>4. CASE Shows
  <2>1. /\ Len(actions') = n /\ actions'[idx].kind = Current.kind /\ idx \in 1..n
        /\ Current.state # "Finished"
        /\ \A i \in 1..n : i # idx => actions'[i] = actions[i]
        /\ UNCHANGED budget
    BY <1>4, ShowsOne DEF Unshown
  <2>2. n = 2 => idx = 2
    BY <1>0, <2>1 DEF Alone, OneAction, Current
  <2>3. OneAction'
    BY <1>1, <2>1, <2>2 DEF Current
  <2> QED
    BY <1>0, <2>1, <2>3 DEF Alone
<1>5. CASE RestartsOne
  <2>1. /\ idx \in 1..n /\ Current.state = "Executing" /\ Current.kind \in {"Undo", "Redo"}
        /\ actions'[idx].kind = Current.kind /\ actions'[idx].state = "Finished" /\ UNCHANGED budget
    BY <1>5 DEF RestartsOne
  <2>2. n = 1 /\ idx = 1
    <3>1. CASE n = 2
      BY <3>1, <2>1 DEF Alone, OneAction, Current, Undoables
    <3>2. CASE n # 2
      <4> HIDE DEF n
      <4> QED
        BY <3>2, <1>0, <2>1
    <3> QED
      BY <3>1, <3>2
  <2>3. CASE Len(actions') = n
    BY <1>0, <2>1, <2>2, <2>3 DEF Alone, OneAction
  <2>4. ASSUME NEW list, NEW shorter, Takes(list, shorter),
               \A i \in 1..Len(list) : list[i].kind \in Undoables, Len(list) \in Nat
        PROVE  Alone'
    <3>1. Len(actions') = 2 /\ actions'[2].kind \in Undoables
      BY <2>2, <2>4 DEF Takes
    <3> QED
      BY <1>0, <2>1, <2>2, <3>1 DEF Alone, OneAction
  <2> QED
    <3>1. /\ Len(undoList) \in Nat /\ Len(redoList) \in Nat
          /\ \A i \in 1..Len(undoList) : undoList[i].kind \in Undoables
          /\ \A i \in 1..Len(redoList) : redoList[i].kind \in Undoables
      BY <1>0 DEF RingInv, TypeInv
    <3>2. Len(actions') = n \/ Takes(undoList, undoList') \/ Takes(redoList, redoList')
      BY <1>5 DEF RestartsOne
    <3> QED
      BY <2>3, <2>4, <3>1, <3>2
<1>6. CASE PassEnds
  <2>1. PICK kept \in Seq(Nat) : Keeps(kept)
    BY <1>6 DEF PassEnds
  <2>2. /\ Len(actions') = Len(kept) /\ Len(kept) \in Nat
        /\ \A j \in 1..Len(kept) : kept[j] \in 1..n /\ actions[kept[j]].state # "Finished"
        /\ \A i, j \in 1..Len(kept) : kept[i] = kept[j] => i = j
    BY <2>1 DEF Keeps
  <2>3. \A i, j \in 1..Len(kept) : kept[i] = kept[j]
    <3>1. n = 2 => \A i \in 1..Len(kept) : kept[i] = 2
      BY <2>2 DEF Alone, OneAction
    <3>2. n # 2 => \A i \in 1..Len(kept) : kept[i] = 1
      <4> HIDE DEF n
      <4> QED
        BY <1>0, <2>2
    <3> QED
      BY <3>1, <3>2
  <2>4. Len(kept) <= 1
    <3>1. CASE Len(kept) >= 2
      <4>1. 1 \in 1..Len(kept) /\ 2 \in 1..Len(kept)
        BY <3>1, <2>2
      <4>2. 1 = 2
        BY <4>1, <2>2, <2>3
      <4> QED
        BY <4>2
    <3> QED
      BY <3>1, <2>2
  <2>5. UNCHANGED budget
    BY <1>6 DEF PassEnds
  <2> QED
    BY <1>0, <2>2, <2>4, <2>5 DEF Alone, OneAction
<1>7. CASE RunTask
  <2> DEFINE h == rtTasks[1]
  <2>1. /\ h \in 1..n /\ Len(actions') = n
        /\ actions'[h].kind = actions[h].kind /\ actions'[h].state = actions[h].state
        /\ \A i \in 1..n : i # h => actions'[i] = actions[i]
        /\ UNCHANGED budget
    BY <1>0, <1>7, RunTaskRuns DEF RunsOne
  <2>2. \A i \in 1..n : actions'[i].kind = actions[i].kind /\ actions'[i].state = actions[i].state
    BY <2>1
  <2>3. n = 2 => 1 \in 1..n /\ 2 \in 1..n
    OBVIOUS
  <2>4. OneAction'
    BY <1>1, <2>1, <2>2, <2>3
  <2> QED
    BY <1>0, <2>1, <2>4 DEF Alone
<1>8. CASE NoMoreTasks
  <2>1. budget' = [budget EXCEPT !.blocks = @ - 1] /\ UNCHANGED actions
    BY <1>8 DEF NoMoreTasks, listVars
  <2>2. budget \in Budgets
    BY <1>0 DEF TypeInv
  <2>3. budget'.inFlight = budget.inFlight
    BY <2>1, <2>2 DEF Budgets
  <2> QED
    BY <1>0, <2>1, <2>3 DEF Alone, OneAction
<1>9. CASE processNextBlock \/ UNCHANGED vars
  <2>1. UNCHANGED <<actions, budget>>
    BY <1>9 DEF processNextBlock, listVars, vars
  <2> QED
    BY <1>0, <2>1 DEF Alone, OneAction
<1> QED
  BY <1>0, <1>2, <1>3, <1>4, <1>5, <1>6, <1>7, <1>8, <1>9, NextSteps

OneTempoIn(list) == AtMostOne(list, "ChangeSignatureBpm")

TempoIn(list) == Has(list, "ChangeSignatureBpm")

\* Lists whose elements keep their kinds keep their changes of the tempo.
LEMMA SameKinds ==
  ASSUME NEW s, NEW t, Len(s) = Len(t), \A i \in 1..Len(s) : s[i].kind = t[i].kind
  PROVE  OneTempoIn(s) = OneTempoIn(t) /\ TempoIn(s) = TempoIn(t)
BY DEF OneTempoIn, TempoIn, AtMostOne, Has

LEMMA OneTempoMoves ==
  ASSUME OneTempo, UNCHANGED budget,
         NEW one \in {undoList, redoList}, NEW shorter, NEW other,
         Len(one) \in Nat, Len(actions) \in Nat, Len(shorter) \in Nat,
         Takes(one, shorter),
         \A i \in 1..Len(actions) : actions'[i].kind = actions[i].kind,
         OneTempoIn(other), ~(TempoIn(one) /\ TempoIn(other)), ~(TempoIn(actions) /\ TempoIn(other))
  PROVE  /\ OneTempoIn(actions') /\ OneTempoIn(shorter)
         /\ ~(TempoIn(actions') /\ TempoIn(shorter)) /\ ~(TempoIn(actions') /\ TempoIn(other))
         /\ ~(TempoIn(shorter) /\ TempoIn(other))
         /\ TempoIn(actions') => TempoIn(actions) \/ TempoIn(one)
         /\ TempoIn(shorter) => TempoIn(one)
<1> DEFINE n == Len(actions)
           T == "ChangeSignatureBpm"
           l == one[Len(one)]
<1>1. /\ Len(one) > 0 /\ Len(shorter) = Len(one) - 1 /\ \A i \in 1..Len(shorter) : shorter[i] = one[i]
      /\ Len(actions') = n + 1 /\ actions'[n + 1].kind = l.kind
  BY DEF Takes
<1>2. OneTempoIn(one) /\ OneTempoIn(actions) /\ ~(TempoIn(actions) /\ TempoIn(one))
  BY DEF OneTempo, OneTempoIn, TempoIn
<1>3. \A i \in 1..Len(shorter) : i \in 1..Len(one) /\ i # Len(one)
  BY <1>1
<1>4. Len(one) \in 1..Len(one)
  BY <1>1
<1>5. OneTempoIn(shorter) /\ (TempoIn(shorter) => TempoIn(one))
  BY <1>1, <1>2, <1>3 DEF OneTempoIn, TempoIn, AtMostOne, Has
<1>6. \A i \in 1..Len(actions') : i \in 1..n \/ i = n + 1
  BY <1>1
<1>7. n + 1 \notin 1..n /\ n + 1 \in 1..Len(actions')
  BY <1>1
<1>8. CASE l.kind = T
  <2>1. TempoIn(one)
    BY <1>4, <1>8 DEF TempoIn, Has
  <2>2. ~TempoIn(actions) /\ ~TempoIn(other)
    BY <2>1, <1>2
  <2>3. ~TempoIn(shorter)
    BY <1>1, <1>2, <1>3, <1>4, <1>8 DEF OneTempoIn, TempoIn, AtMostOne, Has
  <2>4. \A i \in 1..Len(actions') : actions'[i].kind = T => i = n + 1
    BY <2>2, <1>6 DEF TempoIn, Has
  <2>5. OneTempoIn(actions')
    BY <2>4 DEF OneTempoIn, AtMostOne
  <2> QED
    BY <2>1, <2>2, <2>3, <2>5, <1>5
<1>9. CASE l.kind # T
  <2>1. \A i \in 1..Len(actions') : actions'[i].kind = T => i \in 1..n /\ actions[i].kind = T
    BY <1>1, <1>6, <1>9
  <2>2. OneTempoIn(actions') /\ (TempoIn(actions') => TempoIn(actions))
    BY <2>1, <1>2 DEF OneTempoIn, TempoIn, AtMostOne, Has
  <2> QED
    BY <2>2, <1>2, <1>5
<1> QED
  BY <1>8, <1>9

LEMMA OneTempoStep ==
  ASSUME PlaybackAssumption, CoreInv, OneTempo, [Next]_vars
  PROVE  OneTempo'
<1> DEFINE n == Len(actions)
           T == "ChangeSignatureBpm"
           LaterTempo ==
             /\ OneTempoIn(actions') /\ OneTempoIn(undoList') /\ OneTempoIn(redoList')
             /\ ~(TempoIn(actions') /\ TempoIn(undoList')) /\ ~(TempoIn(actions') /\ TempoIn(redoList'))
             /\ ~(TempoIn(undoList') /\ TempoIn(redoList'))
             /\ budget'.tempi <= 1
             /\ budget'.tempi = 1 => ~TempoIn(actions') /\ ~TempoIn(undoList') /\ ~TempoIn(redoList')
<1>0. TypeInv /\ RingInv /\ n \in Nat /\ Len(undoList) \in Nat /\ Len(redoList) \in Nat
  BY DEF CoreInv, TypeInv
<1>a. /\ OneTempoIn(actions) /\ OneTempoIn(undoList) /\ OneTempoIn(redoList)
      /\ ~(TempoIn(actions) /\ TempoIn(undoList)) /\ ~(TempoIn(actions) /\ TempoIn(redoList))
      /\ ~(TempoIn(undoList) /\ TempoIn(redoList))
      /\ budget.tempi <= 1
      /\ budget.tempi = 1 => ~TempoIn(actions) /\ ~TempoIn(undoList) /\ ~TempoIn(redoList)
  BY DEF OneTempo, OneTempoIn, TempoIn
<1>b. ASSUME LaterTempo
      PROVE  OneTempo'
  BY <1>b DEF OneTempo, OneTempoIn, TempoIn, Has, AtMostOne
<1>c. ASSUME UNCHANGED <<undoList, redoList>>, budget'.tempi = budget.tempi,
             Len(actions') = n, \A i \in 1..n : actions'[i].kind = actions[i].kind
      PROVE  OneTempo'
  <2>1. OneTempoIn(actions') = OneTempoIn(actions) /\ TempoIn(actions') = TempoIn(actions)
    BY <1>c, SameKinds
  <2> QED
    BY <2>1, <1>a, <1>b, <1>c
<1> HIDE DEF LaterTempo
<1>1. CASE Asks
  <2>1. PICK what \in {"rolls", "toggles", "moves", "tempi", "clicks", "heads", "undos"}, kind \in Kinds, value \in Values :
          Emit(what, kind, value) /\ Asked(what, kind, value)
    BY <1>1 DEF Asks
  <2>2. /\ actions' = Append(actions, NewAction(kind, value)) /\ UNCHANGED <<undoList, redoList>>
        /\ budget[what] > 0 /\ budget' = [budget EXCEPT ![what] = @ - 1]
    BY <2>1 DEF Emit
  <2>3. budget \in Budgets
    BY <1>0 DEF TypeInv
  <2>4. budget'.tempi = IF what = "tempi" THEN budget.tempi - 1 ELSE budget.tempi
    BY <2>2, <2>3, Spent
  <2>5. /\ Len(actions') = n + 1 /\ actions'[n + 1].kind = kind
        /\ \A i \in 1..n : actions'[i] = actions[i]
    BY <1>0, <2>2 DEF TypeInv, NewAction
  <2>6. \A i \in 1..Len(actions') : i \in 1..n \/ i = n + 1
    BY <1>0, <2>5
  <2>7. budget.tempi \in Nat
    BY <2>3 DEF Budgets
  <2>8. CASE kind = T
    <3>1. what = "tempi"
      BY <2>1, <2>8 DEF Asked
    <3>2. budget.tempi = 1 /\ budget'.tempi = 0
      BY <3>1, <2>2, <2>4, <2>7, <1>a
    <3>3. ~TempoIn(actions) /\ ~TempoIn(undoList) /\ ~TempoIn(redoList)
      BY <3>2, <1>a
    <3>4. \A i \in 1..Len(actions') : actions'[i].kind = T => i = n + 1
      BY <3>3, <2>5, <2>6 DEF TempoIn, Has
    <3>5. OneTempoIn(actions')
      BY <3>4 DEF OneTempoIn, AtMostOne
    <3> QED
      BY <3>2, <3>3, <3>5, <1>a, <1>b, <2>2 DEF LaterTempo
  <2>9. CASE kind # T
    <3>1. what # "tempi"
      BY <2>1, <2>9 DEF Asked
    <3>2. \A i \in 1..Len(actions') : actions'[i].kind = T => i \in 1..n /\ actions[i].kind = T
      BY <2>5, <2>6, <2>9
    <3>3. OneTempoIn(actions') /\ (TempoIn(actions') => TempoIn(actions))
      BY <3>2, <1>a DEF OneTempoIn, TempoIn, AtMostOne, Has
    <3>4. budget'.tempi = budget.tempi
      BY <3>1, <2>4
    <3> QED
      BY <3>3, <3>4, <1>a, <1>b, <2>2 DEF LaterTempo
  <2> QED
    BY <2>8, <2>9
<1>2. CASE Sends \/ Checks
  <2>1. PICK a \in ActionRecords : Continue(a) /\ a.kind = Current.kind
    <3>1. CASE Sends
      BY <3>1 DEF Sends
    <3>2. CASE Checks
      <4>1. PICK a \in ActionRecords :
             /\ a = Current \/ (Current.completed /\ a = [Current EXCEPT !.state = "Executing", !.step = 2])
             /\ Continue(a)
        BY <3>2 DEF Checks
      <4>2. Current \in ActionRecords
        BY <1>0, <3>2, CurrentTyped DEF Checks
      <4>3. a.kind = Current.kind
        BY <4>1, <4>2 DEF ActionRecords
      <4> QED
        BY <4>1, <4>3
    <3> QED
      BY <1>2, <3>1, <3>2
  <2>2. idx <= n /\ UNCHANGED <<undoList, redoList, budget>>
    BY <1>2 DEF Sends, Checks, Step
  <2>3. /\ Len(actions') = n /\ actions'[idx] = a /\ idx \in 1..n
        /\ \A i \in 1..n : i # idx => actions'[i] = actions[i]
    BY <1>0, <2>1, <2>2, Continued
  <2>4. \A i \in 1..n : actions'[i].kind = actions[i].kind
    BY <2>1, <2>3 DEF Current
  <2> QED
    BY <1>c, <2>2, <2>3, <2>4
<1>3. CASE Shows
  <2>1. /\ Len(actions') = n /\ actions'[idx].kind = Current.kind
        /\ \A i \in 1..n : i # idx => actions'[i] = actions[i]
        /\ UNCHANGED <<undoList, redoList, budget>>
    BY <1>3, ShowsOne
  <2>2. \A i \in 1..n : actions'[i].kind = actions[i].kind
    BY <2>1 DEF Current
  <2> QED
    BY <1>c, <2>1, <2>2
<1>4. CASE RestartsOne
  <2>1. /\ \A i \in 1..n : actions'[i].kind = actions[i].kind
        /\ UNCHANGED budget
        /\ \/ Len(actions') = n /\ UNCHANGED <<undoList, redoList>>
           \/ Takes(undoList, undoList') /\ UNCHANGED redoList
           \/ Takes(redoList, redoList') /\ UNCHANGED undoList
    BY <1>4 DEF RestartsOne, Current
  <2>2. CASE Len(actions') = n /\ UNCHANGED <<undoList, redoList>>
    BY <1>c, <2>1, <2>2
  <2>3. CASE Takes(undoList, undoList') /\ UNCHANGED redoList
    <3>1. Len(undoList') \in Nat
      BY <2>3, <1>0 DEF Takes
    <3>2. /\ OneTempoIn(actions') /\ OneTempoIn(undoList')
          /\ ~(TempoIn(actions') /\ TempoIn(undoList')) /\ ~(TempoIn(actions') /\ TempoIn(redoList))
          /\ ~(TempoIn(undoList') /\ TempoIn(redoList))
          /\ TempoIn(actions') => TempoIn(actions) \/ TempoIn(undoList)
          /\ TempoIn(undoList') => TempoIn(undoList)
      BY <2>1, <2>3, <3>1, <1>0, <1>a, OneTempoMoves
    <3> QED
      BY <3>2, <1>a, <1>b, <2>1, <2>3 DEF LaterTempo
  <2>4. CASE Takes(redoList, redoList') /\ UNCHANGED undoList
    <3>1. Len(redoList') \in Nat
      BY <2>4, <1>0 DEF Takes
    <3>2. /\ OneTempoIn(actions') /\ OneTempoIn(redoList')
          /\ ~(TempoIn(actions') /\ TempoIn(redoList')) /\ ~(TempoIn(actions') /\ TempoIn(undoList))
          /\ ~(TempoIn(redoList') /\ TempoIn(undoList))
          /\ TempoIn(actions') => TempoIn(actions) \/ TempoIn(redoList)
          /\ TempoIn(redoList') => TempoIn(redoList)
      BY <2>1, <2>4, <3>1, <1>0, <1>a, OneTempoMoves
    <3> QED
      BY <3>2, <1>a, <1>b, <2>1, <2>4 DEF LaterTempo
  <2> QED
    BY <2>1, <2>2, <2>3, <2>4
<1>5. CASE PassEnds
  <2>1. PICK kept \in Seq(Nat) : Keeps(kept)
    BY <1>5 DEF PassEnds
  <2>2. PICK forward \in Seq(Nat), backward \in Seq(Nat) :
          /\ GrowsBy(undoList, undoList', forward) /\ GrowsBy(redoList, redoList', backward)
          /\ \A i \in 1..Len(forward), j \in 1..Len(backward) : forward[i] # backward[j]
    BY <1>5 DEF PassEnds
  <2>3. UNCHANGED budget
    BY <1>5 DEF PassEnds
  <2>4. /\ Len(actions') = Len(kept)
        /\ \A j \in 1..Len(kept) : /\ kept[j] \in 1..n /\ actions[kept[j]].state # "Finished"
                                   /\ actions'[j].kind = actions[kept[j]].kind
        /\ \A i, j \in 1..Len(kept) : kept[i] = kept[j] => i = j
    BY <2>1 DEF Keeps
  <2> DEFINE Sources(list, longer, places) ==
               \A i \in 1..Len(longer) :
                 \/ i \in 1..Len(list) /\ longer[i] = list[i]
                 \/ /\ i - Len(list) \in 1..Len(places) /\ longer[i].kind = actions[places[i - Len(list)]].kind
                    /\ places[i - Len(list)] \in 1..n /\ actions[places[i - Len(list)]].state = "Finished"
  <2>5. ASSUME NEW list \in {undoList, redoList}, NEW longer, NEW places \in Seq(Nat), GrowsBy(list, longer, places)
        PROVE  Sources(list, longer, places)
    <3> SUFFICES ASSUME NEW i \in 1..Len(longer), i \notin 1..Len(list)
                 PROVE  /\ i - Len(list) \in 1..Len(places) /\ longer[i].kind = actions[places[i - Len(list)]].kind
                        /\ places[i - Len(list)] \in 1..n /\ actions[places[i - Len(list)]].state = "Finished"
      BY <2>5 DEF GrowsBy
    <3>1. Len(list) \in Nat /\ Len(places) \in Nat /\ Len(longer) = Len(list) + Len(places)
      BY <1>0, <2>5 DEF GrowsBy
    <3> DEFINE k == i - Len(list)
    <3>2. k \in 1..Len(places) /\ Len(list) + k = i
      BY <3>1
    <3> HIDE DEF k
    <3>3. longer[Len(list) + k] = actions[places[k]] /\ places[k] \in 1..n /\ actions[places[k]].state = "Finished"
      BY <3>2, <2>5 DEF GrowsBy
    <3> QED
      BY <3>2, <3>3 DEF k
  <2> HIDE DEF Sources
  <2>6. CASE ~TempoIn(actions)
    <3>1. \A i \in 1..n : actions[i].kind # T
      BY <2>6 DEF TempoIn, Has
    <3>2. ~TempoIn(actions') /\ OneTempoIn(actions')
      BY <3>1, <2>4 DEF TempoIn, Has, OneTempoIn, AtMostOne
    <3>3. ASSUME NEW list \in {undoList, redoList}, NEW longer, NEW places \in Seq(Nat), GrowsBy(list, longer, places)
          PROVE  OneTempoIn(longer) /\ (TempoIn(longer) => TempoIn(list))
      <4>1. \A i \in 1..Len(longer) : longer[i].kind = T => i \in 1..Len(list) /\ list[i].kind = T
        <5> SUFFICES ASSUME NEW i \in 1..Len(longer), longer[i].kind = T
                     PROVE  i \in 1..Len(list) /\ list[i].kind = T
          OBVIOUS
        <5>1. \/ i \in 1..Len(list) /\ longer[i] = list[i]
              \/ \E q \in 1..n : longer[i].kind = actions[q].kind
          <6>1. Sources(list, longer, places)
            BY <2>5, <3>3
          <6> QED
            BY <6>1 DEF Sources
        <5> QED
          BY <5>1, <3>1
      <4>2. OneTempoIn(list)
        BY <1>a
      <4> QED
        BY <4>1, <4>2 DEF TempoIn, Has, OneTempoIn, AtMostOne
    <3>4. /\ OneTempoIn(undoList') /\ OneTempoIn(redoList')
          /\ TempoIn(undoList') => TempoIn(undoList)
          /\ TempoIn(redoList') => TempoIn(redoList)
      BY <2>2, <3>3
    <3> QED
      BY <3>2, <3>4, <1>a, <1>b, <2>3 DEF LaterTempo
  <2>7. CASE TempoIn(actions)
    <3>1. PICK p \in 1..n : actions[p].kind = T
      BY <2>7 DEF TempoIn, Has
    <3>2. \A i \in 1..n : actions[i].kind = T => i = p
      BY <3>1, <1>a DEF OneTempoIn, AtMostOne
    <3>3. \A j \in 1..Len(actions') : actions'[j].kind = T => kept[j] = p /\ actions[p].state # "Finished"
      BY <3>2, <2>4
    <3>4. OneTempoIn(actions') /\ (TempoIn(actions') => actions[p].state # "Finished")
      BY <3>3, <2>4 DEF OneTempoIn, AtMostOne, TempoIn, Has
    <3>5. ASSUME NEW list \in {undoList, redoList}, NEW longer, NEW places \in Seq(Nat), GrowsBy(list, longer, places)
          PROVE  /\ OneTempoIn(longer)
                 /\ TempoIn(longer) => actions[p].state = "Finished" /\ \E k \in 1..Len(places) : places[k] = p
      <4> DEFINE m == Len(list)
      <4>1. \A i \in 1..m : list[i].kind # T
        BY <2>7, <1>a DEF TempoIn, Has
      <4>2. \A i \in 1..Len(longer) : longer[i].kind = T =>
              i - m \in 1..Len(places) /\ places[i - m] = p /\ actions[p].state = "Finished"
        <5> SUFFICES ASSUME NEW i \in 1..Len(longer), longer[i].kind = T
                     PROVE  i - m \in 1..Len(places) /\ places[i - m] = p /\ actions[p].state = "Finished"
          OBVIOUS
        <5> DEFINE q == places[i - m]
        <5>1. \/ i \in 1..m /\ longer[i] = list[i]
              \/ /\ i - m \in 1..Len(places) /\ longer[i].kind = actions[q].kind
                 /\ q \in 1..n /\ actions[q].state = "Finished"
          <6>1. Sources(list, longer, places)
            BY <2>5, <3>5
          <6> QED
            BY <6>1 DEF Sources
        <5> HIDE DEF q
        <5>2. i - m \in 1..Len(places) /\ q = p /\ actions[p].state = "Finished"
          BY <5>1, <4>1, <3>2
        <5> QED
          BY <5>2 DEF q
      <4>3. m \in Nat /\ Len(longer) \in Nat
        BY <1>0, <3>5 DEF GrowsBy
      <4> HIDE DEF m
      <4>4. \A i, j \in 1..Len(longer) : longer[i].kind = T /\ longer[j].kind = T => i = j
        <5> SUFFICES ASSUME NEW i \in 1..Len(longer), NEW j \in 1..Len(longer),
                            longer[i].kind = T, longer[j].kind = T
                     PROVE  i = j
          OBVIOUS
        <5>1. i - m = j - m
          <6>1. /\ i - m \in 1..Len(places) /\ j - m \in 1..Len(places)
                /\ places[i - m] = places[j - m]
            BY <4>2
          <6>2. \A a, b \in 1..Len(places) : places[a] = places[b] => a = b
            BY <3>5 DEF GrowsBy
          <6> QED
            BY <6>1, <6>2
        <5> QED
          BY <5>1, <4>3
      <4>5. OneTempoIn(longer)
        BY <4>4 DEF OneTempoIn, AtMostOne
      <4> QED
        BY <4>2, <4>5 DEF TempoIn, Has
    <3>6. /\ OneTempoIn(undoList') /\ OneTempoIn(redoList')
          /\ TempoIn(undoList') => actions[p].state = "Finished"
          /\ TempoIn(redoList') => actions[p].state = "Finished"
          /\ ~(TempoIn(undoList') /\ TempoIn(redoList'))
      BY <2>2, <3>5
    <3>7. budget'.tempi <= 1 /\ budget'.tempi # 1
      BY <2>3, <2>7, <1>a
    <3> QED
      BY <3>4, <3>6, <3>7, <1>b DEF LaterTempo
  <2> QED
    BY <2>6, <2>7
<1>6. CASE RunTask
  <2> DEFINE h == rtTasks[1]
  <2>1. /\ Len(actions') = n /\ actions'[h].kind = actions[h].kind
        /\ \A i \in 1..n : i # h => actions'[i] = actions[i]
        /\ UNCHANGED <<undoList, redoList, budget>>
    BY <1>0, <1>6, RunTaskRuns DEF RunsOne
  <2>2. \A i \in 1..n : actions'[i].kind = actions[i].kind
    BY <2>1
  <2> QED
    BY <1>c, <2>1, <2>2
<1>7. CASE NoMoreTasks
  <2>1. budget' = [budget EXCEPT !.blocks = @ - 1] /\ UNCHANGED <<actions, undoList, redoList>>
    BY <1>7 DEF NoMoreTasks, listVars
  <2>2. budget \in Budgets
    BY <1>0 DEF TypeInv
  <2>3. budget'.tempi = budget.tempi
    BY <2>1, <2>2 DEF Budgets
  <2> QED
    BY <1>c, <2>1, <2>3
<1>8. CASE processNextBlock \/ UNCHANGED vars
  <2>1. UNCHANGED <<actions, undoList, redoList, budget>>
    BY <1>8 DEF processNextBlock, listVars, vars
  <2> QED
    BY <1>c, <2>1
<1> QED
  BY <1>0, <1>1, <1>2, <1>3, <1>4, <1>5, <1>6, <1>7, <1>8, NextSteps

LEMMA SerialStep ==
  ASSUME PlaybackAssumption, CoreInv, SerialInv, [Next]_vars
  PROVE  SerialInv'
BY AloneStep, OneTempoStep DEF SerialInv

LEMMA SerialOne ==
  ASSUME CoreInv, SerialInv
  PROVE  \A i, j \in 1..Len(actions) :
           actions[i].kind = "ChangeSignatureBpm" /\ actions[j].kind = "ChangeSignatureBpm" => i = j
<1>1. Len(actions) \in Nat
  BY DEF CoreInv, TypeInv
<1>2. CASE OneTempo
  BY <1>2 DEF OneTempo, AtMostOne
<1>3. CASE Len(actions) <= 1
  BY <1>1, <1>3
<1>4. CASE Len(actions) = 2 /\ actions[1].kind \in {"Undo", "Redo"}
  BY <1>4
<1> QED
  BY <1>2, <1>3, <1>4 DEF SerialInv, Alone, OneAction

LEMMA TempoShownStep ==
  ASSUME PlaybackAssumption, CoreInv, SerialInv, TempoShown, [Next]_vars
  PROVE  TempoShown'
<1> DEFINE T == "ChangeSignatureBpm"
           n == Len(actions)
           W(i) == i \in 1..n /\ actions[i].kind = T /\ Unshown(actions[i])
           Synced == view.bpm = tl.bpm /\ view.size = tl.size
<1>0. TypeInv /\ RingInv /\ FramesInv /\ tl \in Timelines /\ view \in Views
  BY DEF CoreInv, TypeInv
<1>a. \A i \in 1..n : W(i) => actions[i].target = Tempo(tl)
  BY DEF TempoShown
<1>b. Synced \/ \E i \in 1..n : W(i)
  BY DEF TempoShown
<1>c. ASSUME \A j \in 1..Len(actions') : actions'[j].kind = T /\ Unshown(actions'[j]) => actions'[j].target = Tempo(tl'),
             \/ view'.bpm = tl'.bpm /\ view'.size = tl'.size
             \/ \E j \in 1..Len(actions') : actions'[j].kind = T /\ Unshown(actions'[j])
      PROVE  TempoShown'
  BY <1>c DEF TempoShown, Unshown, Tempo
<1>1. CASE Passes
  <2>1. UNCHANGED <<tl, view>>
    BY <1>1 DEF Passes
  <2>2. \A j \in 1..Len(actions') : actions'[j].kind = T /\ Unshown(actions'[j]) => actions'[j].target = Tempo(tl)
    <3> SUFFICES ASSUME NEW j \in 1..Len(actions'), actions'[j].kind = T, Unshown(actions'[j])
                 PROVE  actions'[j].target = Tempo(tl)
      OBVIOUS
    <3>1. PICK i \in 1..n : Stays(i, j)
      BY <1>1 DEF Passes
    <3>2. W(i) /\ actions'[j].target = actions[i].target
      BY <3>1 DEF Stays
    <3> QED
      BY <3>2, <1>a
  <2>3. ASSUME NEW i \in 1..n, W(i)
        PROVE  \E j \in 1..Len(actions') : actions'[j].kind = T /\ Unshown(actions'[j])
    BY <1>1, <2>3 DEF Passes, Stays
  <2> QED
    BY <2>1, <2>2, <2>3, <1>b, <1>c
<1>2. CASE Shows
  <2>1. /\ idx \in 1..n /\ Current \in ActionRecords /\ Fits(Current) /\ Unshown(Current)
        /\ Len(actions') = n /\ actions'[idx].kind = Current.kind /\ ~Unshown(actions'[idx])
        /\ \A i \in 1..n : i # idx => actions'[i] = actions[i]
        /\ UNCHANGED tl
    BY <1>2, ShowsOne DEF engineVars
  <2>2. \A j \in 1..Len(actions') : actions'[j].kind = T /\ Unshown(actions'[j]) => actions'[j].target = Tempo(tl')
    BY <2>1, <1>a
  <2>3. CASE Current.kind = T
    <3>1. Current.target = Tempo(tl)
      BY <2>1, <2>3, <1>a DEF Current
    <3>2. view' = [view EXCEPT !.bpm = Current.target.bpm, !.size = Current.target.size]
      BY <1>2, <2>3 DEF Shows
    <3>3. view'.bpm = tl'.bpm /\ view'.size = tl'.size
      BY <3>1, <3>2, <2>1, <1>0 DEF Tempo, Views
    <3> QED
      BY <3>3, <2>2, <1>c
  <2>4. CASE Current.kind \in Turning
    <3>1. view' = update(view, tl)
      BY <1>2, <2>4 DEF Shows, Turning
    <3>2. view'.bpm = tl'.bpm /\ view'.size = tl'.size
      BY <3>1, <2>1, <1>0 DEF update, Views
    <3> QED
      BY <3>2, <2>2, <1>c
  <2>5. CASE Current.kind \notin Turning \cup {T}
    <3>1. view'.bpm = view.bpm /\ view'.size = view.size
      BY <1>0, <1>2, <2>5 DEF Shows, Turning, Views
    <3>2. ASSUME NEW i \in 1..n, W(i)
          PROVE  actions'[i].kind = T /\ Unshown(actions'[i]) /\ i \in 1..Len(actions')
      BY <2>1, <2>5, <3>2 DEF Current
    <3> QED
      BY <3>1, <3>2, <2>1, <2>2, <1>b, <1>c
  <2> QED
    BY <2>3, <2>4, <2>5
<1>3. CASE RunTask
  <2> DEFINE h == rtTasks[1]
             a == actions[h]
  <2>1. /\ h \in 1..n /\ a \in ActionRecords /\ Fits(a) /\ a.state = "Waiting" /\ ~a.completed
        /\ Len(actions') = n
        /\ actions'[h].kind = a.kind /\ actions'[h].state = a.state /\ actions'[h].completed
        /\ a.kind # "UpdatePlayhead" => actions'[h].target = a.target
        /\ \A i \in 1..n : i # h => actions'[i] = actions[i]
        /\ UNCHANGED view
    BY <1>0, <1>3, RunTaskRuns DEF RunsOne
  <2>2. tl' = Turned(tl, a)
    BY <1>0, <1>3, RunTaskTurns
  <2>3. CASE a.kind = T
    <3>1. Tempo(tl') = a.target /\ actions'[h].target = a.target
      BY <2>1, <2>2, <2>3, <1>0, TurnedKeeps
    <3>2. Unshown(actions'[h]) /\ h \in 1..Len(actions') /\ actions'[h].kind = T
      BY <2>1, <2>3 DEF Unshown
    <3>3. \A j \in 1..n : j # h => actions'[j].kind # T
      <4>1. \A j \in 1..n : actions[j].kind = T => j = h
        BY <2>1, <2>3, SerialOne
      <4> QED
        BY <4>1, <2>1
    <3>4. \A j \in 1..Len(actions') : actions'[j].kind = T /\ Unshown(actions'[j]) => actions'[j].target = Tempo(tl')
      BY <3>1, <3>3, <2>1
    <3> QED
      BY <3>2, <3>4, <1>c
  <2>4. CASE a.kind # T
    <3>1. tl'.bpm = tl.bpm /\ tl'.size = tl.size
      BY <2>1, <2>2, <2>4, <1>0, TurnedKeeps
    <3>2. Tempo(tl') = Tempo(tl)
      BY <3>1 DEF Tempo
    <3>3. \A j \in 1..Len(actions') : actions'[j].kind = T /\ Unshown(actions'[j]) => actions'[j].target = Tempo(tl')
      BY <3>2, <2>1, <2>4, <1>a
    <3>4. ASSUME NEW i \in 1..n, W(i)
          PROVE  actions'[i].kind = T /\ Unshown(actions'[i]) /\ i \in 1..Len(actions')
      BY <2>1, <2>4, <3>4
    <3> QED
      BY <3>1, <3>3, <3>4, <2>1, <1>b, <1>c
  <2> QED
    BY <2>3, <2>4
<1>4. CASE processNextBlock
  <2>1. tl' = Elapsed(tl) /\ UNCHANGED <<view, actions>>
    BY <1>4 DEF processNextBlock, listVars
  <2>2. tl'.bpm = tl.bpm /\ tl'.size = tl.size
    BY <1>0, <2>1, ElapsedTurns, RangePositive DEF TypeInv
  <2>3. Tempo(tl') = Tempo(tl)
    BY <2>2 DEF Tempo
  <2> QED
    BY <2>1, <2>2, <2>3, <1>a, <1>b, <1>c
<1> QED
  BY <1>0, <1>1, <1>2, <1>3, <1>4, NextSteps, QuietPasses

LEMMA InitLists ==
  ASSUME PlaybackAssumption, Init
  PROVE  /\ actions = <<>> /\ undoList = <<>> /\ redoList = <<>>
         /\ budget \in Workloads /\ budget \in Budgets
         /\ tl.state = "Stop" /\ ~tl.ongoing /\ tl.loopStart = budget.loop[1]
         /\ view.bpm = tl.bpm /\ view.size = tl.size /\ Shown /\ expected = 0
<1>1. actions = <<>> /\ undoList = <<>> /\ redoList = <<>> /\ budget \in Workloads /\ expected = 0
  BY DEF Init
<1>2. budget \in Budgets
  BY <1>1 DEF PlaybackAssumption, Budgets, Loops
<1>3. PICK bpm \in budget.tempos, size \in Sizes :
       tl = [bpm |-> bpm, size |-> size, state |-> "Stop", recording |-> FALSE, isLoop |-> budget.isLoop,
             start |-> 0, lastLoop |-> 0, loopStart |-> budget.loop[1], loopEnd |-> budget.loop[2],
             ongoing |-> FALSE, lastElapsed |-> 0]
  BY DEF Init
<1>4. view = [bpm |-> tl.bpm, size |-> tl.size, state |-> tl.state, recording |-> tl.recording,
              isLoop |-> tl.isLoop, loopStart |-> tl.loopStart, loopEnd |-> tl.loopEnd,
              framesPerBeat |-> framesPerBeat(tl), playhead |-> 0]
  BY DEF Init, update
<1>5. tl.state = "Stop" /\ ~tl.ongoing /\ tl.loopStart = budget.loop[1]
  BY <1>3
<1>6. view.bpm = tl.bpm /\ view.size = tl.size /\ Shown
  BY <1>4 DEF Shown
<1> QED
  BY <1>1, <1>2, <1>5, <1>6

\* The snapshot follows the timeline: when no action is under way it shows the loop,
\* the state and the tempo that the real-time thread plays (TimelineView::update and
\* step 2 of the actions of Actions/Timeline), for every workload that has one change
\* of the tempo under way at a time.
THEOREM ViewFollowsTimelineAlways ==
  ASSUME TempoChangesAlone
  PROVE  Spec => []ViewFollowsTimeline
<1> USE PlaybackAssumption
<1> DEFINE IInv == CoreInv /\ SerialInv /\ TempoShown /\ TimelineShown
<1>1. Init => IInv
  <2> SUFFICES ASSUME Init
               PROVE  IInv
    OBVIOUS
  <2>1. CoreInv
    BY CoreInit
  <2>2. /\ Len(actions) = 0 /\ Len(undoList) = 0 /\ Len(redoList) = 0
        /\ budget.tempi <= 1 \/ budget.inFlight <= 1
        /\ view.bpm = tl.bpm /\ view.size = tl.size /\ Shown
    BY InitLists DEF TempoChangesAlone
  <2>3. SerialInv
    BY <2>2 DEF SerialInv, Alone, OneAction, OneTempo, Has, AtMostOne
  <2>4. TempoShown /\ TimelineShown
    BY <2>2 DEF TempoShown, TimelineShown
  <2> QED
    BY <2>1, <2>3, <2>4
<1>2. IInv /\ [Next]_vars => IInv'
  BY CoreStep, SerialStep, TempoShownStep, TimelineShownStep
<1>3. IInv => ViewFollowsTimeline
  <2> SUFFICES ASSUME IInv, actions = <<>>
               PROVE  /\ view.bpm = tl.bpm /\ view.size = tl.size /\ Shown
    BY DEF ViewFollowsTimeline, Shown
  <2> QED
    BY DEF TempoShown, TimelineShown
<1> QED
  BY <1>1, <1>2, <1>3, PTL DEF Spec

(* ---------------------- where an action comes from ----------------------- *)

\* The action x is y, or y sent with what it found.
From(x, y) ==
  /\ x.kind = y.kind /\ x.value = y.value
  /\ x.kind = "LoopPosition" =>
       {x.old, x.target} \subseteq {y.value, y.old, y.target, <<tl.loopStart, tl.loopEnd>>}

New(x) ==
  \E what \in {"rolls", "toggles", "moves", "tempi", "clicks", "heads", "undos"} :
    Asked(what, x.kind, x.value) /\ budget[what] > 0 /\ x.old = x.value /\ x.target = x.value

LEMMA Sources ==
  ASSUME PlaybackAssumption, CoreInv, [Next]_vars, NEW x \in Everything'
  PROVE  New(x) \/ \E y \in Everything : From(x, y)
<1> DEFINE n == Len(actions)
<1>0. TypeInv /\ RingInv /\ n \in Nat /\ Len(undoList) \in Nat /\ Len(redoList) \in Nat
  BY DEF CoreInv, TypeInv
<1>a. \A y \in Everything : From(y, y)
  BY DEF From
<1>b. /\ \A i \in 1..n : actions[i] \in Everything
      /\ \A i \in 1..Len(undoList) : undoList[i] \in Everything
      /\ \A i \in 1..Len(redoList) : redoList[i] \in Everything
  BY DEF Everything
<1>c. \/ \E i \in 1..Len(actions') : x = actions'[i]
      \/ \E i \in 1..Len(undoList') : x = undoList'[i]
      \/ \E i \in 1..Len(redoList') : x = redoList'[i]
  BY DEF Everything
<1>d. ASSUME UNCHANGED <<undoList, redoList>>, Len(actions') = n, NEW k \in 1..n,
             New(actions'[k]) \/ From(actions'[k], actions[k]),
             \A i \in 1..n : i # k => actions'[i] = actions[i]
      PROVE  New(x) \/ \E y \in Everything : From(x, y)
  BY <1>a, <1>b, <1>c, <1>d
<1>1. CASE Asks
  <2>1. PICK what \in {"rolls", "toggles", "moves", "tempi", "clicks", "heads", "undos"}, kind \in Kinds, value \in Values :
          Emit(what, kind, value) /\ Asked(what, kind, value)
    BY <1>1 DEF Asks
  <2> DEFINE z == NewAction(kind, value)
  <2>2. /\ actions' = Append(actions, z) /\ UNCHANGED <<undoList, redoList>> /\ budget[what] > 0
        /\ z.kind = kind /\ z.value = value /\ z.old = value /\ z.target = value
    BY <2>1 DEF Emit, NewAction
  <2> HIDE DEF z
  <2>3. Len(actions') = n + 1 /\ actions'[n + 1] = z /\ \A i \in 1..n : actions'[i] = actions[i]
    BY <1>0, <2>2 DEF TypeInv
  <2>4. \A i \in 1..Len(actions') : i \in 1..n \/ actions'[i] = z
    BY <1>0, <2>3
  <2>5. New(z)
    BY <2>1, <2>2 DEF New
  <2> QED
    BY <1>a, <1>b, <1>c, <2>2, <2>3, <2>4, <2>5
<1>2. CASE Sends
  <2>1. PICK a \in ActionRecords :
       /\ a.kind = Current.kind /\ a.value = Current.value
       /\ a.kind = "LoopPosition" =>
            {a.old, a.target} \subseteq {Current.value, Current.old, <<tl.loopStart, tl.loopEnd>>}
       /\ Continue(a)
    BY <1>2 DEF Sends
  <2>2. idx <= n /\ UNCHANGED <<undoList, redoList>>
    BY <1>2 DEF Sends, Step
  <2>3. /\ Len(actions') = n /\ actions'[idx] = a /\ idx \in 1..n
        /\ \A i \in 1..n : i # idx => actions'[i] = actions[i]
    BY <1>0, <2>1, <2>2, Continued
  <2>4. From(actions'[idx], actions[idx])
    BY <2>1, <2>3 DEF From, Current
  <2> QED
    BY <1>d, <2>2, <2>3, <2>4
<1>3. CASE Shows
  <2>1. /\ idx \in 1..n /\ Len(actions') = n /\ actions'[idx].kind = Current.kind
        /\ actions'[idx].value = Current.value
        /\ actions'[idx].old = Current.old /\ actions'[idx].target = Current.target
        /\ \A i \in 1..n : i # idx => actions'[i] = actions[i]
        /\ UNCHANGED <<undoList, redoList>>
    BY <1>3, ShowsOne
  <2>2. From(actions'[idx], actions[idx])
    BY <2>1 DEF From, Current
  <2> QED
    BY <1>d, <2>1, <2>2
<1>4. CASE Checks
  <2>1. PICK a \in ActionRecords :
       /\ a = Current \/ (Current.completed /\ a = [Current EXCEPT !.state = "Executing", !.step = 2])
       /\ Continue(a)
    BY <1>4 DEF Checks
  <2>2. idx <= n /\ UNCHANGED <<undoList, redoList>>
    BY <1>4 DEF Checks, Step
  <2>3. Current \in ActionRecords
    BY <1>0, <2>2, CurrentTyped
  <2>4. /\ Len(actions') = n /\ actions'[idx] = a /\ idx \in 1..n
        /\ \A i \in 1..n : i # idx => actions'[i] = actions[i]
    BY <1>0, <2>1, <2>2, Continued
  <2>5. a.kind = Current.kind /\ a.value = Current.value /\ a.old = Current.old /\ a.target = Current.target
    BY <2>1, <2>3 DEF ActionRecords
  <2>6. From(actions'[idx], actions[idx])
    BY <2>4, <2>5 DEF From, Current
  <2> QED
    BY <1>d, <2>2, <2>4, <2>6
<1>5. CASE RestartsOne
  <2>1. /\ idx \in 1..n /\ Current.kind \in {"Undo", "Redo"}
        /\ \A i \in 1..n : i # idx => actions'[i] = actions[i]
        /\ actions'[idx].kind = Current.kind
    BY <1>5 DEF RestartsOne
  <2>2. \A i \in 1..n : i = idx \/ From(actions'[i], actions[i])
    BY <2>1 DEF From
  <2>3. ASSUME NEW list \in {undoList, redoList}, NEW shorter, Takes(list, shorter)
        PROVE  /\ From(actions'[n + 1], list[Len(list)]) /\ list[Len(list)] \in Everything
               /\ Len(actions') = n + 1
               /\ \A i \in 1..Len(shorter) : shorter[i] \in Everything
    <3>1. Len(list) \in 1..Len(list)
      BY <1>0, <2>3 DEF Takes
    <3>2. \A i \in 1..Len(list) : list[i] \in Everything
      BY <1>b
    <3>3. \A i \in 1..Len(shorter) : i \in 1..Len(list) /\ shorter[i] = list[i]
      BY <1>0, <2>3 DEF Takes
    <3> QED
      BY <2>3, <3>1, <3>2, <3>3 DEF Takes, From
  <2>4. From(actions'[idx], actions[idx])
    <3>1. actions'[idx].value = actions[idx].value
      BY <1>5 DEF RestartsOne, Current
    <3> QED
      BY <2>1, <3>1 DEF From, Current
  <2>5. \A i \in 1..Len(actions') : i \in 1..n \/ (i = n + 1 /\ Len(actions') = n + 1)
    BY <1>0, <1>5 DEF RestartsOne, Takes
  <2>6. CASE Len(actions') = n /\ UNCHANGED <<undoList, redoList>>
    BY <2>6, <2>1, <2>4, <1>d
  <2>7. CASE Takes(undoList, undoList') /\ UNCHANGED redoList
    BY <2>7, <2>2, <2>3, <2>4, <2>5, <1>a, <1>b, <1>c
  <2>8. CASE Takes(redoList, redoList') /\ UNCHANGED undoList
    BY <2>8, <2>2, <2>3, <2>4, <2>5, <1>a, <1>b, <1>c
  <2> QED
    BY <1>5, <2>6, <2>7, <2>8 DEF RestartsOne
<1>6. CASE PassEnds
  <2>1. PICK kept \in Seq(Nat) : Keeps(kept)
    BY <1>6 DEF PassEnds
  <2>2. PICK forward \in Seq(Nat), backward \in Seq(Nat) :
          GrowsBy(undoList, undoList', forward) /\ GrowsBy(redoList, redoList', backward)
    BY <1>6 DEF PassEnds
  <2>3. \A i \in 1..Len(actions') : actions'[i] \in Everything
    BY <2>1, <1>b DEF Keeps
  <2>4. ASSUME NEW list \in {undoList, redoList}, NEW longer, NEW places \in Seq(Nat), GrowsBy(list, longer, places)
        PROVE  \A i \in 1..Len(longer) : longer[i] \in Everything
    <3> SUFFICES ASSUME NEW i \in 1..Len(longer)
                 PROVE  longer[i] \in Everything
      OBVIOUS
    <3>1. CASE i \in 1..Len(list)
      BY <3>1, <2>4, <1>b DEF GrowsBy
    <3>2. CASE i \notin 1..Len(list)
      <4> DEFINE k == i - Len(list)
      <4>1. Len(list) \in Nat /\ Len(places) \in Nat /\ Len(longer) = Len(list) + Len(places)
        BY <1>0, <2>4 DEF GrowsBy
      <4>2. k \in 1..Len(places) /\ Len(list) + k = i
        BY <3>2, <4>1
      <4> HIDE DEF k
      <4>3. longer[Len(list) + k] = actions[places[k]] /\ places[k] \in 1..n
        BY <4>2, <2>4 DEF GrowsBy
      <4> QED
        BY <4>2, <4>3, <1>b
    <3> QED
      BY <3>1, <3>2
  <2>5. /\ \A i \in 1..Len(undoList') : undoList'[i] \in Everything
        /\ \A i \in 1..Len(redoList') : redoList'[i] \in Everything
    BY <2>2, <2>4
  <2>6. x \in Everything
    BY <2>3, <2>5, <1>c
  <2> QED
    BY <2>6, <1>a
<1>7. CASE RunTask
  <2> DEFINE h == rtTasks[1]
             a == actions[h]
  <2>1. /\ h \in 1..n /\ Len(actions') = n
        /\ actions'[h].kind = a.kind /\ actions'[h].value = a.value /\ actions'[h].old = a.old
        /\ a.kind # "UpdatePlayhead" => actions'[h].target = a.target
        /\ \A i \in 1..n : i # h => actions'[i] = actions[i]
        /\ UNCHANGED <<undoList, redoList>>
    BY <1>0, <1>7, RunTaskRuns DEF RunsOne
  <2>2. From(actions'[h], actions[h])
    BY <2>1 DEF From
  <2> HIDE DEF h
  <2> QED
    BY <1>d, <2>1, <2>2
<1>8. CASE NoMoreTasks \/ processNextBlock \/ UNCHANGED vars
  <2>1. UNCHANGED <<actions, undoList, redoList>>
    BY <1>8 DEF NoMoreTasks, processNextBlock, listVars, vars
  <2> QED
    BY <2>1, <1>a, <1>b, <1>c
<1> QED
  BY <1>0, <1>1, <1>2, <1>3, <1>4, <1>5, <1>6, <1>7, <1>8, NextSteps

LEMMA BudgetShrinks ==
  ASSUME PlaybackAssumption, CoreInv, [Next]_vars
  PROVE  /\ budget.rolls = 0 => budget'.rolls = 0
         /\ budget.moves = 0 => budget'.moves = 0
         /\ budget.toggles = 0 => budget'.toggles = 0
         /\ budget'.starts = budget.starts
<1>0. TypeInv /\ RingInv /\ budget \in Budgets
  BY DEF CoreInv, TypeInv
<1>1. CASE Asks
  <2>1. PICK what \in {"rolls", "toggles", "moves", "tempi", "clicks", "heads", "undos"}, kind \in Kinds, value \in Values :
          Emit(what, kind, value)
    BY <1>1 DEF Asks
  <2>2. budget[what] > 0 /\ budget' = [budget EXCEPT ![what] = @ - 1]
    BY <2>1 DEF Emit
  <2>3. /\ budget'.rolls = IF what = "rolls" THEN budget.rolls - 1 ELSE budget.rolls
        /\ budget'.toggles = IF what = "toggles" THEN budget.toggles - 1 ELSE budget.toggles
        /\ budget'.moves = IF what = "moves" THEN budget.moves - 1 ELSE budget.moves
        /\ budget'.starts = budget.starts
    BY <1>0, <2>2, Spent
  <2> QED
    BY <2>2, <2>3
<1>2. CASE NoMoreTasks
  <2>1. budget' = [budget EXCEPT !.blocks = @ - 1]
    BY <1>2 DEF NoMoreTasks
  <2> QED
    BY <1>0, <2>1 DEF Budgets
<1>3. CASE Sends \/ Shows \/ Checks \/ RestartsOne \/ PassEnds \/ RunTask \/ processNextBlock \/ UNCHANGED vars
  <2>1. UNCHANGED budget
    BY <1>3 DEF Sends, Shows, Checks, Step, RestartsOne, PassEnds, RunTask, processNextBlock, vars
  <2> QED
    BY <2>1
<1> QED
  BY <1>0, <1>1, <1>2, <1>3, NextSteps

\* What is not asked for any more and is on no list never comes back.
LEMMA NeverStep ==
  ASSUME PlaybackAssumption, CoreInv, [Next]_vars,
         NEW what \in {"rolls", "moves", "toggles"}, NEW kind,
         <<what, kind>> \in {<<"rolls", "ChangeTimelineState">>, <<"moves", "LoopPosition">>, <<"toggles", "ToggleLoop">>},
         Never(what, kind)
  PROVE  Never(what, kind)'
<1>1. budget'[what] = 0
  BY BudgetShrinks DEF Never
<1>2. \A x : New(x) => x.kind # kind
  BY DEF New, Asked, Never
<1>3. \A x \in Everything' : x.kind # kind
  BY <1>2, Sources DEF From, Never
<1> QED
  BY <1>1, <1>3 DEF Never

LEMMA FromZeroStep ==
  ASSUME PlaybackAssumption, CoreInv, [Next]_vars, FromZero
  PROVE  FromZero'
<1> DEFINE Zero(x) == x.kind = "LoopPosition" => x.value[1] = 0 /\ x.old[1] = 0 /\ x.target[1] = 0
<1>0. TypeInv /\ RingInv /\ FramesInv /\ tl \in Timelines /\ view \in Views
  BY DEF CoreInv, TypeInv
<1>1. \A x \in Everything' : Zero(x)
  <2> SUFFICES ASSUME NEW x \in Everything', x.kind = "LoopPosition"
               PROVE  x.value[1] = 0 /\ x.old[1] = 0 /\ x.target[1] = 0
    OBVIOUS
  <2>1. CASE New(x)
    BY <2>1 DEF New, Asked, FromZero
  <2>2. ASSUME NEW y \in Everything, From(x, y)
        PROVE  x.value[1] = 0 /\ x.old[1] = 0 /\ x.target[1] = 0
    <3>1. y.value[1] = 0 /\ y.old[1] = 0 /\ y.target[1] = 0 /\ <<tl.loopStart, tl.loopEnd>>[1] = 0
      BY <2>2 DEF From, FromZero
    <3> QED
      BY <3>1, <2>2 DEF From
  <2> QED
    BY <2>1, <2>2, Sources
<1>2. tl'.loopStart = 0
  <2>1. CASE RunTask
    <3> DEFINE a == actions[rtTasks[1]]
    <3>1. /\ tl' = Turned(tl, a) /\ rtTasks[1] \in 1..Len(actions) /\ a \in ActionRecords /\ Fits(a)
      BY <1>0, <2>1, RunTaskTurns, RunTaskRuns DEF RunsOne
    <3>2. a \in Everything
      BY <3>1 DEF Everything
    <3> HIDE DEF a
    <3>3. CASE a.kind = "LoopPosition"
      BY <3>1, <3>2, <3>3, <1>0 DEF Turned, FromZero, Timelines
    <3>4. CASE a.kind = "ChangeTimelineState"
      <4>1. a.target \in Commands
        BY <3>1, <3>4 DEF Fits
      <4>2. setTimelineState(tl, a.target).loopStart = tl.loopStart
        BY <4>1, <1>0 DEF setTimelineState, play, Commands, Timelines
      <4> QED
        BY <3>1, <3>4, <4>2 DEF Turned, FromZero
    <3>5. CASE a.kind = "ToggleLoop"
      <4>1. setLoopState(tl, a.target).loopStart = tl.loopStart
        BY <1>0 DEF setLoopState, Timelines
      <4> QED
        BY <3>1, <3>5, <4>1 DEF Turned, FromZero
    <3>6. CASE a.kind \notin Turning
      BY <3>1, <3>6, <1>0, TurnedKeeps DEF FromZero
    <3> QED
      BY <3>3, <3>4, <3>5, <3>6 DEF Turning
  <2>2. CASE processNextBlock
    <3>1. tl' = Elapsed(tl)
      BY <2>2 DEF processNextBlock
    <3> QED
      BY <3>1, <1>0, ElapsedTurns, RangePositive DEF TypeInv, FromZero
  <2>3. CASE Passes \/ Shows
    <3>1. UNCHANGED tl
      BY <2>3, ShowsOne DEF Passes, engineVars
    <3> QED
      BY <3>1 DEF FromZero
  <2> QED
    BY <1>0, <2>1, <2>2, <2>3, NextSteps, QuietPasses
<1>3. view'.loopStart = 0
  <2>1. CASE Shows
    <3>1. view'.loopStart \in {view.loopStart, tl.loopStart}
      BY <1>0, <2>1 DEF Shows, update, Views
    <3> QED
      BY <3>1 DEF FromZero
  <2>2. CASE Passes \/ RunTask \/ processNextBlock
    <3>1. UNCHANGED view
      BY <2>2 DEF Passes, RunTask, processNextBlock
    <3> QED
      BY <3>1 DEF FromZero
  <2> QED
    BY <1>0, <2>1, <2>2, NextSteps, QuietPasses
<1>4. budget'.starts = {}
  BY BudgetShrinks DEF FromZero
<1> QED
  BY <1>1, <1>2, <1>3, <1>4 DEF FromZero

(* ---------------------------- the play head ------------------------------ *)

\* A toggle asked for turns the loop that the timeline has: nothing else is under way.
LEMMA TogglesStep ==
  ASSUME PlaybackAssumption, CoreInv, [Next]_vars, Alone, Toggles, TimelineShown
  PROVE  Toggles'
<1> DEFINE n == Len(actions)
           K == "ToggleLoop"
           Good(x, on) == x.kind = K /\ ~x.completed =>
                            /\ x.value = ~on
                            /\ x.state = "Waiting" => x.target = x.value
<1>0. TypeInv /\ RingInv /\ FramesInv /\ tl \in Timelines /\ n \in Nat
  BY DEF CoreInv, TypeInv
<1>a. \A i \in 1..n : Good(actions[i], tl.isLoop)
  BY DEF Toggles
<1>b. ASSUME \A i \in 1..Len(actions') : Good(actions'[i], tl'.isLoop)
      PROVE  Toggles'
  BY <1>b DEF Toggles
<1> HIDE DEF Good
<1>1. CASE Asks
  <2>1. PICK what, kind, value : Emit(what, kind, value) /\ Asked(what, kind, value)
    BY <1>1 DEF Asks
  <2> DEFINE x == NewAction(kind, value)
  <2>2. actions' = Append(actions, x) /\ UNCHANGED tl /\ n < budget.inFlight
    BY <2>1 DEF Emit, engineVars
  <2>3. n = 0
    <3>1. budget.inFlight \in Nat /\ budget.inFlight <= 1
      <4>1. budget \in Budgets
        BY <1>0 DEF TypeInv
      <4> QED
        BY <4>1 DEF Alone, Budgets
    <3> HIDE DEF n
    <3> QED
      BY <1>0, <2>2, <3>1
  <2>4. Shown
    <3>1. ~\E i \in 1..n : actions[i].kind \in Turning /\ Unshown(actions[i])
      BY <2>3
    <3> QED
      BY <3>1 DEF TimelineShown
  <2>5. Good(x, tl.isLoop)
    <3>1. kind = K => value = ~view.isLoop
      BY <2>1 DEF Asked
    <3>2. x.kind = kind /\ x.value = value /\ x.state = "Executing"
      BY DEF NewAction
    <3>3. view.isLoop = tl.isLoop
      BY <2>4 DEF Shown
    <3> HIDE DEF x
    <3> QED
      BY <3>1, <3>2, <3>3 DEF Good
  <2> HIDE DEF x
  <2>6. Len(actions') = 1 /\ actions'[1] = x
    BY <1>0, <2>2, <2>3 DEF TypeInv
  <2> QED
    BY <1>b, <2>2, <2>5, <2>6
<1>2. CASE Sends
  <2>1. PICK a \in ActionRecords :
       /\ a.kind = Current.kind /\ a.value = Current.value /\ a.completed = Current.completed
       /\ a.kind = "ToggleLoop" => a.target = a.value
       /\ Continue(a)
    BY <1>2 DEF Sends
  <2>2. idx <= n /\ UNCHANGED tl
    BY <1>2 DEF Sends, Step, engineVars
  <2>3. /\ Len(actions') = n /\ actions'[idx] = a /\ idx \in 1..n
        /\ \A i \in 1..n : i # idx => actions'[i] = actions[i]
    BY <1>0, <2>1, <2>2, Continued
  <2>4. Good(a, tl.isLoop)
    BY <2>1, <2>3, <1>a DEF Good, Current
  <2> QED
    BY <1>a, <1>b, <2>2, <2>3, <2>4
<1>3. CASE Shows
  <2>1. /\ Len(actions') = n /\ actions'[idx].kind = Current.kind
        /\ actions'[idx].completed = Current.completed /\ Unshown(Current)
        /\ \A i \in 1..n : i # idx => actions'[i] = actions[i]
        /\ UNCHANGED tl
    BY <1>3, ShowsOne DEF engineVars
  <2>2. Good(actions'[idx], tl.isLoop)
    BY <2>1 DEF Unshown, Good
  <2> QED
    BY <1>a, <1>b, <2>1, <2>2
<1>4. CASE Checks
  <2>1. PICK a \in ActionRecords :
       /\ a = Current \/ (Current.completed /\ a = [Current EXCEPT !.state = "Executing", !.step = 2])
       /\ Continue(a)
    BY <1>4 DEF Checks
  <2>2. idx <= n /\ UNCHANGED tl
    BY <1>4 DEF Checks, Step, engineVars
  <2>3. Current \in ActionRecords
    BY <1>0, <2>2, CurrentTyped
  <2>4. /\ Len(actions') = n /\ actions'[idx] = a /\ idx \in 1..n
        /\ \A i \in 1..n : i # idx => actions'[i] = actions[i]
    BY <1>0, <2>1, <2>2, Continued
  <2>5. a = Current \/ a.completed
    BY <2>1, <2>3 DEF ActionRecords
  <2>6. Good(a, tl.isLoop)
    BY <2>4, <2>5, <1>a DEF Good, Current
  <2> QED
    BY <1>a, <1>b, <2>2, <2>4, <2>6
<1>5. CASE RestartsOne
  <2>1. /\ idx \in 1..n /\ Current.kind \in {"Undo", "Redo"} /\ UNCHANGED tl
        /\ \A i \in 1..n : i # idx => actions'[i] = actions[i]
        /\ actions'[idx].kind = Current.kind
    BY <1>5 DEF RestartsOne, engineVars
  <2>2. Good(actions'[idx], tl.isLoop)
    BY <2>1 DEF Good
  <2>3. ASSUME NEW list \in {undoList, redoList}, NEW shorter, Takes(list, shorter)
        PROVE  actions'[n + 1].kind # K /\ Len(actions') = n + 1
    <3>1. Len(list) \in Nat /\ \A i \in 1..Len(list) : list[i].kind \in Undoables
      BY <1>0 DEF RingInv, TypeInv
    <3>2. Len(list) \in 1..Len(list) /\ actions'[n + 1].kind = list[Len(list)].kind /\ Len(actions') = n + 1
      BY <3>1, <2>3 DEF Takes
    <3> QED
      BY <3>1, <3>2 DEF Undoables
  <2>4. Len(actions') = n \/ (actions'[n + 1].kind # K /\ Len(actions') = n + 1)
    BY <1>5, <2>3 DEF RestartsOne
  <2>5. \A i \in 1..Len(actions') : i \in 1..n \/ actions'[i].kind # K
    BY <1>0, <2>4
  <2>6. \A i \in 1..Len(actions') : Good(actions'[i], tl.isLoop)
    <3> SUFFICES ASSUME NEW i \in 1..Len(actions')
                 PROVE  Good(actions'[i], tl.isLoop)
      OBVIOUS
    <3>1. CASE actions'[i].kind # K
      BY <3>1 DEF Good
    <3> QED
      BY <3>1, <2>1, <2>2, <2>5, <1>a
  <2> QED
    BY <1>b, <2>1, <2>6
<1>6. CASE PassEnds
  <2>1. PICK kept \in Seq(Nat) : Keeps(kept)
    BY <1>6 DEF PassEnds
  <2>2. \A j \in 1..Len(actions') : \E i \in 1..n : actions'[j] = actions[i]
    BY <2>1 DEF Keeps
  <2>3. UNCHANGED tl
    BY <1>6 DEF PassEnds, engineVars
  <2> QED
    BY <1>a, <1>b, <2>2, <2>3
<1>7. CASE RunTask
  <2> DEFINE h == rtTasks[1]
             a == actions[h]
  <2>1. /\ h \in 1..n /\ a \in ActionRecords /\ Fits(a) /\ a.state = "Waiting"
        /\ Len(actions') = n
        /\ actions'[h].kind = a.kind /\ actions'[h].completed
        /\ \A i \in 1..n : i # h => actions'[i] = actions[i]
    BY <1>0, <1>7, RunTaskRuns DEF RunsOne
  <2>2. tl' = Turned(tl, a)
    BY <1>0, <1>7, RunTaskTurns
  <2>3. Good(actions'[h], tl'.isLoop)
    BY <2>1 DEF Good
  <2>4. CASE a.kind = K
    <3>1. \A i \in 1..n : i # h => actions[i].kind # K
      <4>1. CASE n <= 1
        <5> HIDE DEF n
        <5> QED
          BY <4>1, <1>0, <2>1
      <4>2. CASE n = 2 /\ actions[1].kind \in {"Undo", "Redo"} /\ actions[2].kind \in Undoables
        BY <4>2 DEF Undoables
      <4> QED
        BY <4>1, <4>2 DEF Alone, OneAction
    <3>2. \A i \in 1..n : i # h => Good(actions'[i], tl'.isLoop)
      BY <3>1, <2>1 DEF Good
    <3> QED
      BY <3>2, <2>1, <2>3, <1>b
  <2>5. CASE a.kind # K
    <3>1. tl'.isLoop = tl.isLoop
      <4>1. CASE a.kind = "ChangeTimelineState"
        <5>1. a.target \in Commands
          BY <2>1, <4>1 DEF Fits
        <5>2. setTimelineState(tl, a.target).isLoop = tl.isLoop
          BY <5>1, <1>0 DEF setTimelineState, play, Commands, Timelines
        <5> QED
          BY <4>1, <5>2, <2>2 DEF Turned
      <4>2. CASE a.kind = "LoopPosition"
        BY <4>2, <2>2, <1>0 DEF Turned, Timelines
      <4>3. CASE a.kind \notin Turning
        BY <4>3, <2>1, <2>2, <1>0, TurnedKeeps
      <4> QED
        BY <2>5, <4>1, <4>2, <4>3 DEF Turning
    <3> HIDE DEF h
    <3> QED
      BY <3>1, <2>1, <2>3, <1>a, <1>b
  <2> QED
    BY <2>4, <2>5
<1>8. CASE processNextBlock
  <2>1. tl' = Elapsed(tl) /\ UNCHANGED actions
    BY <1>8 DEF processNextBlock, listVars
  <2>2. tl'.isLoop = tl.isLoop
    BY <1>0, <2>1, ElapsedTurns, RangePositive DEF TypeInv
  <2> QED
    BY <2>1, <2>2, <1>a, <1>b
<1>9. CASE NoMoreTasks \/ UNCHANGED vars
  <2>1. UNCHANGED <<tl, actions>>
    BY <1>9 DEF NoMoreTasks, vars, engineVars, listVars
  <2> QED
    BY <2>1, <1>a, <1>b
<1> QED
  BY <1>0, <1>1, <1>2, <1>3, <1>4, <1>5, <1>6, <1>7, <1>8, <1>9, NextSteps

\* The numbers of a block, while the play head is where PlayInv has it.
LEMMA BlockPlays ==
  ASSUME PlaybackAssumption, CoreInv, PlayInv, phase = "play", tl.state = "Play"
  PROVE  /\ Position(tl) = expected /\ expected <= Since /\ Since \in Nat
         /\ Wrap(framesPassed - tl.start + BlockSize) = Since + BlockSize
         /\ Wrap(Position(tl) + BlockSize) = expected + BlockSize
         /\ framesPassed + BlockSize < FrameRange
<1>1. /\ BlockSize \in Nat /\ FrameRange \in Nat \ {0} /\ framesPassed \in Nat /\ expected \in Nat
      /\ tl \in Timelines
      /\ framesPassed + BlockSize < FrameRange
  <2> DEFINE b == budget.blocks * BlockSize
  <2>1. /\ BlockSize \in Nat /\ FrameRange \in Nat \ {0} /\ framesPassed \in Nat /\ expected \in Nat
        /\ tl \in Timelines /\ b \in Nat
    BY RangePositive DEF CoreInv, TypeInv
  <2>2. framesPassed + b + BlockSize < FrameRange
    BY DEF CoreInv, FramesInv
  <2> HIDE DEF b
  <2> QED
    BY <2>1, <2>2
<1>2. tl.start \in Nat /\ tl.lastLoop \in Nat /\ tl.loopStart \in Nat /\ tl.isLoop \in BOOLEAN /\ tl.ongoing \in BOOLEAN
  BY <1>1 DEF Timelines
<1> DEFINE off == IF tl.ongoing THEN tl.loopStart ELSE 0
<1>3. /\ tl.start <= framesPassed
      /\ tl.isLoop => tl.lastLoop <= Since
      /\ expected = IF tl.isLoop THEN Since - tl.lastLoop + off ELSE Since
      /\ tl.isLoop => off <= tl.lastLoop
      /\ off \in Nat
  BY <1>2 DEF PlayInv
<1>4. Since \in Nat /\ Since <= framesPassed
  BY <1>1, <1>2, <1>3 DEF Since
<1>5. Wrap(framesPassed - tl.start) = Since
  BY <1>1, <1>4, WrapSmall DEF Since
<1> HIDE DEF off
<1>6. expected <= Since
  BY <1>2, <1>3, <1>4
<1>7. Wrap(expected) = expected /\ Wrap(Since + BlockSize) = Since + BlockSize
      /\ Wrap(expected + BlockSize) = expected + BlockSize
  <2>1. Since + BlockSize \in Nat /\ Since + BlockSize < FrameRange
    BY <1>1, <1>4
  <2>2. expected + BlockSize \in Nat /\ expected + BlockSize < FrameRange /\ expected < FrameRange
    BY <1>1, <1>4, <1>6
  <2> QED
    BY <1>1, <2>1, <2>2, WrapSmall
<1>8. Position(tl) = expected
  <2>1. Position(tl) = IF tl.isLoop THEN Wrap(Since - tl.lastLoop + off) ELSE Since
    BY <1>5 DEF Position, off
  <2> QED
    BY <1>3, <1>7, <2>1
<1>9. Wrap(framesPassed - tl.start + BlockSize) = Since + BlockSize
  BY <1>7 DEF Since
<1> QED
  BY <1>1, <1>4, <1>6, <1>7, <1>8, <1>9

LEMMA BlockGoesOn ==
  ASSUME PlaybackAssumption, CoreInv, PlayInv, processNextBlock
  PROVE  PlayInv'
<1>1. /\ BlockSize \in Nat \ {0} /\ FrameRange \in Nat \ {0} /\ framesPassed \in Nat /\ expected \in Nat
      /\ tl \in Timelines
  BY RangePositive DEF CoreInv, TypeInv
<1>2. /\ tl.start \in Nat /\ tl.lastLoop \in Nat /\ tl.loopStart \in Nat /\ tl.loopEnd \in Nat
      /\ tl.isLoop \in BOOLEAN /\ tl.ongoing \in BOOLEAN /\ tl.state \in States
  BY <1>1 DEF Timelines
<1>3. tl' = Elapsed(tl) /\ framesPassed' = framesPassed + BlockSize /\ phase = "play"
  BY DEF processNextBlock
<1>4. tl'.isLoop = tl.isLoop /\ tl'.loopStart = tl.loopStart
  BY <1>1, <1>3, ElapsedTurns
<1>5. CASE tl.state = "Play"
  <2>1. /\ Position(tl) = expected /\ expected <= Since /\ Since \in Nat
        /\ Wrap(framesPassed - tl.start + BlockSize) = Since + BlockSize
        /\ Wrap(Position(tl) + BlockSize) = expected + BlockSize
    BY <1>3, <1>5, BlockPlays
  <2>2. /\ tl'.state = "Play" /\ tl'.start = tl.start
        /\ Elapsed(tl).lastElapsed = Position(tl)
        /\ tl'.lastLoop = IF EndsLoop(tl) THEN Wrap(framesPassed - tl.start + BlockSize) ELSE tl.lastLoop
        /\ tl'.ongoing = (tl.ongoing \/ EndsLoop(tl))
    BY <1>1, <1>3, <1>5, ElapsedTurns
  <2>3. EndsLoop(tl) <=> tl.isLoop /\ expected > tl.loopStart /\ expected + BlockSize >= tl.loopEnd
    BY <2>1 DEF EndsLoop
  <2>4. expected' = IF EndsLoop(tl) THEN tl.loopStart ELSE expected + BlockSize
    BY <1>5, <2>1, <2>2, <2>3 DEF processNextBlock
  <2>5. Since' = Since + BlockSize
    BY <1>1, <1>2, <1>3, <2>2 DEF Since
  <2>6. tl.start <= framesPassed
    BY <1>1, <1>2, <2>1 DEF Since
  <2>7. /\ tl.ongoing => tl.loopStart <= tl.lastLoop
        /\ tl.isLoop => tl.lastLoop <= Since
        /\ expected = IF tl.isLoop THEN Since - tl.lastLoop + (IF tl.ongoing THEN tl.loopStart ELSE 0) ELSE Since
    BY <1>5 DEF PlayInv
  <2>8. CASE EndsLoop(tl)
    <3>1. /\ tl'.lastLoop = Since + BlockSize /\ tl'.ongoing /\ tl.isLoop /\ expected > tl.loopStart
          /\ expected' = tl.loopStart
      BY <2>1, <2>2, <2>3, <2>4, <2>8
    <3>2. tl'.loopStart <= tl'.lastLoop /\ tl'.lastLoop <= Since'
      BY <3>1, <2>1, <2>5, <1>1, <1>2, <1>4
    <3>3. expected' = Since' - tl'.lastLoop + tl'.loopStart
      BY <3>1, <2>1, <2>5, <1>1, <1>2, <1>4
    <3>4. tl'.start <= framesPassed'
      BY <2>2, <2>6, <1>1, <1>2, <1>3
    <3> QED
      BY <3>1, <3>2, <3>3, <3>4, <2>2, <1>4 DEF PlayInv
  <2>9. CASE ~EndsLoop(tl)
    <3>1. tl'.lastLoop = tl.lastLoop /\ tl'.ongoing = tl.ongoing /\ expected' = expected + BlockSize
      BY <2>2, <2>4, <2>9, <1>2
    <3>2. tl'.start <= framesPassed'
      BY <2>2, <2>6, <1>1, <1>2, <1>3
    <3>3. tl'.isLoop => tl'.lastLoop <= Since'
      BY <3>1, <2>1, <2>5, <2>7, <1>1, <1>2, <1>4
    <3>4. expected' = IF tl'.isLoop THEN Since' - tl'.lastLoop + (IF tl'.ongoing THEN tl'.loopStart ELSE 0) ELSE Since'
      BY <3>1, <2>1, <2>5, <2>7, <1>1, <1>2, <1>4
    <3>5. tl'.ongoing => tl'.loopStart <= tl'.lastLoop
      BY <3>1, <2>7, <1>4
    <3> QED
      BY <3>2, <3>3, <3>4, <3>5, <2>2 DEF PlayInv
  <2> QED
    BY <2>8, <2>9
<1>6. CASE tl.state = "Preparing"
  <2>1. expected = 0 /\ tl.start = 0 /\ tl.lastLoop = 0 /\ ~tl.ongoing
    BY <1>6 DEF PlayInv
  <2>2. /\ tl'.state = "Play" /\ tl'.lastLoop = 0 /\ ~tl'.ongoing /\ tl'.start = framesPassed'
    BY <1>1, <1>3, <1>6, <2>1, ElapsedTurns
  <2>3. expected' = 0
    BY <1>6, <2>1 DEF processNextBlock
  <2>4. Since' = 0
    BY <2>2, <1>1, <1>3 DEF Since
  <2> QED
    BY <2>2, <2>3, <2>4, <1>1, <1>3 DEF PlayInv
<1>7. CASE tl.state \notin {"Play", "Preparing"}
  <2>1. tl'.state = tl.state /\ tl'.lastLoop = tl.lastLoop /\ tl'.ongoing = tl.ongoing
    BY <1>1, <1>3, <1>7, ElapsedTurns
  <2> QED
    BY <1>4, <1>7, <2>1 DEF PlayInv
<1> QED
  BY <1>5, <1>6, <1>7

LEMMA TaskGoesOn ==
  ASSUME PlaybackAssumption, CoreInv, PlayInv, RunTask,
         NeverMoves \/ FromZero, NeverToggles \/ (FromZero /\ Toggles)
  PROVE  PlayInv'
<1> DEFINE h == rtTasks[1]
           a == actions[h]
<1>1. /\ FrameRange \in Nat \ {0} /\ framesPassed \in Nat /\ expected \in Nat /\ framesPassed < FrameRange
      /\ tl \in Timelines /\ TypeInv /\ RingInv
  BY RangePositive DEF CoreInv, TypeInv
<1>2. /\ tl.start \in Nat /\ tl.lastLoop \in Nat /\ tl.loopStart \in Nat
      /\ tl.isLoop \in BOOLEAN /\ tl.ongoing \in BOOLEAN /\ tl.state \in States
  BY <1>1 DEF Timelines
<1>3. /\ h \in 1..Len(actions) /\ a \in ActionRecords /\ Fits(a) /\ a.state = "Waiting" /\ ~a.completed
      /\ UNCHANGED framesPassed
  BY <1>1, RunTaskRuns DEF RunsOne
<1>4. /\ tl' = Turned(tl, a)
      /\ expected' = IF Starts(a) THEN 0 ELSE expected
  BY <1>1, RunTaskTurns
<1>5. a \in Everything
  BY <1>3 DEF Everything
<1>a. ASSUME tl'.state = tl.state, tl'.start = tl.start, tl'.isLoop = tl.isLoop, tl'.lastLoop = tl.lastLoop,
             tl'.ongoing = tl.ongoing, tl'.loopStart = tl.loopStart, expected' = expected
      PROVE  PlayInv'
  BY <1>a, <1>3 DEF PlayInv, Since
<1>6. CASE a.kind = "ChangeTimelineState"
  <2>1. a.target \in Commands
    BY <1>3, <1>6 DEF Fits
  <2>2. tl' = setTimelineState(tl, a.target)
    BY <1>4, <1>6 DEF Turned
  <2>3. CASE Starts(a)
    <3>1. tl'.state = "Preparing" /\ tl'.start = 0 /\ tl'.lastLoop = 0 /\ ~tl'.ongoing
      BY <2>2, <2>3, <1>1 DEF Starts, setTimelineState, play, Timelines
    <3> QED
      BY <3>1, <2>3, <1>4 DEF PlayInv
  <2>4. CASE ~Starts(a) /\ a.target \in {"StartRecord", "StopRecord"}
    <3>1. /\ tl'.state = tl.state /\ tl'.start = tl.start /\ tl'.isLoop = tl.isLoop /\ tl'.lastLoop = tl.lastLoop
          /\ tl'.ongoing = tl.ongoing /\ tl'.loopStart = tl.loopStart
      BY <2>2, <2>4, <1>1, <1>6 DEF Starts, setTimelineState, Timelines
    <3> QED
      BY <3>1, <2>4, <1>4, <1>a
  <2>5. CASE a.target \in {"Pause", "Stop"}
    <3>1. /\ tl'.state = a.target /\ tl'.lastLoop = tl.lastLoop
          /\ tl'.ongoing = tl.ongoing /\ tl'.loopStart = tl.loopStart
      BY <2>2, <2>5, <1>1 DEF setTimelineState, Timelines
    <3> QED
      BY <3>1, <2>5 DEF PlayInv
  <2> QED
    BY <1>6, <2>1, <2>3, <2>4, <2>5 DEF Commands, Starts
<1>7. CASE a.kind = "ToggleLoop"
  <2>1. FromZero /\ Toggles
    BY <1>5, <1>7 DEF NeverToggles, Never
  <2>2. a.target = ~tl.isLoop
    BY <2>1, <1>3, <1>7 DEF Toggles
  <2>3. tl' = setLoopState(tl, a.target) /\ expected' = expected
    BY <1>4, <1>7 DEF Turned, Starts
  <2>4. tl.loopStart = 0
    BY <2>1 DEF FromZero
  <2>5. CASE tl.isLoop
    <3>1. tl' = [tl EXCEPT !.isLoop = FALSE, !.start = Wrap(@ + tl.lastLoop)]
      BY <2>2, <2>3, <2>5 DEF setLoopState
    <3>2. /\ tl'.state = tl.state /\ ~tl'.isLoop /\ tl'.lastLoop = tl.lastLoop
          /\ tl'.ongoing = tl.ongoing /\ tl'.loopStart = 0 /\ tl'.start = Wrap(tl.start + tl.lastLoop)
      BY <3>1, <2>4, <1>1 DEF Timelines
    <3>3. CASE tl.state = "Play"
      <4>1. /\ tl.start <= framesPassed /\ tl.lastLoop <= Since /\ expected = Since - tl.lastLoop
        <5>1. /\ tl.start <= framesPassed /\ tl.lastLoop <= Since
              /\ expected = Since - tl.lastLoop + (IF tl.ongoing THEN tl.loopStart ELSE 0)
          BY <3>3, <2>5 DEF PlayInv
        <5>2. Since - tl.lastLoop \in Int
          BY <1>1, <1>2 DEF Since
        <5>3. expected = Since - tl.lastLoop + 0
          BY <5>1, <2>4
        <5> QED
          BY <5>1, <5>2, <5>3
      <4>2. tl.start + tl.lastLoop \in Nat /\ tl.start + tl.lastLoop <= framesPassed
        BY <4>1, <1>1, <1>2 DEF Since
      <4>3. tl'.start = tl.start + tl.lastLoop
        BY <4>2, <3>2, <1>1, WrapSmall
      <4>4. expected' = Since' /\ tl'.start <= framesPassed'
        BY <4>1, <4>2, <4>3, <2>3, <1>1, <1>2, <1>3 DEF Since
      <4> QED
        BY <4>4, <3>2, <3>3, <1>2 DEF PlayInv
    <3>4. CASE tl.state = "Preparing"
      <4>1. expected = 0 /\ tl.start = 0 /\ tl.lastLoop = 0 /\ ~tl.ongoing
        BY <3>4 DEF PlayInv
      <4>2. Wrap(0) = 0
        BY <1>1, WrapSmall
      <4>3. tl'.start = 0
        BY <3>2, <4>1, <4>2
      <4> QED
        BY <4>1, <4>3, <3>2, <3>4, <2>3, <1>2 DEF PlayInv
    <3>5. CASE tl.state \notin {"Play", "Preparing"}
      BY <3>2, <3>5, <1>2 DEF PlayInv
    <3> QED
      BY <3>3, <3>4, <3>5
  <2>6. CASE ~tl.isLoop
    <3>1. tl' = [tl EXCEPT !.isLoop = TRUE, !.lastLoop = 0]
      BY <2>2, <2>3, <2>6 DEF setLoopState
    <3>2. /\ tl'.state = tl.state /\ tl'.isLoop /\ tl'.lastLoop = 0 /\ tl'.start = tl.start
          /\ tl'.ongoing = tl.ongoing /\ tl'.loopStart = 0
      BY <3>1, <2>4, <1>1 DEF Timelines
    <3>3. CASE tl.state = "Play"
      <4>1. tl.start <= framesPassed /\ expected = Since
        BY <3>3, <2>6 DEF PlayInv
      <4>2. Since' = Since /\ Since \in Nat
        BY <4>1, <3>2, <1>1, <1>2, <1>3 DEF Since
      <4> QED
        BY <4>1, <4>2, <3>2, <3>3, <2>3, <1>3 DEF PlayInv
    <3>4. CASE tl.state # "Play"
      BY <3>2, <3>4, <2>3 DEF PlayInv
    <3> QED
      BY <3>3, <3>4
  <2> QED
    BY <2>5, <2>6
<1>8. CASE a.kind = "LoopPosition"
  <2>1. FromZero
    BY <1>5, <1>8 DEF NeverMoves, Never
  <2>2. tl.loopStart = 0 /\ a.target[1] = 0
    BY <2>1, <1>5, <1>8 DEF FromZero
  <2>3. /\ tl'.state = tl.state /\ tl'.start = tl.start /\ tl'.isLoop = tl.isLoop /\ tl'.lastLoop = tl.lastLoop
        /\ tl'.ongoing = tl.ongoing /\ tl'.loopStart = tl.loopStart
    BY <2>2, <1>1, <1>4, <1>8 DEF Turned, Timelines
  <2>4. expected' = expected
    BY <1>4, <1>8 DEF Starts
  <2> QED
    BY <2>3, <2>4, <1>a
<1>9. CASE a.kind \notin Turning
  <2>1. expected' = expected
    BY <1>4, <1>9 DEF Starts, Turning
  <2>2. /\ tl'.state = tl.state /\ tl'.start = tl.start /\ tl'.isLoop = tl.isLoop /\ tl'.lastLoop = tl.lastLoop
        /\ tl'.ongoing = tl.ongoing /\ tl'.loopStart = tl.loopStart
    BY <1>1, <1>3, <1>4, <1>9, TurnedKeeps
  <2> QED
    BY <2>1, <2>2, <1>a
<1> QED
  BY <1>6, <1>7, <1>8, <1>9 DEF Turning

\* The control thread leaves the timeline and its position alone.
LEMMA QuietKeepsEngine ==
  ASSUME PlaybackAssumption, CoreInv,
         Asks \/ Sends \/ Shows \/ Checks \/ RestartsOne \/ PassEnds \/ NoMoreTasks \/ UNCHANGED vars
  PROVE  UNCHANGED <<tl, metro, framesPassed, block, expected, steady>>
BY DEF Asks, Emit, Sends, Shows, Checks, RestartsOne, PassEnds, NoMoreTasks, Step, engineVars, vars

LEMMA NeverRollsStep ==
  ASSUME PlaybackAssumption, CoreInv, NeverRolls, [Next]_vars
  PROVE  NeverRolls'
<1>0. TypeInv /\ RingInv /\ FramesInv /\ tl \in Timelines
  BY DEF CoreInv, TypeInv
<1>1. Never("rolls", "ChangeTimelineState")'
  BY NeverStep DEF NeverRolls
<1>2. CASE RunTask
  <2> DEFINE a == actions[rtTasks[1]]
  <2>1. /\ tl' = Turned(tl, a) /\ rtTasks[1] \in 1..Len(actions) /\ a \in ActionRecords /\ Fits(a)
    BY <1>0, <1>2, RunTaskTurns, RunTaskRuns DEF RunsOne
  <2>2. a \in Everything
    BY <2>1 DEF Everything
  <2>3. a.kind # "ChangeTimelineState"
    BY <2>2 DEF NeverRolls, Never
  <2> HIDE DEF a
  <2>4. tl'.state = tl.state
    <3>1. CASE a.kind = "ToggleLoop"
      <4>1. setLoopState(tl, a.target).state = tl.state
        BY <1>0 DEF setLoopState, Timelines
      <4> QED
        BY <2>1, <3>1, <4>1 DEF Turned
    <3>2. CASE a.kind = "LoopPosition"
      BY <2>1, <3>2, <1>0 DEF Turned, Timelines
    <3>3. CASE a.kind \notin Turning
      BY <2>1, <3>3, <1>0, TurnedKeeps
    <3> QED
      BY <2>3, <3>1, <3>2, <3>3 DEF Turning
  <2> QED
    BY <1>1, <2>4 DEF NeverRolls
<1>3. CASE processNextBlock
  <2>1. tl' = Elapsed(tl)
    BY <1>3 DEF processNextBlock
  <2>2. tl'.state = tl.state
    BY <2>1, <1>0, ElapsedTurns, RangePositive DEF TypeInv, NeverRolls
  <2> QED
    BY <1>1, <2>2 DEF NeverRolls
<1>4. CASE Asks \/ Sends \/ Shows \/ Checks \/ RestartsOne \/ PassEnds \/ NoMoreTasks \/ UNCHANGED vars
  <2>1. UNCHANGED tl
    BY <1>4, QuietKeepsEngine
  <2> QED
    BY <1>1, <2>1 DEF NeverRolls
<1> QED
  BY <1>0, <1>2, <1>3, <1>4, NextSteps

LEMMA LoopStep ==
  ASSUME PlaybackAssumption, CoreInv, TimelineShown, LoopInv, [Next]_vars
  PROVE  LoopInv'
<1>0. TypeInv /\ RingInv
  BY DEF CoreInv
<1>1. CASE NeverRolls
  BY <1>1, NeverRollsStep DEF LoopInv
<1>2. CASE /\ NeverMoves \/ FromZero
           /\ NeverToggles \/ (FromZero /\ Alone /\ Toggles)
           /\ PlayInv
  <2>1. NeverMoves' \/ FromZero'
    BY <1>2, NeverStep, FromZeroStep DEF NeverMoves
  <2>2. NeverToggles' \/ (FromZero' /\ Alone' /\ Toggles')
    BY <1>2, NeverStep, FromZeroStep, AloneStep, TogglesStep DEF NeverToggles
  <2>3. PlayInv'
    <3>1. CASE RunTask
      BY <1>2, <3>1, TaskGoesOn
    <3>2. CASE processNextBlock
      BY <1>2, <3>2, BlockGoesOn
    <3>3. CASE Asks \/ Sends \/ Shows \/ Checks \/ RestartsOne \/ PassEnds \/ NoMoreTasks \/ UNCHANGED vars
      <4>1. UNCHANGED <<tl, framesPassed, expected>>
        BY <3>3, QuietKeepsEngine
      <4> QED
        BY <1>2, <4>1 DEF PlayInv, Since
    <3> QED
      BY <1>0, <3>1, <3>2, <3>3, NextSteps
  <2> QED
    BY <2>1, <2>2, <2>3 DEF LoopInv
<1> QED
  BY <1>1, <1>2 DEF LoopInv

LEMMA LoopInit ==
  ASSUME PlaybackAssumption, LoopsKeepTheirStart, Init
  PROVE  LoopInv
<1>1. /\ Len(actions) = 0 /\ Len(undoList) = 0 /\ Len(redoList) = 0
      /\ budget \in Workloads /\ budget \in Budgets
      /\ tl.state = "Stop" /\ ~tl.ongoing /\ tl.loopStart = budget.loop[1] /\ view.loopStart = tl.loopStart
  BY InitLists DEF Shown
<1>2. Everything = {}
  BY <1>1 DEF Everything
<1>3. \/ budget.rolls = 0
      \/ /\ budget.moves = 0 \/ (budget.loop[1] = 0 /\ budget.starts = {})
         /\ budget.toggles = 0 \/ (budget.loop[1] = 0 /\ budget.starts = {} /\ budget.inFlight <= 1)
  BY <1>1 DEF LoopsKeepTheirStart
<1>4. budget.loop[1] = 0 /\ budget.starts = {} => FromZero
  BY <1>1, <1>2 DEF FromZero
<1>5. PlayInv
  BY <1>1 DEF PlayInv
<1>6. /\ budget.rolls = 0 => NeverRolls
      /\ budget.moves = 0 => NeverMoves
      /\ budget.toggles = 0 => NeverToggles
  BY <1>1, <1>2 DEF NeverRolls, NeverMoves, NeverToggles, Never
<1>7. Toggles /\ (budget.inFlight <= 1 => Alone)
  BY <1>1 DEF Toggles, Alone, OneAction
<1> QED
  BY <1>3, <1>4, <1>5, <1>6, <1>7 DEF LoopInv

\* The play head moves on block by block (Timeline::elapsed, setLoopState, play and
\* the loop's end), whatever is pressed meanwhile, for every workload that keeps the
\* start of the loop, at zero when it moves or switches it.
THEOREM PlayheadGoesOnAlways ==
  ASSUME LoopsKeepTheirStart
  PROVE  Spec => PlayheadGoesOn
<1> USE PlaybackAssumption
<1> DEFINE IInv == CoreInv /\ TimelineShown /\ LoopInv
<1>1. Init => IInv
  BY CoreInit, LoopInit, InitLists DEF TimelineShown
<1>2. IInv /\ [Next]_vars => IInv'
  BY CoreStep, TimelineShownStep, LoopStep
<1>3. IInv /\ [Next]_vars =>
        [phase = "play" /\ phase' = "tasks" /\ tl.state = "Play" => block'.elapsed = expected]_vars
  <2> SUFFICES ASSUME IInv, [Next]_vars, phase = "play", phase' = "tasks", tl.state = "Play"
               PROVE  block'.elapsed = expected
    OBVIOUS
  <2>1. TypeInv /\ RingInv
    BY DEF CoreInv
  <2>2. processNextBlock
    <3>1. CASE UNCHANGED phase
      BY <3>1
    <3>2. CASE RunTask \/ NoMoreTasks
      BY <3>2 DEF RunTask, NoMoreTasks
    <3>3. CASE Asks \/ Sends \/ Shows \/ Checks \/ RestartsOne \/ PassEnds \/ UNCHANGED vars
      <4>1. UNCHANGED phase
        BY <3>3 DEF Asks, Emit, Sends, Shows, Checks, RestartsOne, PassEnds, Step, engineVars, vars
      <4> QED
        BY <4>1
    <3> QED
      BY <2>1, <3>1, <3>2, <3>3, NextSteps
  <2>3. PlayInv
    BY DEF LoopInv, NeverRolls
  <2>4. block'.elapsed = Elapsed(tl).lastElapsed
    BY <2>2 DEF processNextBlock
  <2>5. Elapsed(tl).lastElapsed = Position(tl)
    BY ElapsedTurns, RangePositive, <2>1 DEF CoreInv, TypeInv
  <2> QED
    BY <2>3, <2>4, <2>5, BlockPlays
<1> QED
  BY <1>1, <1>2, <1>3, PTL DEF Spec, PlayheadGoesOn

(* ------------------------------- the beats ------------------------------- *)

\* A block of a play whose tempo stayed counts the beat that falls into it.
LEMMA BlockCounts ==
  ASSUME PlaybackAssumption, BeatsOutlastBlocks, CoreInv, PlayInv, BeatInv,
         phase = "play", tl.state = "Play", steady
  PROVE  LET e == expected
             n == framesPerBeat(tl)
             tick == process(metro, tl, e).lastTick
         IN /\ tick \in Nat /\ tick % n = 0 /\ tick <= e + BlockSize /\ e + BlockSize < tick + n
            /\ LET c == Click(metro, tl, e) IN c.from < c.to => c.to <= BlockSize
<1> DEFINE e == expected
           n == framesPerBeat(tl)
           m == metro
           d == Delay(m, tl, e)
           due == Due(m, tl, e)
           tick == IF due THEN Wrap(e + d) ELSE m.lastTick
<1>1. /\ e \in Nat /\ n \in Nat \ {0} /\ BlockSize \in Nat \ {0} /\ BlockSize < n
      /\ FrameRange \in Nat \ {0} /\ SoundLength \in Nat
      /\ tl \in Timelines /\ m \in [mute : Values, lastTick : Nat, step : Int, remaining : Nat]
  <2>1. BlockSize \in Nat \ {0} /\ FrameRange \in Nat \ {0} /\ SoundLength \in Nat
    BY RangePositive DEF CoreInv, PlaybackAssumption
  <2>2. e \in Nat /\ tl \in Timelines /\ m \in [mute : Values, lastTick : Nat, step : Int, remaining : Nat]
    BY DEF CoreInv, TypeInv
  <2>3. n \in Nat /\ BlockSize < n
    BY <2>2, BeatLength
  <2> QED
    BY <2>1, <2>2, <2>3
<1>2. e + BlockSize < FrameRange
  <2>1. e <= Since /\ Since \in Nat /\ framesPassed + BlockSize < FrameRange
    BY BlockPlays
  <2>2. Since <= framesPassed
    BY <1>1 DEF Since, Timelines, CoreInv, TypeInv
  <2>3. framesPassed \in Nat
    BY DEF CoreInv, TypeInv
  <2> HIDE DEF e
  <2> QED
    BY <1>1, <2>1, <2>2, <2>3
<1>3. m.lastTick \in Nat /\ m.remaining \in Nat
  BY <1>1
<1>4. process(m, tl, e).lastTick = tick
  <2>1. process(m, tl, e).lastTick = count(m, tl, e).lastTick
    BY <1>1, ProcessTyped
  <2>2. count(m, tl, e).lastTick = tick
    BY <1>1 DEF count
  <2> QED
    BY <2>1, <2>2
<1>5. e # 0 => m.lastTick % n = 0 /\ m.lastTick <= e /\ e < m.lastTick + n
  BY DEF BeatInv
<1> DEFINE l == m.lastTick
<1>6. /\ due <=> (e = 0 \/ Wrap(e + BlockSize - l) >= n)
      /\ d = IF e = 0 THEN 0 ELSE Wrap(n - Wrap(e - l))
  BY DEF Due, Delay
<1>7. Click(m, tl, e) =
        IF m.mute THEN NoClick
        ELSE [from |-> IF due THEN d ELSE 0,
              to |-> IF due THEN IF SoundLength > BlockSize THEN Wrap(BlockSize - d) ELSE SoundLength
                     ELSE IF m.remaining > BlockSize THEN BlockSize ELSE m.remaining]
  BY DEF Click, SamplesToPlay
<1> HIDE DEF e, n, m, d, due, l
<1>8. /\ tick \in Nat /\ tick % n = 0 /\ tick <= e + BlockSize /\ e + BlockSize < tick + n
      /\ due => d \in Nat /\ d <= BlockSize
  <2>1. CASE e = 0
    <3>1. due /\ d = 0
      BY <2>1, <1>6
    <3>2. tick = 0
      BY <3>1, <2>1, <1>1, WrapSmall
    <3>3. 0 % n = 0
      BY <1>1
    <3> QED
      BY <3>1, <3>2, <3>3, <2>1, <1>1
  <2>2. CASE e # 0
    <3>1. l \in Nat /\ l % n = 0 /\ l <= e /\ e < l + n
      BY <2>2, <1>3, <1>5 DEF l
    <3>2. Wrap(e + BlockSize - l) = e + BlockSize - l /\ Wrap(e - l) = e - l
      <4>1. /\ e + BlockSize - l \in Nat /\ e + BlockSize - l < FrameRange
            /\ e - l \in Nat /\ e - l < FrameRange
        BY <3>1, <1>1, <1>2
      <4> QED
        BY <4>1, <1>1, WrapSmall
    <3>3. CASE due
      <4>1. e + BlockSize - l >= n /\ d = Wrap(n - (e - l))
        BY <3>2, <3>3, <2>2, <1>6
      <4>2. n - (e - l) \in Nat /\ n - (e - l) <= BlockSize /\ n - (e - l) < FrameRange
        BY <4>1, <3>1, <1>1, <1>2
      <4>3. d = n - (e - l)
        BY <4>1, <4>2, <1>1, WrapSmall
      <4>4. e + d = l + n
        BY <4>3, <3>1, <1>1
      <4>5. l + n \in Nat /\ l + n <= e + BlockSize /\ l + n < FrameRange
        BY <4>1, <3>1, <1>1, <1>2
      <4>6. tick = l + n
        BY <3>3, <4>4, <4>5, <1>1, WrapSmall
      <4>7. (l + n) % n = 0
        BY <3>1, <1>1, NextBeat
      <4>8. e + BlockSize < l + n + n
        BY <3>1, <1>1
      <4> QED
        BY <4>2, <4>3, <4>5, <4>6, <4>7, <4>8
    <3>4. CASE ~due
      <4>1. e + BlockSize - l < n
        BY <3>1, <3>2, <3>4, <2>2, <1>1, <1>6
      <4>2. tick = l
        BY <3>4 DEF l
      <4> QED
        BY <4>1, <4>2, <3>1, <3>4, <1>1
    <3> QED
      BY <3>3, <3>4
  <2> QED
    BY <2>1, <2>2
<1>9. LET c == Click(m, tl, e) IN c.from < c.to => c.to <= BlockSize
  <2>1. CASE m.mute
    BY <2>1, <1>7 DEF NoClick
  <2>2. CASE ~m.mute /\ due
    <3>1. Wrap(BlockSize - d) <= BlockSize
      <4>1. BlockSize - d \in Nat /\ BlockSize - d <= BlockSize /\ BlockSize - d < FrameRange
        BY <2>2, <1>1, <1>2, <1>8
      <4> QED
        BY <4>1, <1>1, WrapSmall
    <3>2. Click(m, tl, e).to <= BlockSize
      BY <3>1, <2>2, <1>1, <1>7
    <3> QED
      BY <3>2
  <2>3. CASE ~m.mute /\ ~due
    <3>1. Click(m, tl, e).to <= BlockSize
      BY <2>3, <1>1, <1>3, <1>7
    <3> QED
      BY <3>1
  <2> QED
    BY <2>1, <2>2, <2>3
<1> HIDE DEF tick
<1> QED
  BY <1>4, <1>8, <1>9 DEF e, n, m

\* A task that begins no play changes neither the beats nor what state is played.
LEMMA TaskKeepsBeats ==
  ASSUME PlaybackAssumption, CoreInv, BeatInv, RunTask
  PROVE  BeatInv'
<1> DEFINE a == actions[rtTasks[1]]
<1>1. /\ TypeInv /\ RingInv /\ tl \in Timelines
      /\ metro \in [mute : Values, lastTick : Nat, step : Int, remaining : Nat]
  BY DEF CoreInv, TypeInv
<1>2. a \in ActionRecords /\ Fits(a)
  BY <1>1, RunTaskRuns DEF RunsOne
<1>3. /\ tl' = Turned(tl, a)
      /\ metro' = CASE Starts(a) -> prepareToPlay(metro)
                    [] a.kind = "ToggleMetronome" -> [metro EXCEPT !.mute = a.target]
                    [] OTHER -> metro
      /\ expected' = IF Starts(a) THEN 0 ELSE expected
      /\ steady' = IF Starts(a) THEN TRUE ELSE steady /\ framesPerBeat(tl') = framesPerBeat(tl)
  BY <1>1, RunTaskTurns
<1> HIDE DEF a
<1>4. CASE Starts(a)
  BY <1>3, <1>4 DEF BeatInv
<1>5. CASE ~Starts(a)
  <2>1. tl'.state = "Play" => tl.state = "Play"
    <3>1. CASE a.kind = "ChangeTimelineState"
      <4>1. a.target \in Commands
        BY <1>2, <3>1 DEF Fits
      <4>2. setTimelineState(tl, a.target).state = "Play" => tl.state = "Play"
        BY <4>1, <3>1, <1>1, <1>5 DEF Starts, setTimelineState, play, Commands, Timelines
      <4> QED
        BY <1>3, <3>1, <4>2 DEF Turned
    <3>2. CASE a.kind = "ToggleLoop"
      <4>1. setLoopState(tl, a.target).state = tl.state
        BY <1>1 DEF setLoopState, Timelines
      <4> QED
        BY <1>3, <3>2, <4>1 DEF Turned
    <3>3. CASE a.kind = "LoopPosition"
      BY <1>1, <1>3, <3>3 DEF Turned, Timelines
    <3>4. CASE a.kind \notin Turning
      BY <1>1, <1>2, <1>3, <3>4, TurnedKeeps
    <3> QED
      BY <3>1, <3>2, <3>3, <3>4 DEF Turning
  <2>2. metro'.lastTick = metro.lastTick
    <3>1. CASE a.kind = "ToggleMetronome"
      <4>1. metro' = [metro EXCEPT !.mute = a.target]
        BY <1>3, <1>5, <3>1
      <4> QED
        BY <4>1, <1>1
    <3>2. CASE a.kind # "ToggleMetronome"
      BY <1>3, <1>5, <3>2
    <3> QED
      BY <3>1, <3>2
  <2>3. expected' = expected /\ (steady' => steady /\ framesPerBeat(tl') = framesPerBeat(tl))
    BY <1>3, <1>5
  <2> QED
    BY <2>1, <2>2, <2>3 DEF BeatInv
<1> QED
  BY <1>4, <1>5

LEMMA BlockKeepsBeats ==
  ASSUME PlaybackAssumption, BeatsOutlastBlocks, CoreInv, LoopInv, BeatInv, processNextBlock
  PROVE  BeatInv' /\ BeatsAreCounted'
<1>1. /\ BlockSize \in Nat \ {0} /\ FrameRange \in Nat \ {0} /\ framesPassed \in Nat /\ expected \in Nat
      /\ tl \in Timelines /\ steady \in BOOLEAN
  BY RangePositive DEF CoreInv, TypeInv
<1>2. tl' = Elapsed(tl) /\ phase = "play"
  BY DEF processNextBlock
<1>3. framesPerBeat(tl') = framesPerBeat(tl)
  <2>1. tl'.bpm = tl.bpm /\ tl'.size = tl.size
    BY <1>1, <1>2, ElapsedTurns
  <2> QED
    BY <2>1 DEF framesPerBeat
<1>4. CASE tl.state = "Play"
  <2>1. PlayInv
    BY <1>4 DEF LoopInv, NeverRolls
  <2>2. /\ Position(tl) = expected /\ Wrap(Position(tl) + BlockSize) = expected + BlockSize
    BY <1>2, <1>4, <2>1, BlockPlays
  <2>3. Elapsed(tl).lastElapsed = expected
    BY <1>1, <1>4, <2>2, ElapsedTurns
  <2> DEFINE e == expected
             tick == process(metro, tl, e).lastTick
             c == Click(metro, tl, e)
  <2>4. /\ metro' = process(metro, tl, e)
        /\ steady' = (steady /\ ~(EndsLoop(tl) /\ tl.loopStart # 0))
        /\ block' = [playing |-> TRUE, elapsed |-> e, frames |-> playbackFiles(e), click |-> c,
                     beat |-> metro'.lastTick, length |-> framesPerBeat(tl), steady |-> steady]
        /\ expected' = IF tl.isLoop /\ e > tl.loopStart /\ e + BlockSize >= tl.loopEnd
                       THEN tl.loopStart ELSE e + BlockSize
    BY <1>4, <2>3 DEF processNextBlock
  <2>5. steady => /\ tick \in Nat /\ tick % framesPerBeat(tl) = 0 /\ tick <= e + BlockSize
                  /\ e + BlockSize < tick + framesPerBeat(tl)
                  /\ c.from < c.to => c.to <= BlockSize
    BY <1>2, <1>4, <2>1, BlockCounts
  <2>6. EndsLoop(tl) <=> tl.isLoop /\ e > tl.loopStart /\ e + BlockSize >= tl.loopEnd
    BY <2>2 DEF EndsLoop
  <2> HIDE DEF e, tick, c
  <2>7. metro'.lastTick = tick
    BY <2>4 DEF tick
  <2>8. BeatsAreCounted'
    <3>1. /\ block'.elapsed = e /\ block'.click = c /\ block'.beat = tick
          /\ block'.length = framesPerBeat(tl) /\ block'.steady = steady
      BY <2>4, <2>7
    <3> QED
      BY <3>1, <2>5 DEF BeatsAreCounted
  <2>9. BeatInv'
    <3> SUFFICES ASSUME steady', expected' # 0
                 PROVE  /\ metro'.lastTick % framesPerBeat(tl') = 0
                        /\ metro'.lastTick <= expected' /\ expected' < metro'.lastTick + framesPerBeat(tl')
      BY DEF BeatInv
    <3>1. steady /\ expected' = e + BlockSize
      BY <2>4, <2>6
    <3> QED
      BY <3>1, <2>5, <2>7, <1>3
  <2> QED
    BY <2>8, <2>9
<1>5. CASE tl.state # "Play"
  <2>1. block' = Silent /\ UNCHANGED <<metro, expected, steady>>
    BY <1>5 DEF processNextBlock
  <2>2. BeatsAreCounted'
    BY <2>1 DEF BeatsAreCounted, Silent
  <2>3. tl'.state = "Play" => expected' = 0
    <3>1. tl'.state = "Play" => tl.state = "Preparing"
      BY <1>1, <1>2, <1>5, ElapsedTurns
    <3>2. tl.state = "Preparing" => PlayInv
      BY DEF LoopInv, NeverRolls
    <3> QED
      BY <2>1, <3>1, <3>2 DEF PlayInv
  <2> QED
    BY <2>2, <2>3 DEF BeatInv
<1> QED
  BY <1>4, <1>5

\* As long as the tempo stays and the loop starts at zero the metronome has counted
\* the last beat before the end of the block and its click stays in the block
\* (Metronome::process), for every workload that keeps the start of the loop and all
\* tempos whose beats outlast a block.
THEOREM BeatsAreCountedAlways ==
  ASSUME LoopsKeepTheirStart, BeatsOutlastBlocks
  PROVE  Spec => []BeatsAreCounted
<1> USE PlaybackAssumption
<1> DEFINE IInv == CoreInv /\ TimelineShown /\ LoopInv /\ BeatInv /\ BeatsAreCounted
<1>1. Init => IInv
  <2> SUFFICES ASSUME Init
               PROVE  IInv
    OBVIOUS
  <2>1. CoreInv /\ TimelineShown /\ LoopInv
    BY CoreInit, LoopInit, InitLists DEF TimelineShown
  <2>2. BeatInv
    BY InitLists DEF BeatInv
  <2>3. BeatsAreCounted
    BY DEF Init, Silent, BeatsAreCounted
  <2> QED
    BY <2>1, <2>2, <2>3
<1>2. IInv /\ [Next]_vars => IInv'
  <2> SUFFICES ASSUME IInv, [Next]_vars
               PROVE  IInv'
    OBVIOUS
  <2>1. CoreInv' /\ TimelineShown' /\ LoopInv'
    BY CoreStep, TimelineShownStep, LoopStep
  <2>2. BeatInv' /\ BeatsAreCounted'
    <3>1. CASE RunTask
      <4>1. UNCHANGED block
        BY <3>1 DEF RunTask
      <4>2. BeatsAreCounted'
        BY <4>1 DEF BeatsAreCounted
      <4> QED
        BY <3>1, <4>2, TaskKeepsBeats
    <3>2. CASE processNextBlock
      BY <3>2, BlockKeepsBeats
    <3>3. CASE Asks \/ Sends \/ Shows \/ Checks \/ RestartsOne \/ PassEnds \/ NoMoreTasks \/ UNCHANGED vars
      <4>1. UNCHANGED <<tl, metro, block, expected, steady>>
        BY <3>3, QuietKeepsEngine
      <4> QED
        BY <4>1 DEF BeatInv, BeatsAreCounted
    <3> QED
      BY <3>1, <3>2, <3>3, NextSteps DEF CoreInv
  <2> QED
    BY <2>1, <2>2
<1> QED
  BY <1>1, <1>2, PTL DEF Spec

(* ------------------------------- the clips ------------------------------- *)

\* The frames of a clip that lie in a block, each at its place.
Lies(c, e, at, frame) ==
  at \in 0..(BlockSize - 1) /\ frame \in Nat /\ frame < c.length /\ e + at = c.start + frame

\* What is read of a clip is what lies in the block.
LEMMA ReadsWhatLies ==
  ASSUME PlaybackAssumption, ClipsFillABlock, NEW c \in Clips, NEW e \in Nat, NEW at \in Int, NEW frame \in Int
  PROVE  (/\ e + BlockSize > c.start /\ e <= c.start + c.length
          /\ \E f \in 0..(read(c, e).count - 1) : at = read(c, e).write + f /\ frame = read(c, e).read + f)
         <=> Lies(c, e, at, frame)
<1>1. /\ c.start \in Nat /\ c.length \in Nat /\ BlockSize \in Nat \ {0} /\ c.length >= BlockSize - 1
  BY DEF PlaybackAssumption, ClipsFillABlock
<1> DEFINE s == c.start
           l == c.length
           Heard(w, r, k) == \E f \in 0..(k - 1) : at = w + f /\ frame = r + f
<1>2. CASE e < s
  <2>1. read(c, e) = [write |-> s - e, read |-> 0, count |-> BlockSize - (s - e)]
    BY <1>2 DEF read
  <2>2. e + BlockSize > s /\ e <= s + l /\ Heard(s - e, 0, BlockSize - (s - e)) <=> Lies(c, e, at, frame)
    <3>1. ASSUME e + BlockSize > s, Heard(s - e, 0, BlockSize - (s - e))
          PROVE  Lies(c, e, at, frame)
      BY <3>1, <1>1, <1>2 DEF Lies
    <3>2. ASSUME Lies(c, e, at, frame)
          PROVE  e + BlockSize > s /\ e <= s + l /\ Heard(s - e, 0, BlockSize - (s - e))
      <4>1. at \in 0..(BlockSize - 1) /\ frame \in Nat /\ frame < l /\ e + at = s + frame
        BY <3>2 DEF Lies
      <4>2. frame \in 0..(BlockSize - (s - e) - 1) /\ at = s - e + frame /\ frame = 0 + frame
        BY <4>1, <1>1, <1>2
      <4>3. Heard(s - e, 0, BlockSize - (s - e))
        BY <4>2
      <4>4. e + BlockSize > s /\ e <= s + l
        BY <4>1, <1>1, <1>2
      <4> QED
        BY <4>3, <4>4
    <3> QED
      BY <3>1, <3>2
  <2> QED
    BY <2>1, <2>2
<1>3. CASE e >= s /\ e + BlockSize > s + l
  <2>1. read(c, e) = [write |-> 0, read |-> e - s, count |-> s + l - e]
    BY <1>1, <1>3 DEF read
  <2>2. e + BlockSize > s /\ e <= s + l /\ Heard(0, e - s, s + l - e) <=> Lies(c, e, at, frame)
    <3>1. ASSUME Heard(0, e - s, s + l - e)
          PROVE  Lies(c, e, at, frame)
      BY <3>1, <1>1, <1>3 DEF Lies
    <3>2. ASSUME Lies(c, e, at, frame)
          PROVE  e + BlockSize > s /\ e <= s + l /\ Heard(0, e - s, s + l - e)
      <4>1. at \in 0..(BlockSize - 1) /\ frame \in Nat /\ frame < l /\ e + at = s + frame
        BY <3>2 DEF Lies
      <4>2. at \in 0..(s + l - e - 1) /\ at = 0 + at /\ frame = e - s + at
        BY <4>1, <1>1, <1>3
      <4>3. Heard(0, e - s, s + l - e)
        BY <4>2
      <4>4. e + BlockSize > s /\ e <= s + l
        BY <4>1, <1>1, <1>3
      <4> QED
        BY <4>3, <4>4
    <3> QED
      BY <3>1, <3>2
  <2> QED
    BY <2>1, <2>2
<1>4. CASE e >= s /\ e + BlockSize <= s + l
  <2>1. read(c, e) = [write |-> 0, read |-> e - s, count |-> BlockSize]
    BY <1>1, <1>4 DEF read
  <2>2. e + BlockSize > s /\ e <= s + l /\ Heard(0, e - s, BlockSize) <=> Lies(c, e, at, frame)
    <3>1. ASSUME Heard(0, e - s, BlockSize)
          PROVE  Lies(c, e, at, frame)
      BY <3>1, <1>1, <1>4 DEF Lies
    <3>2. ASSUME Lies(c, e, at, frame)
          PROVE  e + BlockSize > s /\ e <= s + l /\ Heard(0, e - s, BlockSize)
      <4>1. at \in 0..(BlockSize - 1) /\ frame \in Nat /\ frame < l /\ e + at = s + frame
        BY <3>2 DEF Lies
      <4>2. at = 0 + at /\ frame = e - s + at
        BY <4>1, <1>1, <1>4
      <4>3. Heard(0, e - s, BlockSize)
        BY <4>1, <4>2
      <4>4. e + BlockSize > s /\ e <= s + l
        BY <1>1, <1>4
      <4> QED
        BY <4>3, <4>4
    <3> QED
      BY <3>1, <3>2
  <2> QED
    BY <2>1, <2>2
<1> QED
  BY <1>1, <1>2, <1>3, <1>4

LEMMA LongestClipBounds ==
  ASSUME PlaybackAssumption, NEW c \in Clips
  PROVE  LongestClip \in Nat /\ c.length <= LongestClip
<1>1. PICK m \in Clips : \A d \in Clips : d.length <= m.length
  BY DEF PlaybackAssumption
<1>2. \E n \in {d.length : d \in Clips} : \A d \in Clips : d.length <= n
  BY <1>1
<1>3. LongestClip \in {d.length : d \in Clips} /\ \A d \in Clips : d.length <= LongestClip
  BY <1>2 DEF LongestClip
<1> QED
  BY <1>3 DEF PlaybackAssumption

LEMMA FilesSoundInPlace ==
  ASSUME PlaybackAssumption, ClipsFillABlock, NEW e \in Nat
  PROVE  playbackFiles(e) =
           {p \in [clip : Clips, at : 0..(BlockSize - 1), frame : 0..LongestClip] :
              p.frame < p.clip.length /\ e + p.at = p.clip.start + p.frame}
<1> DEFINE heard(c) == {[clip |-> c, at |-> read(c, e).write + f, frame |-> read(c, e).read + f] : f \in 0..(read(c, e).count - 1)}
           In(c) == e + BlockSize > c.start /\ e <= c.start + c.length
           R == {p \in [clip : Clips, at : 0..(BlockSize - 1), frame : 0..LongestClip] :
                   p.frame < p.clip.length /\ e + p.at = p.clip.start + p.frame}
<1>0. /\ BlockSize \in Nat \ {0}
      /\ \A c \in Clips : c.start \in Nat /\ c.length \in Nat
  BY DEF PlaybackAssumption
<1>1. ASSUME NEW c \in Clips
      PROVE  read(c, e).write \in Int /\ read(c, e).read \in Int /\ read(c, e).count \in Int
  BY <1>0 DEF read
<1>2. ASSUME NEW p \in playbackFiles(e)
      PROVE  p \in R
  <2>1. PICK c \in Clips : In(c) /\ p \in heard(c)
    BY DEF playbackFiles
  <2>2. PICK f \in 0..(read(c, e).count - 1) :
          p = [clip |-> c, at |-> read(c, e).write + f, frame |-> read(c, e).read + f]
    BY <2>1
  <2> DEFINE at == read(c, e).write + f
             frame == read(c, e).read + f
  <2>3. at \in Int /\ frame \in Int
    BY <1>1
  <2>4. \E g \in 0..(read(c, e).count - 1) : at = read(c, e).write + g /\ frame = read(c, e).read + g
    OBVIOUS
  <2>5. p = [clip |-> c, at |-> at, frame |-> frame]
    BY <2>2
  <2> HIDE DEF at, frame
  <2>6. Lies(c, e, at, frame)
    BY <2>1, <2>3, <2>4, ReadsWhatLies
  <2>7. frame \in 0..LongestClip
    BY <2>6, <1>0, LongestClipBounds DEF Lies
  <2> QED
    BY <2>5, <2>6, <2>7 DEF Lies
<1>3. ASSUME NEW p \in R
      PROVE  p \in playbackFiles(e)
  <2> DEFINE c == p.clip
             at == p.at
             frame == p.frame
  <2>1. /\ c \in Clips /\ at \in 0..(BlockSize - 1) /\ frame \in Nat /\ frame < c.length /\ e + at = c.start + frame
        /\ p = [clip |-> c, at |-> at, frame |-> frame]
    BY <1>3
  <2> HIDE DEF c, at, frame
  <2>2. Lies(c, e, at, frame) /\ at \in Int /\ frame \in Int
    BY <2>1 DEF Lies
  <2>3. /\ In(c)
        /\ \E f \in 0..(read(c, e).count - 1) : at = read(c, e).write + f /\ frame = read(c, e).read + f
    BY <2>1, <2>2, ReadsWhatLies
  <2>4. p \in heard(c)
    BY <2>1, <2>3
  <2> HIDE DEF heard
  <2>5. \E d \in {d \in Clips : In(d)} : p \in heard(d)
    BY <2>1, <2>3, <2>4
  <2> QED
    BY <2>5 DEF playbackFiles, heard
<1> QED
  BY <1>2, <1>3

\* Of every clip a block plays the frames that lie in it, each at its place
\* (AudioUnit::playbackFiles), when no clip is shorter than a block less one frame.
THEOREM ClipsSoundInPlaceAlways ==
  ASSUME ClipsFillABlock
  PROVE  Spec => []ClipsSoundInPlace
<1> USE PlaybackAssumption
<1> DEFINE IInv == CoreInv /\ ClipsSoundInPlace
<1>1. Init => IInv
  <2> SUFFICES ASSUME Init
               PROVE  CoreInv /\ ClipsSoundInPlace
    OBVIOUS
  <2>1. block = Silent
    BY DEF Init
  <2>2. ~block.playing
    BY <2>1 DEF Silent
  <2> QED
    BY <2>2, CoreInit DEF ClipsSoundInPlace
<1>2. IInv /\ [Next]_vars => IInv'
  <2> SUFFICES ASSUME IInv, [Next]_vars
               PROVE  IInv'
    OBVIOUS
  <2>1. CoreInv'
    BY CoreStep
  <2>2. CASE processNextBlock
    <3> DEFINE e == Elapsed(tl).lastElapsed
    <3>1. e \in Nat
      BY ElapsedTurns, RangePositive DEF CoreInv, TypeInv, Timelines
    <3>2. block'.playing => block'.elapsed = e /\ block'.frames = playbackFiles(e)
      BY <2>2 DEF processNextBlock, Silent
    <3> HIDE DEF e
    <3>3. ClipsSoundInPlace'
      <4> SUFFICES ASSUME block'.playing
                   PROVE  ClipsSoundInPlace'
        BY DEF ClipsSoundInPlace
      <4> DEFINE R == {p \in [clip : Clips, at : 0..(BlockSize - 1), frame : 0..LongestClip] :
                         p.frame < p.clip.length /\ e + p.at = p.clip.start + p.frame}
      <4>1. playbackFiles(e) = R
        BY <3>1, FilesSoundInPlace
      <4>2. LongestClip' = LongestClip
        BY DEF LongestClip
      <4> QED
        BY <3>2, <4>1, <4>2 DEF ClipsSoundInPlace
    <3> QED
      BY <2>1, <3>3
  <2>3. CASE UNCHANGED block
    <3>1. LongestClip' = LongestClip
      BY DEF LongestClip
    <3> QED
      BY <2>1, <2>3, <3>1 DEF ClipsSoundInPlace
  <2>4. CASE RunTask
    <3>1. UNCHANGED block
      BY <2>4 DEF RunTask
    <3> QED
      BY <2>3, <3>1
  <2>5. CASE Asks \/ Sends \/ Shows \/ Checks \/ RestartsOne \/ PassEnds \/ NoMoreTasks \/ UNCHANGED vars
    <3>1. UNCHANGED block
      BY <2>5, QuietKeepsEngine
    <3> QED
      BY <2>3, <3>1
  <2> QED
    BY <2>2, <2>4, <2>5, NextSteps DEF CoreInv
<1> QED
  BY <1>1, <1>2, PTL DEF Spec
=============================================================================
