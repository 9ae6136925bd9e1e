--------------------------- MODULE TrackRecording ---------------------------
(***************************************************************************)
(* Recording on tracks: the arm button and the transport, the record       *)
(* target of a track (src/units/Track/Track.cpp), the actions RecordArm,   *)
(* ReinitTrackRecord, DumpRecordedAudio and ChangeTimelineState, the pool  *)
(* of record buffers, the temporary files and the file worker.             *)
(*                                                                         *)
(* Four threads: the user interface, the control thread with its passes,   *)
(* the real-time thread, the file worker.  Recorded sound is a set of      *)
(* marks per position of a buffer, one position for each block.            *)
(***************************************************************************)
EXTENDS Integers, FiniteSets, SequencesExt

CONSTANTS
  Buffers,        \* record buffers, 128; the ring of free ones holds one less
  LatencyBlocks,  \* blocks of latency to compensate
  FileBatch,      \* temporary files made at a time, 8
  Settings        \* what differs from one recording session to another

AllCommands == {"Arm", "Disarm", "Source", "Play", "Pause", "Stop", "Record", "StopRecord"}

ASSUME RecordingAssumption ==
  /\ Buffers \in Nat \ {0} /\ LatencyBlocks \in Nat /\ FileBatch \in Nat \ {0}
  /\ \A s \in Settings :
       /\ IsInjective(s.trackList) /\ Len(s.trackList) > 0
       /\ s.bufferBlocks \in Nat /\ LatencyBlocks < s.bufferBlocks
       /\ s.freeAtStart \subseteq Nat /\ s.freeAtStart # {}
       /\ s.writeResults \subseteq BOOLEAN /\ s.writeResults # {}
       /\ s.commands \subseteq AllCommands
       /\ s.patient \in BOOLEAN
       /\ s.maxCommands \in Nat /\ s.maxBlocks \in Nat

VARIABLES
  setting,      \* one of Settings
  store,        \* pool: free buffers, in order; tmp: the listed temporary files;
                \* free: _freeTmpFiles; files: all temporary files made so far
  content,      \* what is in each buffer
  target,       \* Track::_recordTarget
  record,       \* Track::_record
  source,       \* Track::_recordSource
  view,         \* TrackView::_record and _recordSource
  roll,         \* Timeline::_state
  recording,    \* Timeline::_isRecording
  tlView,       \* the same two in TimelineView
  actions,      \* the action list
  pc, idx,      \* where the control thread is in its pass
  made,         \* objects with an identity made so far: targets and actions
  rtTasks,      \* RtEngine::_rtTasks
  responses,    \* RtEngine::_rtResponses
  using,        \* the target each track writes in this block, by its identity
  fileTasks,    \* FileWorker::_queue
  worker,       \* the dump the file worker is about to finish
  clips,        \* the files handed to LoadAsClip
  blocks,       \* recorded blocks so far
  commands,     \* commands so far
  fault         \* why the process died

trackVars == <<target, record, source>>
timeVars == <<roll, recording>>
viewVars == <<view, tlView>>
passVars == <<pc, idx>>
diskVars == <<fileTasks, worker, clips>>
vars == <<setting, store, content, trackVars, timeVars, viewVars, actions, passVars, made,
          rtTasks, responses, using, diskVars, blocks, commands, fault>>

\* The tracks in the order of Project::_unitList; blocks in a record buffer, 512.
TrackList == setting.trackList

BufferBlocks == setting.bufferBlocks

\* The user waits until nothing is under way.
Patient == setting.patient

Tracks == ToSet(TrackList)

\* The flat record of a dump: DumpAudioFlat, the action and the file task.
NoDump == [buffer |-> 0, file |-> 0, start |-> 0]

\* id 0 is the null pointer; held says that a midi target has buffer and file.
NoTarget ==
  [id |-> 0, source |-> "audio", buffer |-> 0, file |-> 0, used |-> FALSE, held |-> FALSE,
   old |-> 0, fill |-> 0, waited |-> 0, start |-> 0, flat |-> NoDump]

\* A temporary file: in use, to be finalized, what was written to it; and its history:
\* what was recorded for it, what of that a stop or a failed write left out, and whether it
\* was late: a dump was asked for before the control thread had read the one before, or the
\* recording was stopped before that was on disk.
NewFile ==
  [inUse |-> FALSE, final |-> FALSE, data |-> <<>>, heard |-> <<>>, lost |-> {}, late |-> FALSE]

Silence == [p \in 1..BufferBlocks |-> {}]

\* BufferManager::init offers all buffers to the ring, which refuses the last.
Init ==
  /\ setting \in Settings
  /\ \E n \in setting.freeAtStart :
       store = [pool |-> [i \in 1..Buffers - 1 |-> i], tmp |-> [i \in 1..FileBatch |-> i],
                free |-> n, files |-> [i \in 1..FileBatch |-> NewFile]]
  /\ content = [b \in 1..Buffers |-> Silence]
  /\ target = [t \in Tracks |-> NoTarget]
  /\ record = [t \in Tracks |-> FALSE]
  /\ source = [t \in Tracks |-> "audio"]
  /\ view = [t \in Tracks |-> [record |-> FALSE, source |-> "audio"]]
  /\ roll = "Stop" /\ recording = FALSE
  /\ tlView = [roll |-> "Stop", recording |-> FALSE]
  /\ actions = <<>> /\ pc = "walk" /\ idx = 1 /\ made = 0
  /\ rtTasks = <<>> /\ responses = <<>> /\ using = <<>>
  /\ fileTasks = <<>> /\ worker = [busy |-> FALSE, dump |-> NoDump, track |-> Head(TrackList), ok |-> FALSE]
  /\ clips = {}
  /\ blocks = 0 /\ commands = 0 /\ fault = "none"

(* ------------------- buffers and temporary files ------------------------ *)

\* Mutant: the buffer does not return.
MutGiveBack(s, b) == s

\* releaseAudioRecord: a full ring refuses.
GiveBack(s, b) ==
  IF Len(s.pool) < Buffers - 1 THEN [s EXCEPT !.pool = Append(@, b)] ELSE s

\* acquireAudioRecord takes the front of the ring.
Take(s) == [s EXCEPT !.pool = Tail(@)]

ReleaseTmpFile(s, f) == [s EXCEPT !.files[f].inUse = FALSE, !.free = @ + 1]

\* expandTmpAudioFile, inside whose loop the counter grows by 8 each time.
Expand(s) ==
  LET n == Len(s.files)
  IN [s EXCEPT !.tmp = @ \o [i \in 1..FileBatch |-> n + i],
               !.files = @ \o [i \in 1..FileBatch |-> NewFile],
               !.free = FileBatch * FileBatch]

Expanded(s) == IF s.free = 0 THEN Expand(s) ELSE s

\* acquireTmpAudioFile walks the whole list and ends with the last unused file.
Unused(s) == {i \in DOMAIN s.tmp : ~s.files[s.tmp[i]].inUse}

Chosen(s) == s.tmp[CHOOSE i \in Unused(s) : \A j \in Unused(s) : j <= i]

\* What is recorded for the file begins anew.
TakeTmpFile(s, f) ==
  [s EXCEPT !.files[f].inUse = TRUE, !.files[f].heard = <<>>, !.free = @ - 1]

\* closeTmpAudioFile: the file leaves the list, a new one comes.
CloseTmpFile(s, f) ==
  [s EXCEPT !.tmp = Append(SelectSeq(@, LAMBDA g : g # f), Len(s.files) + 1),
            !.files = Append(@, NewFile)]

Listed(s, f) == f \in ToSet(s.tmp)

(* --------------------------- the record target --------------------------- *)

\* Mutant: a used target is released too.
MutReleased(s, g) ==
  IF g.id = 0 \/ g.source = "midi" THEN s
  ELSE ReleaseTmpFile(GiveBack(s, g.buffer), g.file)

\* RecordTarget::release, which a target that was used ignores.
Released(s, g) ==
  IF g.id = 0 \/ g.used \/ g.source = "midi" THEN s
  ELSE ReleaseTmpFile(GiveBack(s, g.buffer), g.file)

\* Releasing twice: the pointers of a midi target are null by then, and the file
\* of an audio target may be gone from the list.
ReleaseFault(g) ==
  IF g.id = 0 \/ g.used THEN "none"
  ELSE IF g.source = "midi" THEN (IF g.held THEN "none" ELSE "null")
  ELSE IF Listed(store, g.file) THEN "none" ELSE "file"

\* prepareAudioRecord and prepareMidiRecord: the old target is released and
\* deleted, the new one takes a buffer and a file.
PrepareFault(t, kind) ==
  LET s == Released(store, target[t])
  IN IF ReleaseFault(target[t]) # "none" THEN ReleaseFault(target[t])
     ELSE IF kind = "midi" THEN "none"
     ELSE IF s.pool = <<>> THEN "pool"
     ELSE IF Unused(Expanded(s)) = {} THEN "files" ELSE "none"

Prepare(t, kind) ==
  LET s == Released(store, target[t])
      new == [NoTarget EXCEPT !.id = made + 1, !.source = kind]
      e == Expanded(Take(s))
  IN /\ made' = made + 1
     /\ IF kind = "midi"
        THEN store' = s /\ target' = [target EXCEPT ![t] = [new EXCEPT !.held = TRUE]]
        ELSE /\ store' = TakeTmpFile(e, Chosen(e))
             /\ target' = [target EXCEPT ![t] =
                             [new EXCEPT !.buffer = Head(s.pool), !.file = Chosen(e)]]

\* Mutant: what is in use is dumped in place of what is full.
MutDumping(g, buffer, start) ==
  [g EXCEPT !.flat = [buffer |-> g.buffer, file |-> g.file, start |-> start], !.used = TRUE]

\* dumpDataCommand fills the one flat record of the target.
Dumping(g, buffer, start) ==
  [g EXCEPT !.flat = [buffer |-> buffer, file |-> g.file, start |-> start], !.used = TRUE]

\* Mutant: the position of the recording is lost.
MutFinalized(g) == [Dumping(g, g.buffer, 0) EXCEPT !.fill = 0]

\* AudioRecord::finalize
Finalized(g) == [Dumping(g, g.buffer, g.start) EXCEPT !.fill = 0]

\* The sound in a buffer.
Sound(b) == UNION {content[b][p] : p \in 1..BufferBlocks}

Asked == SelectSeq(responses, LAMBDA r : r.kind = "Dump")

Emitted == SelectSeq(actions, LAMBDA a : a.kind = "DumpRecordedAudio" /\ a.state # "Finished")

\* A dump of the target is asked for and not yet read, or read and not yet on disk.
Unread(g) == \E i \in DOMAIN Asked : Asked[i].id = g.id

OnItsWay(g) ==
  \/ Unread(g)
  \/ \E i \in DOMAIN Emitted : Emitted[i].dump.file = g.file
  \/ \E i \in DOMAIN fileTasks : fileTasks[i].dump.file = g.file
  \/ worker.busy /\ worker.dump.file = g.file

\* Mutant: the file is not marked.
MutFinalizing(s, stopped) == s

\* finalizeFile of each target that is stopped.  A buffer that waits out the latency
\* is not dumped any more.
Finalizing(s, stopped) ==
  LET of(f) == {g \in stopped : g.file = f}
      left(f) == UNION {Sound(g.old) : g \in {g \in of(f) : g.old # 0}}
  IN [s EXCEPT !.files = [f \in DOMAIN @ |->
                            [@[f] EXCEPT !.final = @ \/ of(f) # {}, !.lost = @ \cup left(f),
                                         !.late = @ \/ \E g \in of(f) : OnItsWay(g)]]]

Response(kind, t) == [kind |-> kind, track |-> t, id |-> target[t].id]

(* ----------------------------- the interface ----------------------------- *)

Quiet == actions = <<>> /\ rtTasks = <<>> /\ responses = <<>> /\ fileTasks = <<>> /\ ~worker.busy

NewAction(kind, t) ==
  [kind |-> kind, id |-> made + 1, track |-> t, on |-> FALSE, source |-> "audio",
   command |-> "none", dump |-> NoDump, step |-> 1, state |-> "Executing", done |-> FALSE]

EmitAction(a) == actions' = Append(actions, a) /\ made' = made + 1

Command(c, a) ==
  /\ fault = "none"
  /\ c \in setting.commands /\ commands < setting.maxCommands
  /\ Patient => Quiet
  /\ EmitAction(a)
  /\ commands' = commands + 1
  /\ UNCHANGED <<store, content, trackVars, timeVars, viewVars, passVars, rtTasks, responses,
                 using, diskVars, blocks, fault>>

Arm(t, on, kind) == [NewAction("RecordArm", t) EXCEPT !.on = on, !.source = kind]

\* The record button of a track toggles what the view shows.
PressArm(t) ==
  LET on == ~view[t].record
  IN Command(IF on THEN "Arm" ELSE "Disarm", Arm(t, on, view[t].source))

Other(kind) == IF kind = "audio" THEN "midi" ELSE "audio"

\* The source button does nothing while the view shows a recording.
PressSource(t) ==
  /\ ~tlView.recording
  /\ Command("Source", Arm(t, view[t].record, Other(view[t].source)))

Transport(c) ==
  Command(c, [NewAction("ChangeTimelineState", Head(TrackList)) EXCEPT !.command = c])

PressPlay == Transport(IF tlView.roll = "Play" THEN "Pause" ELSE "Play")

PressStop == Transport("Stop")

PressRecord == Transport(IF tlView.recording THEN "StopRecord" ELSE "Record")

(* -------------------------- the control thread --------------------------- *)

Now == actions[idx]

At(kind, step) ==
  /\ fault = "none"
  /\ pc = "walk" /\ idx <= Len(actions)
  /\ Now.state = "Executing" /\ Now.kind = kind /\ Now.step = step

Dies(why) ==
  /\ fault' = why
  /\ UNCHANGED <<store, content, trackVars, timeVars, viewVars, actions, passVars, made,
                 rtTasks, responses, using, diskVars, blocks, commands>>

\* The action sends its task, a pointer to itself, and waits.
Send ==
  /\ actions' = [actions EXCEPT ![idx].state = "Waiting"]
  /\ rtTasks' = Append(rtTasks, Now)

Finish == actions' = [actions EXCEPT ![idx].state = "Finished"]

Go == idx' = idx + 1 /\ UNCHANGED pc

RecordArm1 ==
  /\ At("RecordArm", 1)
  /\ LET why == IF Now.on THEN PrepareFault(Now.track, Now.source) ELSE "none"
     IN IF why # "none"
        THEN Dies(why)
        ELSE /\ IF Now.on THEN Prepare(Now.track, Now.source) ELSE UNCHANGED <<store, target, made>>
             /\ Send
             /\ Go
             /\ UNCHANGED <<content, record, source, timeVars, viewVars, responses, using,
                            diskVars, blocks, commands, fault>>

\* releaseRecordTarget, which leaves the target where it is.
ReleaseRecordTarget(t) ==
  LET g == target[t]
  IN IF g.used
     THEN /\ target' = [target EXCEPT ![t] = Finalized(g)]
          /\ store' = Finalizing(store, {g})
          /\ responses' = Append(responses, Response("Dump", t))
     ELSE /\ target' = [target EXCEPT ![t].held = FALSE]
          /\ store' = Released(store, g)
          /\ UNCHANGED responses

\* The target that is turned off: released, or finalized by the control thread.
OffFault(g) ==
  IF g.used THEN (IF Listed(store, g.file) THEN "none" ELSE "file") ELSE ReleaseFault(g)

RecordArm2 ==
  /\ At("RecordArm", 2)
  /\ LET t == Now.track
         why == IF Now.on THEN "none" ELSE OffFault(target[t])
     IN IF why # "none"
        THEN Dies(why)
        ELSE /\ IF Now.on THEN UNCHANGED <<store, target, responses>> ELSE ReleaseRecordTarget(t)
             /\ view' = [view EXCEPT ![t] = [record |-> record[t], source |-> source[t]]]
             /\ Finish
             /\ Go
             /\ UNCHANGED <<content, record, source, timeVars, tlView, made, rtTasks, using,
                            diskVars, blocks, commands, fault>>

Reinit1 ==
  /\ At("ReinitTrackRecord", 1)
  /\ LET t == Now.track
     IN IF PrepareFault(t, source[t]) # "none"
        THEN Dies(PrepareFault(t, source[t]))
        ELSE /\ Prepare(t, source[t])
             /\ Send
             /\ Go
             /\ UNCHANGED <<content, record, source, timeVars, viewVars, responses, using,
                            diskVars, blocks, commands, fault>>

Reinit2 ==
  /\ At("ReinitTrackRecord", 2)
  /\ Finish
  /\ Go
  /\ UNCHANGED <<store, content, trackVars, timeVars, viewVars, made, rtTasks, responses, using,
                 diskVars, blocks, commands, fault>>

\* The file worker gets the dump together with the callback.
DumpRecordedAudio ==
  /\ At("DumpRecordedAudio", 1)
  /\ fileTasks' = Append(fileTasks, [dump |-> Now.dump, track |-> Now.track])
  /\ Finish
  /\ Go
  /\ UNCHANGED <<store, content, trackVars, timeVars, viewVars, made, rtTasks, responses, using,
                 worker, clips, blocks, commands, fault>>

ChangeTimelineState1 ==
  /\ At("ChangeTimelineState", 1)
  /\ Send
  /\ Go
  /\ UNCHANGED <<store, content, trackVars, timeVars, viewVars, made, responses, using,
                 diskVars, blocks, commands, fault>>

ChangeTimelineState2 ==
  /\ At("ChangeTimelineState", 2)
  /\ tlView' = [roll |-> roll, recording |-> recording]
  /\ Finish
  /\ Go
  /\ UNCHANGED <<store, content, trackVars, timeVars, view, made, rtTasks, responses, using,
                 diskVars, blocks, commands, fault>>

CheckWaitingCondition ==
  /\ fault = "none"
  /\ pc = "walk" /\ idx <= Len(actions)
  /\ Now.state = "Waiting"
  /\ actions' = IF Now.done
                THEN [actions EXCEPT ![idx].step = 2, ![idx].state = "Executing"]
                ELSE actions
  /\ Go
  /\ UNCHANGED <<store, content, trackVars, timeVars, viewVars, made, rtTasks, responses, using,
                 diskVars, blocks, commands, fault>>

\* The end of the walk: what has finished is erased.
EndWalk ==
  /\ fault = "none"
  /\ pc = "walk" /\ idx > Len(actions)
  /\ actions' = SelectSeq(actions, LAMBDA a : a.state # "Finished")
  /\ pc' = "respond" /\ idx' = 1
  /\ UNCHANGED <<store, content, trackVars, timeVars, viewVars, made, rtTasks, responses, using,
                 diskVars, blocks, commands, fault>>

\* A response is executed here: it reads the flat record as it is now, and emits.
Respond ==
  /\ fault = "none"
  /\ pc = "respond" /\ responses # <<>>
  /\ LET r == Head(responses)
     IN IF r.kind = "Dump" /\ target[r.track].id # r.id
        THEN Dies("flat")
        ELSE /\ EmitAction(IF r.kind = "Dump"
                           THEN [NewAction("DumpRecordedAudio", r.track)
                                   EXCEPT !.dump = target[r.track].flat]
                           ELSE NewAction("ReinitTrackRecord", r.track))
             /\ responses' = Tail(responses)
             /\ UNCHANGED <<store, content, trackVars, timeVars, viewVars, passVars, rtTasks,
                            using, diskVars, blocks, commands, fault>>

EndPass ==
  /\ fault = "none"
  /\ pc = "respond" /\ responses = <<>>
  /\ pc' = "walk"
  /\ UNCHANGED <<store, content, trackVars, timeVars, viewVars, actions, idx, made, rtTasks,
                 responses, using, diskVars, blocks, commands, fault>>

(* ------------------------- the real-time thread -------------------------- *)

Task == Head(rtTasks)

Runs(kind) == fault = "none" /\ using = <<>> /\ rtTasks # <<>> /\ Task.kind = kind

\* The task ends with completed.store(true).
Complete ==
  /\ rtTasks' = Tail(rtTasks)
  /\ actions' = [i \in DOMAIN actions |->
                   [actions[i] EXCEPT !.done = @ \/ actions[i].id = Task.id]]

RtRecordArm ==
  /\ Runs("RecordArm")
  /\ record' = [record EXCEPT ![Task.track] = Task.on]
  /\ source' = [source EXCEPT ![Task.track] = Task.source]
  /\ Complete
  /\ UNCHANGED <<store, content, target, timeVars, viewVars, passVars, made, responses, using,
                 diskVars, blocks, commands, fault>>

RtReinit ==
  /\ Runs("ReinitTrackRecord")
  /\ record' = [record EXCEPT ![Task.track] = TRUE]
  /\ Complete
  /\ UNCHANGED <<store, content, target, source, timeVars, viewVars, passVars, made, responses,
                 using, diskVars, blocks, commands, fault>>

\* Timeline::play, pause and record.
RtStart ==
  /\ Runs("ChangeTimelineState")
  /\ Task.command \in {"Play", "Pause", "Record"}
  /\ roll' = CASE Task.command = "Play" -> "Preparing"
               [] Task.command = "Pause" -> "Pause"
               [] Task.command = "Record" -> IF recording \/ roll = "Play" THEN roll ELSE "Preparing"
  /\ recording' = (recording \/ Task.command = "Record")
  /\ Complete
  /\ UNCHANGED <<store, content, trackVars, viewVars, passVars, made, responses, using,
                 diskVars, blocks, commands, fault>>

Armed == {t \in Tracks : record[t]}

Sounding == {t \in Armed : target[t].source = "audio"}

\* Track::stopRecording: finalize an audio target, then ask for a new one.
StopResponses(t) ==
  (IF t \in Sounding THEN <<Response("Dump", t)>> ELSE <<>>) \o
  (IF t \in Armed THEN <<Response("Reinit", t)>> ELSE <<>>)

StopAfterRecord ==
  /\ record' = [t \in Tracks |-> FALSE]
  /\ target' = [t \in Tracks |-> IF t \in Sounding THEN Finalized(target[t]) ELSE target[t]]
  /\ store' = Finalizing(store, {target[t] : t \in Sounding})
  /\ responses' = responses \o FlattenSeq([i \in DOMAIN TrackList |-> StopResponses(TrackList[i])])

\* Timeline::stop stops a recording first; stopRecord does not ask for one.
RtStop ==
  /\ Runs("ChangeTimelineState")
  /\ Task.command \in {"Stop", "StopRecord"}
  /\ LET ends == recording \/ Task.command = "StopRecord"
     IN IF ends /\ \E t \in Sounding : ~Listed(store, target[t].file)
        THEN Dies("file")
        ELSE /\ IF ends THEN StopAfterRecord ELSE UNCHANGED <<record, target, store, responses>>
             /\ recording' = FALSE
             /\ roll' = IF Task.command = "Stop" THEN "Stop" ELSE roll
             /\ Complete
             /\ UNCHANGED <<content, source, viewVars, passVars, made, using, diskVars, blocks,
                            commands, fault>>

\* The tasks are done; the block begins.  It plays if the last one left the
\* timeline playing, so the block in which it prepares records nothing.
RtBegin ==
  /\ fault = "none"
  /\ using = <<>> /\ rtTasks = <<>>
  /\ roll' = IF roll = "Preparing" THEN "Play" ELSE roll
  /\ using' = IF roll = "Play" /\ recording THEN [t \in Armed |-> target[t].id] ELSE <<>>
  /\ using' # <<>> => blocks < setting.maxBlocks
  /\ UNCHANGED <<store, content, trackVars, recording, viewVars, actions, passVars, made, rtTasks,
                 responses, diskVars, blocks, commands, fault>>

\* Track::process goes on to the next track; after the last the block ends.
NextTrack(t) ==
  /\ using' = [u \in DOMAIN using \ {t} |-> using[u]]
  /\ blocks' = IF DOMAIN using = {t} THEN blocks + 1 ELSE blocks

Writes(t) == fault = "none" /\ t \in DOMAIN using

\* Midi is buffered; nothing is ever dumped.
RtWriteMidi(t) ==
  /\ Writes(t)
  /\ target[t].id = using[t] /\ target[t].source = "midi"
  /\ target' = [target EXCEPT ![t].start = IF @ = 0 THEN blocks + 1 ELSE @]
  /\ NextTrack(t)
  /\ UNCHANGED <<store, content, record, source, timeVars, viewVars, actions, passVars, made,
                 rtTasks, responses, diskVars, commands, fault>>

\* The target was deleted under the block, or is of the other kind.
RtWriteGone(t) ==
  /\ Writes(t)
  /\ target[t].id # using[t] \/ target[t].source # source[t]
  /\ Dies("target")

Dumps(s) == [i \in DOMAIN s |-> s[i].dump.buffer]

\* The buffers on their way to the file worker, one entry for each dump.
InFlight ==
  [i \in DOMAIN Asked |-> target[Asked[i].track].flat.buffer] \o Dumps(Emitted) \o
  Dumps(fileTasks) \o (IF worker.busy THEN <<worker.dump.buffer>> ELSE <<>>)

\* setFileStartPosition, writeData and incrementCounter.  A full buffer becomes the
\* old one; the old one is dumped when the latency has passed.
RtWriteAudio(t) ==
  /\ Writes(t)
  /\ target[t].id = using[t] /\ target[t].source = "audio" /\ source[t] = "audio"
  /\ LET g == target[t]
         now == blocks + 1
         full == g.fill + 1 >= BufferBlocks
         waited == IF g.old # 0 THEN g.waited + 1 ELSE g.waited
         dump == g.old # 0 /\ waited >= LatencyBlocks
         old == IF full THEN g.buffer ELSE g.old
         turned == [g EXCEPT !.start = IF @ = 0 THEN now ELSE @,
                             !.fill = IF full THEN 0 ELSE @ + 1,
                             !.old = IF dump THEN 0 ELSE old,
                             !.waited = IF dump THEN 0 ELSE waited,
                             !.buffer = IF full /\ store.pool # <<>> THEN Head(store.pool) ELSE @]
     IN IF full /\ store.pool = <<>>
        THEN Dies("pool")
        ELSE /\ content' = [content EXCEPT ![g.buffer][g.fill + 1] = @ \cup {<<t, now>>}]
             /\ store' = [IF full THEN Take(store) ELSE store
                            EXCEPT !.files[g.file].heard = Append(@, {<<t, now>>}),
                                   !.files[g.file].late = @ \/ (dump /\ Unread(g))]
             /\ target' = [target EXCEPT ![t] = IF dump THEN Dumping(turned, old, 0) ELSE turned]
             /\ responses' = IF dump THEN Append(responses, Response("Dump", t)) ELSE responses
             /\ NextTrack(t)
             /\ UNCHANGED <<record, source, timeVars, viewVars, actions, passVars, made, rtTasks,
                            diskVars, commands, fault>>

(* ---------------------------- the file worker ---------------------------- *)

\* dumpAudio::exec: the whole buffer is written, however much of it is filled.
WorkerDump ==
  /\ fault = "none"
  /\ ~worker.busy /\ fileTasks # <<>>
  /\ LET d == Head(fileTasks).dump
     IN IF ~Listed(store, d.file)
        THEN Dies("file")
        ELSE \E ok \in setting.writeResults :
               /\ store' = [store EXCEPT !.files[d.file].data = IF ok THEN @ \o content[d.buffer] ELSE @,
                                         !.files[d.file].lost = IF ok THEN @ ELSE @ \cup Sound(d.buffer)]
               /\ worker' = [busy |-> TRUE, dump |-> d, track |-> Head(fileTasks).track, ok |-> ok]
               /\ fileTasks' = Tail(fileTasks)
               /\ UNCHANGED <<content, trackVars, timeVars, viewVars, actions, passVars, made, rtTasks,
                              responses, using, clips, blocks, commands, fault>>

Cleared(b) == [content EXCEPT ![b] = Silence]

\* The callback clears and returns the buffer, and closes a file that is final.
WorkerCallback ==
  /\ fault = "none"
  /\ worker.busy
  /\ LET d == worker.dump
         s == GiveBack(store, d.buffer)
         close == worker.ok /\ store.files[d.file].final
     IN /\ content' = Cleared(d.buffer)
        /\ store' = IF close THEN CloseTmpFile(s, d.file) ELSE s
        /\ clips' = IF close
                    THEN clips \cup {[file |-> d.file, track |-> worker.track, start |-> d.start]}
                    ELSE clips
  /\ worker' = [worker EXCEPT !.busy = FALSE, !.dump = NoDump, !.ok = FALSE]
  /\ UNCHANGED <<trackVars, timeVars, viewVars, actions, passVars, made, rtTasks, responses, using,
                 fileTasks, blocks, commands, fault>>

(* ----------------------------- specification ----------------------------- *)

Press ==
  \/ \E t \in Tracks : PressArm(t) \/ PressSource(t)
  \/ PressPlay \/ PressStop \/ PressRecord

ControlStep ==
  \/ RecordArm1 \/ RecordArm2 \/ Reinit1 \/ Reinit2 \/ DumpRecordedAudio
  \/ ChangeTimelineState1 \/ ChangeTimelineState2
  \/ CheckWaitingCondition \/ EndWalk \/ Respond \/ EndPass

RtStep ==
  \/ RtRecordArm \/ RtReinit \/ RtStart \/ RtStop \/ RtBegin
  \/ \E t \in Tracks : RtWriteMidi(t) \/ RtWriteGone(t) \/ RtWriteAudio(t)

WorkerStep == WorkerDump \/ WorkerCallback

Next == (Press \/ ControlStep \/ RtStep \/ WorkerStep) /\ UNCHANGED setting

Spec == Init /\ [][Next]_vars

\* Three threads that loop until shutdown; the user owes nothing.
FairSpec ==
  Spec /\ WF_vars(ControlStep /\ UNCHANGED setting) /\ WF_vars(RtStep /\ UNCHANGED setting)
       /\ WF_vars(WorkerStep /\ UNCHANGED setting)

(* ------------------------------ properties ------------------------------- *)

Files == 1..Len(store.files)

\* The buffers an armed track writes to.
Writing(t) ==
  IF t \notin Sounding THEN <<>>
  ELSE <<target[t].buffer>> \o (IF target[t].old # 0 THEN <<target[t].old>> ELSE <<>>)

Late == \E f \in Files : store.files[f].late

\* No track is turned off, which the source button does too as long as an arming is not shown.
NothingIsTurnedOff == "Disarm" \notin setting.commands /\ (Patient \/ "Source" \notin setting.commands)

\* A user who waits and turns no track off, and no file that was late.
Calm == Patient /\ NothingIsTurnedOff /\ ~Late

\* In a calm session a record buffer is in one place: free, written to by one track, or
\* on its way to disk, once.
BufferHasOnePlace ==
  Calm => IsInjective(store.pool \o InFlight \o
                      FlattenSeq([i \in DOMAIN TrackList |-> Writing(TrackList[i])]))

\* Two armed tracks record to two files, each is marked as in use, and when nothing is
\* under way it is still to be written.
FileHasOneWriter ==
  Calm =>
    \A t \in Sounding :
      /\ store.files[target[t].file].inUse
      /\ Quiet => ~store.files[target[t].file].final
      /\ \A u \in Sounding \ {t} : target[t].file # target[u].file

\* A target is not replaced while the real-time thread writes to it.
RtUsesItsTarget ==
  Calm => \A t \in DOMAIN using : target[t].id = using[t] /\ target[t].source = source[t]

\* A free buffer is silent: recording adds to what is in the buffer.
FreeBuffersAreSilent == Calm => \A i \in DOMAIN store.pool : content[store.pool[i]] = Silence

\* In a calm session nothing one thread writes to is in another's hands: buffers, files
\* and targets each have one place, and what is free is as new.
NothingIsShared ==
  BufferHasOnePlace /\ FileHasOneWriter /\ RtUsesItsTarget /\ FreeBuffersAreSilent

\* What is in a file, and what was recorded for it without what was left out.
Written(f) == SelectSeq(f.data, LAMBDA m : m # {})

Kept(f) == SelectSeq(f.heard, LAMBDA m : m \cap f.lost = {})

\* The last buffer that was full, if it was so for less than the latency at the end.
WaitingAtEnd(f) ==
  LET full == (Len(f.heard) \div BufferBlocks) * BufferBlocks
  IN IF full > 0 /\ Len(f.heard) - full < LatencyBlocks
     THEN (full - BufferBlocks + 1)..full ELSE {}

\* A clip of a calm session holds what its track recorded for it, in order, and begins
\* where the recording began.  It holds all of it but one buffer: the stop of a recording
\* loses the last full buffer while that one waits out the latency.
ClipIsTheTake ==
  Calm =>
    \A c \in clips :
      LET f == store.files[c.file]
      IN /\ Written(f) = Kept(f)
         /\ f.lost = UNION {f.heard[i] : i \in WaitingAtEnd(f)}
         /\ f.heard # <<>> => f.heard[1] = {<<c.track, c.start>>}

\* The sound in a file that was recorded for it: a target that was replaced before its first
\* dump gives its buffer back as it is, so there may be other sound beneath.
Own(f) ==
  SelectSeq([i \in DOMAIN f.data |-> f.data[i] \cap UNION ToSet(f.heard)], LAMBDA m : m # {})

\* However fast the user presses, short of turning a track off, and whatever writes fail,
\* a file has the beginning of what was recorded for it, in order, without the buffers
\* whose write failed or that a stop lost, as long as no dump was late.
FileFollowsTake ==
  fault = "none" /\ NothingIsTurnedOff /\ ~Late =>
    \A f \in Files : IsPrefix(Own(store.files[f]), Kept(store.files[f]))

\* A target that was let go and that the track still has: its buffer and file are gone.
Dangling(g) ==
  /\ g.id # 0
  /\ IF g.source = "midi" THEN ~g.held ELSE g.used /\ ~Listed(store, g.file)

\* Every buffer is with a target, on its way to disk, or holds what a stop lost.
AllBuffersAreAway ==
  \A b \in 1..Buffers - 1 :
    \/ \E t \in Tracks : b \in {target[t].buffer, target[t].old}
    \/ b \in ToSet(InFlight)
    \/ \E f \in Files : Sound(b) \cap store.files[f].lost # {}

\* The process of a user who waits ends in three ways only.  The pool is empty because all
\* buffers are in use or lost.  A dump was late: asked for before the last one was read, it
\* replaces that one, whose buffer never comes back; and a stop before the last one is on
\* disk has that one close the file, so that the next goes to a closed file.  A track that
\* was turned off keeps its target, and what lets that go again, turning the track on or
\* changing its source, follows null pointers or finalizes a closed file.
NoFault ==
  Patient =>
    \/ fault = "none"
    \/ fault = "pool" /\ AllBuffersAreAway
    \/ fault \in {"pool", "file"} /\ Late
    \/ /\ fault \in {"null", "file"} /\ ~NothingIsTurnedOff
       /\ \E t \in Tracks : ~record[t] /\ Dangling(target[t])

\* A recording that nobody continues is in its file.
Stopped(f) ==
  /\ f \in Files /\ store.files[f].heard # <<>>
  /\ \A t \in Sounding : target[t].file # f

\* In a calm session every recording that is over becomes a clip: again and again there
\* is none that is not.
TakeIsLoaded ==
  []<>(Calm /\ fault = "none" => \A f \in Files : Stopped(f) => \E c \in clips : c.file = f)
=============================================================================
