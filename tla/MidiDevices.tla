---------------------------- MODULE MidiDevices ----------------------------
(***************************************************************************)
(* Midi devices (src/core/MidiController.cpp, primitives/MidiPort.cpp,     *)
(* Actions/MidiController, the settings popup, the midi part of            *)
(* RtEngine::processNextBlock).  A detector thread lists the devices, the  *)
(* control thread opens and closes ports, each open port has a thread that *)
(* reads and one that writes, and the real-time thread collects the events *)
(* of every port that is in its map.  A port is never deleted.             *)
(*                                                                         *)
(* Bytes are status bytes by name or data with a value; the channel of a   *)
(* message is left out.  The clock ticks in frames of the audio driver.    *)
(***************************************************************************)
EXTENDS Integers, SequencesExt

CONSTANTS
  Hardware,     \* subdevices: device name, path, names of input and output ("" for none)
  Garbage,      \* what a flag that no one has set may read as
  Messages,     \* what a device may send: a status byte with its data bytes
  Keys,         \* notes that the virtual keyboard asks for
  BlockSize,    \* frames in a block
  Jitter,       \* frames by which a callback may be late
  QueueSize,    \* events the queue of a port holds
  Workloads,    \* bounds of a behaviour, and the subdevices that are open at its start
  MaxInFlight   \* bound: length of the action list at which the interface emits nothing

ASSUME MidiAssumption ==
  /\ \A h \in Hardware : DOMAIN h = {"dev", "path", "in", "out"}
  /\ Garbage \subseteq BOOLEAN /\ Garbage # {}
  /\ BlockSize \in Nat \ {0} /\ Jitter \in Nat /\ Jitter < BlockSize
  /\ QueueSize \in Nat /\ MaxInFlight \in Nat
  /\ \A w \in Workloads : w.open \subseteq Hardware

VARIABLES
  plugged,   \* external: the subdevices that are there
  listed,    \* MidiController::_deviceList, by name
  online,    \* those with _online
  popup,     \* SettingsPopup::MidiTab: its copy of the list, by generation
  ports,     \* MidiController::_activePorts, each with its threads and queues
  opening,   \* where the control thread is in openDevice
  actions, idx,   \* as in ControlEngine
  maps,      \* the vectors of ports made for the real-time thread
  rtMap,     \* the one it uses
  freed,     \* those that were deleted
  rtTasks,   \* the ring of tasks: the action each belongs to
  sender,    \* a thread between push and write of sendMidi, and its port
  now,       \* the clock
  anchor, lastSample,   \* MidiController: time and frame of the last callback
  callback,  \* where the real-time thread is
  framesPassed,
  running,   \* external: the status a device may leave out
  played,    \* history: the events that the messages of a device stand for
  parsed,    \* history: the events that its reader made of them
  heard,     \* history: numbers of those that reached the block's buffer
  budget     \* what is left of the workload

deviceVars == <<plugged, listed, online, popup>>
actionVars == <<actions, idx>>
mapVars == <<maps, rtMap, freed, rtTasks>>
clockVars == <<now, anchor, lastSample, callback, framesPassed>>
historyVars == <<running, played, parsed, heard>>
vars == <<deviceVars, ports, opening, actionVars, mapVars, sender, clockVars, historyVars, budget>>

NoParser == [command |-> "none", want |-> 0, data |-> <<>>]

\* The times that pushEvent has read; due: the block of the first callback to begin
\* after the stamp (a history).
NoTimes == [stamp |-> 0, due |-> 0, seen |-> 0, offset |-> 0, untorn |-> FALSE]

Virtual == [dev |-> "Virtual Midi", path |-> "", in |-> "Virtual Midi Input", out |-> ""]

\* A port as its constructor and the action leave it; owner is the generation of
\* the copy that _ownerDev and _ownerSubdev point into, 0 for the list itself.
NewPort(h, owner, opened, input, output) ==
  [hw |-> h, owner |-> owner, isOpened |-> opened, inputOpened |-> input, outputOpened |-> output,
   justCreated |-> TRUE, inputHandle |-> FALSE, outputHandle |-> FALSE,
   run |-> FALSE, reader |-> "none", line |-> <<>>, parser |-> NoParser, pending |-> <<>>,
   times |-> NoTimes, inQueue |-> <<>>, local |-> <<>>,
   runOutput |-> FALSE, writer |-> "none", outQueue |-> 0, efd |-> 0]

VirtualPort == [NewPort(Virtual, 0, TRUE, TRUE, FALSE) EXCEPT !.justCreated = FALSE]

OpenedPort(h) ==
  [NewPort(h, 0, TRUE, TRUE, FALSE) EXCEPT !.justCreated = FALSE, !.inputHandle = TRUE,
                                          !.run = TRUE, !.reader = "poll"]

\* The engine has just rendered its first block.
Init ==
  /\ budget \in Workloads
  /\ plugged = Hardware
  /\ listed = {h.dev : h \in Hardware} /\ online = listed
  /\ popup = [generation |-> 1, online |-> online]
  /\ ports = <<VirtualPort>> \o [i \in DOMAIN SetToSeq(budget.open) |-> OpenedPort(SetToSeq(budget.open)[i])]
  /\ opening = [at |-> "no"]
  /\ actions = <<>> /\ idx = 1
  /\ maps = <<DOMAIN ports>> /\ rtMap = 1 /\ freed = {} /\ rtTasks = <<>>
  /\ sender = 0
  /\ now = 0 /\ anchor = 0 /\ lastSample = 0 /\ callback = "no" /\ framesPassed = BlockSize
  /\ running = [h \in Hardware |-> "none"]
  /\ played = [h \in Hardware \cup {Virtual} |-> <<>>] /\ parsed = played /\ heard = played

(* -------------------------- devices and interface ------------------------ *)

Spend(what) == budget[what] > 0 /\ budget' = [budget EXCEPT ![what] = @ - 1]

\* A device is pulled out or plugged in, with all its subdevices.
Plug ==
  /\ Spend("plugs")
  /\ \E d \in {h.dev : h \in Hardware} :
       LET of == {h \in Hardware : h.dev = d}
       IN plugged' = IF of \subseteq plugged THEN plugged \ of ELSE plugged \cup of
  /\ UNCHANGED <<listed, online, popup, ports, opening, actionVars, mapVars, sender, clockVars, historyVars>>

checkDevices ==
  /\ LET found == {h.dev : h \in plugged}
     IN listed' = listed \cup found /\ online' = found
  /\ UNCHANGED <<plugged, popup, ports, opening, actionVars, mapVars, sender, clockVars, historyVars, budget>>

\* The popup forgets its copies, to which actions and ports may still point.
refreshDevices ==
  /\ Spend("refreshes")
  /\ popup' = [generation |-> popup.generation + 1, online |-> online]
  /\ UNCHANGED <<plugged, listed, online, ports, opening, actionVars, mapVars, sender, clockVars, historyVars>>

Alive(generation) == generation \in {0, popup.generation}

NewAction(kind, h, input, newState, generation, isOnline, note) ==
  [kind |-> kind, hw |-> h, input |-> input, newState |-> newState, generation |-> generation,
   online |-> isOnline, note |-> note, state |-> "Executing", step |-> 1,
   completed |-> FALSE, map |-> 0, old |-> 0]

EmitAction(a) ==
  /\ actions' = Append(actions, a)
  /\ UNCHANGED <<deviceVars, ports, opening, idx, mapVars, sender, clockVars, historyVars>>

\* A checkbox of the popup: in- or output of a subdevice, on or off.
EmitToggle ==
  /\ Len(actions) < MaxInFlight /\ Spend("toggles")
  /\ \E h \in Hardware, input \in BOOLEAN, newState \in BOOLEAN :
       /\ h.dev \in listed
       /\ IF input THEN h.in # "" ELSE h.out # ""
       /\ EmitAction(NewAction("Toggle", h, input, newState, popup.generation, h.dev \in popup.online, 0))

\* PushMidi::connect asks for the input and at once for the output of the device
\* that the detector just listed, by pointers into the list.
EmitConnect ==
  /\ actions = <<>> /\ Spend("connects")
  /\ \E h \in Hardware :
       /\ h.in # "" /\ h.out # ""
       /\ \A p \in DOMAIN ports : ports[p].hw # h
       /\ \E opened, input, output \in Garbage : ports' = Append(ports, NewPort(h, 0, opened, input, output))
       /\ actions' = <<NewAction("Toggle", h, TRUE, TRUE, 0, TRUE, 0), NewAction("Toggle", h, FALSE, TRUE, 0, TRUE, 0)>>
  /\ UNCHANGED <<deviceVars, opening, idx, mapVars, sender, clockVars, historyVars>>

EmitKey ==
  /\ Len(actions) < MaxInFlight /\ Spend("keys")
  /\ \E n \in Keys : EmitAction(NewAction("VMKTrigger", Virtual, TRUE, TRUE, 0, TRUE, n))

(* ---------------------------- the control thread ------------------------- *)

At(kind, state) ==
  /\ opening.at = "no"
  /\ idx <= Len(actions) /\ actions[idx].kind = kind /\ actions[idx].state = state

\* The action at idx becomes a, and the pass goes on.
Continue(a) == actions' = [actions EXCEPT ![idx] = a] /\ idx' = idx + 1

Current == actions[idx]

Aborted == [Current EXCEPT !.state = "Abort"]

\* The port of a subdevice as the action looks for it: same device, and the same
\* name of the input or another one of the output.
SameSubdevice(p, h) ==
  /\ ports[p].hw.dev = h.dev
  /\ ports[p].hw.in = h.in \/ ports[p].hw.out # h.out

\* What it may find: names read through pointers to a forgotten copy may be anything.
Candidates(h, generation) ==
  LET readable(p) == Alive(ports[p].owner) /\ Alive(generation)
      may(p) == readable(p) => SameSubdevice(p, h)
      must(p) == readable(p) /\ SameSubdevice(p, h)
      new == Len(ports) + 1
  IN {p \in DOMAIN ports : may(p) /\ \A q \in 1..(p - 1) : ~must(q)}
       \cup {n \in {new} : \A q \in DOMAIN ports : ~must(q)}

\* The end of step 1: the queues of a new port are added to copies of the maps that
\* the real-time thread uses now, and a task that swaps them is sent.
Conclude(list, p) ==
  IF Current.newState /\ ~list[p].isOpened
  THEN ports' = list /\ Continue(Aborted) /\ UNCHANGED mapVars
  ELSE IF list[p].justCreated
  THEN /\ ports' = [list EXCEPT ![p].justCreated = FALSE]
       /\ maps' = Append(maps, maps[rtMap] \cup {p})
       /\ rtTasks' = Append(rtTasks, idx)
       /\ Continue([Current EXCEPT !.state = "Waiting", !.completed = FALSE, !.map = Len(maps) + 1])
       /\ UNCHANGED <<rtMap, freed>>
  ELSE ports' = list /\ Continue([Current EXCEPT !.state = "Finished"]) /\ UNCHANGED mapVars

\* closeDevice from its second half on: the writer is told to stop, or there is none.
StopWriter(list, o) ==
  IF list[o.port].outputHandle
  THEN /\ ports' = [list EXCEPT ![o.port].runOutput = FALSE, ![o.port].outputOpened = FALSE]
       /\ opening' = [o EXCEPT !.at = "joinWriter"]
  ELSE ports' = list /\ opening' = [o EXCEPT !.at = "closed"]

closeDevice(list, o) ==
  IF list[o.port].inputHandle
  THEN ports' = [list EXCEPT ![o.port].run = FALSE] /\ opening' = [o EXCEPT !.at = "joinReader"]
  ELSE StopWriter(list, o)

\* ToggleMidiDevice, step 1, up to openDevice: nothing is done when both directions are
\* as they should be.
Toggle1 ==
  /\ At("Toggle", "Executing") /\ Current.step = 1
  /\ LET h == Current.hw
         isOnline == IF Current.generation = 0 THEN {h.dev \in online}
                     ELSE IF Alive(Current.generation) THEN {Current.online} ELSE BOOLEAN
     IN \/ /\ FALSE \in isOnline
           /\ Continue(Aborted)
           /\ UNCHANGED <<ports, opening, mapVars>>
        \/ /\ TRUE \in isOnline
           /\ \E p \in Candidates(h, Current.generation), opened, input, output \in Garbage :
                LET new == NewPort(h, Current.generation, opened, input, output)
                    list == IF p > Len(ports) THEN Append(ports, new) ELSE ports
                    wantsIn == IF Current.input THEN Current.newState ELSE list[p].inputOpened
                    wantsOut == IF Current.input THEN list[p].outputOpened ELSE Current.newState
                IN IF list[p].isOpened /\ list[p].inputOpened = wantsIn /\ list[p].outputOpened = wantsOut
                   THEN Conclude(list, p) /\ UNCHANGED opening
                   ELSE /\ closeDevice(list, [at |-> "close", port |-> p, in |-> wantsIn, out |-> wantsOut])
                        /\ UNCHANGED <<actionVars, mapVars>>
  /\ UNCHANGED <<deviceVars, sender, clockVars, historyVars, budget>>

joinReader ==
  /\ opening.at = "joinReader" /\ ports[opening.port].reader = "ended"
  /\ StopWriter([ports EXCEPT ![opening.port].reader = "none", ![opening.port].inputHandle = FALSE,
                              ![opening.port].line = <<>>], opening)
  /\ UNCHANGED <<deviceVars, actionVars, mapVars, sender, clockVars, historyVars, budget>>

joinWriter ==
  /\ opening.at = "joinWriter" /\ ports[opening.port].writer = "ended"
  /\ ports' = [ports EXCEPT ![opening.port].writer = "none", ![opening.port].outputHandle = FALSE]
  /\ opening' = [opening EXCEPT !.at = "closed"]
  /\ UNCHANGED <<deviceVars, actionVars, mapVars, sender, clockVars, historyVars, budget>>

Busy(h) == \E q \in DOMAIN ports : ports[q].hw = h /\ (ports[q].inputHandle \/ ports[q].outputHandle)

\* The rest of openDevice, with the threads of the directions that are open.
openDevice ==
  /\ opening.at = "closed"
  /\ LET p == opening.port
         may == ports[p].hw \in plugged /\ ~Busy(ports[p].hw) /\ (opening.in \/ opening.out)
     IN \E opens \in {may, FALSE} :
          LET in == opens /\ opening.in
              out == opens /\ opening.out
          IN Conclude([ports EXCEPT ![p].isOpened = opens,
                                    ![p].inputOpened = in, ![p].outputOpened = out,
                                    ![p].inputHandle = in, ![p].outputHandle = out,
                                    ![p].reader = IF in THEN "starting" ELSE @,
                                    ![p].writer = IF out THEN "starting" ELSE @], p)
  /\ opening' = [at |-> "no"]
  /\ UNCHANGED <<deviceVars, sender, clockVars, historyVars, budget>>

\* Mutant: the vectors are deleted that the real-time thread has now.
MutToggle2 ==
  /\ At("Toggle", "Executing") /\ Current.step = 2
  /\ freed' = freed \cup {rtMap}
  /\ Continue([Current EXCEPT !.state = "Finished"])
  /\ UNCHANGED <<deviceVars, ports, opening, maps, rtMap, rtTasks, sender, clockVars, historyVars, budget>>

Toggle2 ==
  /\ At("Toggle", "Executing") /\ Current.step = 2
  /\ freed' = freed \cup {Current.old}
  /\ Continue([Current EXCEPT !.state = "Finished"])
  /\ UNCHANGED <<deviceVars, ports, opening, maps, rtMap, rtTasks, sender, clockVars, historyVars, budget>>

checkWaitingCondition ==
  /\ At("Toggle", "Waiting")
  /\ Continue(IF Current.completed THEN [Current EXCEPT !.state = "Executing", !.step = 2] ELSE Current)
  /\ UNCHANGED <<deviceVars, ports, opening, mapVars, sender, clockVars, historyVars, budget>>

EndPass ==
  /\ opening.at = "no" /\ actions # <<>> /\ idx > Len(actions)
  /\ LET stays(i) == actions[i].state \in {"Executing", "Waiting"}
         kept == SelectSeq([i \in DOMAIN actions |-> i], stays)
     IN /\ actions' = [j \in DOMAIN kept |-> actions[kept[j]]]
        /\ rtTasks' = [t \in DOMAIN rtTasks |-> SelectInSeq(kept, LAMBDA i : i = rtTasks[t])]
  /\ idx' = 1
  /\ UNCHANGED <<deviceVars, ports, opening, maps, rtMap, freed, sender, clockVars, historyVars, budget>>

(* ------------------------------ the two threads -------------------------- *)

\* A loop goes on as long as its flag says so.
Again(p, list, flag, role) ==
  [list EXCEPT ![p][role] = IF list[p][flag] THEN "poll" ELSE "ended"]

Loop(p, list) == Again(p, list, "run", "reader")

ThreadStep == UNCHANGED <<deviceVars, opening, actionVars, mapVars, sender, clockVars, budget>>

inputHandle(p) ==
  /\ ports[p].reader = "starting"
  /\ ports' = Loop(p, [ports EXCEPT ![p].run = TRUE])
  /\ UNCHANGED historyVars /\ ThreadStep

\* poll comes back after ten seconds without data, or with an error.
PollEnds(p) ==
  /\ ports[p].reader = "poll"
  /\ \/ ports' = Loop(p, ports)
     \/ ports[p].hw \notin plugged /\ ports' = [ports EXCEPT ![p].reader = "ended"]
  /\ UNCHANGED historyVars /\ ThreadStep

expectedLength(status) ==
  CASE status \in {"NoteOn", "NoteOff", "Aftertouch", "CC", "PitchBend", "SongPosition"} -> 2
    [] status \in {"ProgramChange", "ChannelPressure", "TimeCodeQuarterFrame", "SongSelect"} -> 1
    [] status = "SysEx" -> -1
    [] OTHER -> 0

RealTime == {"Clock", "Start", "Continue", "Stop", "ActiveSensing", "SystemReset"}

\* What event() queues of a complete message.
event(status, data) ==
  CASE status = "NoteOn" -> <<[type |-> IF data[2] > 0 THEN "NoteOn" ELSE "NoteOff", a |-> data[1], b |-> data[2]]>>
    [] status \in {"NoteOff", "Aftertouch", "CC"} -> <<[type |-> status, a |-> data[1], b |-> data[2]]>>
    [] status = "ChannelPressure" -> <<[type |-> status, a |-> data[1], b |-> 0]>>
    [] status = "PitchBend" -> <<[type |-> status, a |-> data[1] + 128 * data[2], b |-> 0]>>
    [] OTHER -> <<>>

\* A data byte: it fills the message, and a complete one is handed on.
takeData(s, value) ==
  LET room == IF s.command = "SysEx" THEN 128 ELSE s.want
      data == IF Len(s.data) < room THEN Append(s.data, value) ELSE s.data
  IN CASE s.command = "none" -> s
       [] s.command # "none" /\ Len(data) = s.want ->
            [s EXCEPT !.data = <<>>, !.events = @ \o event(s.command, data)]
       [] OTHER -> [s EXCEPT !.data = data]

\* Mutant: a real-time byte is taken for a new command.
MutparseByte(s, byte) ==
  CASE byte.status = "data" -> takeData(s, byte.value)
    [] byte.status = "EndOfSysEx" -> [s EXCEPT !.command = "none", !.data = <<>>]
    [] OTHER -> [s EXCEPT !.command = byte.status, !.want = expectedLength(byte.status), !.data = <<>>]

\* One byte of parseInput.  Real-time bytes come in between without harm, a status
\* byte starts a message, and a data byte after a complete one starts another of the
\* same kind.
parseByte(s, byte) ==
  CASE byte.status = "data" -> takeData(s, byte.value)
    [] byte.status = "SystemReset" -> [s EXCEPT !.command = "none", !.data = <<>>, !.want = 0]
    [] byte.status \in RealTime \ {"SystemReset"} -> s
    [] byte.status = "EndOfSysEx" -> [s EXCEPT !.command = "none", !.data = <<>>]
    [] OTHER -> [s EXCEPT !.command = byte.status, !.want = expectedLength(byte.status), !.data = <<>>]

parseInput(parser, bytes) ==
  FoldLeft(parseByte, [command |-> parser.command, want |-> parser.want, data |-> parser.data, events |-> <<>>], bytes)

\* A read takes what has arrived, up to any byte.
ReadInput(p) ==
  /\ ports[p].reader = "poll"
  /\ \E n \in 1..Len(ports[p].line) :
       LET result == parseInput(ports[p].parser, SubSeq(ports[p].line, 1, n))
           known == Len(parsed[ports[p].hw])
           numbered == [i \in DOMAIN result.events |-> [nr |-> known + i, event |-> result.events[i]]]
           list == [ports EXCEPT ![p].line = SubSeq(@, n + 1, Len(@)),
                                 ![p].parser = [command |-> result.command, want |-> result.want, data |-> result.data],
                                 ![p].pending = numbered]
       IN /\ ports' = IF numbered = <<>> THEN Loop(p, list) ELSE [list EXCEPT ![p].reader = "stamp"]
          /\ parsed' = [parsed EXCEPT ![ports[p].hw] = @ \o result.events]
  /\ UNCHANGED <<running, played, heard>> /\ ThreadStep

NextBlock == IF callback = "no" THEN framesPassed ELSE framesPassed + BlockSize

\* pushEvent: the time, the time of the last callback and its frame are read one
\* after the other, then the event is queued.
StampEvent(p) ==
  /\ ports[p].reader = "stamp"
  /\ ports' = [ports EXCEPT ![p].times = [NoTimes EXCEPT !.stamp = now, !.due = NextBlock], ![p].reader = "anchor"]
  /\ UNCHANGED historyVars /\ ThreadStep

ReadAnchor(p) ==
  /\ ports[p].reader = "anchor"
  /\ ports' = [ports EXCEPT ![p].times.seen = anchor, ![p].reader = "lastSample"]
  /\ UNCHANGED historyVars /\ ThreadStep

\* Mutant: the constant delay of a block is forgotten.
MutOffset(stamp, seen, last) == {last + stamp - seen}

\* A time before the anchor's is negative, and its conversion to an unsigned frame
\* count gives zero on one machine and wraps around on another.
Offset(stamp, seen, last) ==
  IF stamp >= seen THEN {last + BlockSize + stamp - seen} ELSE {last + BlockSize, last + BlockSize + stamp - seen}

\* The times are those of one callback.
Untorn(stamp, seen) == stamp >= seen /\ seen \in lastSample..(lastSample + Jitter)

ReadLastSample(p) ==
  /\ ports[p].reader = "lastSample"
  /\ LET t == ports[p].times
     IN \E offset \in Offset(t.stamp, t.seen, lastSample) :
          ports' = [ports EXCEPT ![p].times = [t EXCEPT !.offset = offset, !.untorn = Untorn(t.stamp, t.seen)],
                                 ![p].reader = "push"]
  /\ UNCHANGED historyVars /\ ThreadStep

Queued(p, first, t) ==
  IF Len(ports[p].inQueue) < QueueSize THEN Append(ports[p].inQueue, first @@ t) ELSE ports[p].inQueue

pushEvent(p) ==
  /\ ports[p].reader = "push"
  /\ LET list == [ports EXCEPT ![p].pending = Tail(@), ![p].times = NoTimes,
                               ![p].inQueue = Queued(p, Head(ports[p].pending), ports[p].times)]
     IN ports' = IF Len(ports[p].pending) > 1 THEN [list EXCEPT ![p].reader = "stamp"] ELSE Loop(p, list)
  /\ UNCHANGED historyVars /\ ThreadStep

writeHandle(p) ==
  /\ ports[p].writer = "starting"
  /\ ports' = [ports EXCEPT ![p].outputOpened = TRUE, ![p].runOutput = TRUE, ![p].efd = 0, ![p].writer = "poll"]
  /\ UNCHANGED historyVars /\ ThreadStep

\* An empty queue puts the writer to sleep until someone writes to its event
\* descriptor; otherwise it takes what is queued and writes it out.
WriterLoop(p) ==
  /\ ports[p].writer = "poll"
  /\ \/ /\ ports[p].outQueue = 0
        /\ ports' = [ports EXCEPT ![p].writer = "sleep"]
     \/ /\ ports[p].outQueue > 0
        /\ \/ ports' = Again(p, [ports EXCEPT ![p].outQueue = 0], "runOutput", "writer")
           \/ /\ ports[p].hw \notin plugged
              /\ ports' = [ports EXCEPT ![p].outQueue = 0, ![p].writer = "ended"]
  /\ UNCHANGED historyVars /\ ThreadStep

WriterWakes(p) ==
  /\ ports[p].writer = "sleep" /\ ports[p].efd > 0
  /\ ports' = Again(p, [ports EXCEPT ![p].efd = 0], "runOutput", "writer")
  /\ UNCHANGED historyVars /\ ThreadStep

\* Anyone with a pointer to the port: the event is queued, then the writer woken.
sendMidi(p) ==
  /\ sender = 0 /\ Spend("sends")
  /\ p > 1 /\ ~ports[p].justCreated
  /\ IF ports[p].outputOpened
     THEN ports' = [ports EXCEPT ![p].outQueue = @ + 1] /\ sender' = p
     ELSE UNCHANGED <<ports, sender>>
  /\ UNCHANGED <<deviceVars, opening, actionVars, mapVars, clockVars, historyVars>>

WakeWriter ==
  /\ sender # 0
  /\ ports' = [ports EXCEPT ![sender].efd = @ + 1]
  /\ sender' = 0
  /\ UNCHANGED <<deviceVars, opening, actionVars, mapVars, clockVars, historyVars, budget>>

\* The virtual keyboard: its event goes to the first port, from the control thread.
VMKTrigger ==
  /\ At("VMKTrigger", "Executing")
  /\ IF Current.note \notin 1..127
     THEN Continue(Aborted) /\ UNCHANGED <<ports, historyVars>>
     ELSE LET value == [type |-> "NoteOn", a |-> Current.note, b |-> 1]
              nr == Len(parsed[Virtual]) + 1
          IN /\ Continue([Current EXCEPT !.state = "Finished"])
             /\ \E offset \in Offset(now, anchor, lastSample) :
                  ports' = [ports EXCEPT ![1].inQueue =
                              Queued(1, [nr |-> nr, event |-> value],
                                     [stamp |-> now, due |-> NextBlock, seen |-> anchor, offset |-> offset,
                                      untorn |-> Untorn(now, anchor)])]
             /\ played' = [played EXCEPT ![Virtual] = Append(@, value)]
             /\ parsed' = [parsed EXCEPT ![Virtual] = Append(@, value)]
             /\ UNCHANGED <<running, heard>>
  /\ UNCHANGED <<deviceVars, opening, mapVars, sender, clockVars, budget>>

\* A device sends a message, which may leave out a status byte that it repeats and
\* may have a clock byte anywhere in it.
SendMessage ==
  /\ Spend("messages")
  /\ \E p \in DOMAIN ports, m \in Messages :
       LET h == ports[p].hw
           data == [i \in DOMAIN m.data |-> [status |-> "data", value |-> m.data[i]]]
           byte(name) == [status |-> name, value |-> 0]
           end == IF m.status = "SysEx" THEN <<byte("EndOfSysEx")>> ELSE <<>>
           whole == <<byte(m.status)>> \o data \o end
       IN /\ ports[p].inputHandle /\ h \in plugged
          /\ \E plain \in {whole} \cup {d \in {data} : running[h] = m.status} :
             \E bytes \in {plain} \cup {InsertAt(plain, i, byte("Clock")) : i \in 1..Len(plain)} :
               ports' = [ports EXCEPT ![p].line = @ \o bytes]
          /\ running' = [running EXCEPT ![h] = IF m.status = "SysEx" THEN "none" ELSE m.status]
          /\ played' = [played EXCEPT ![h] = @ \o event(m.status, m.data)]
  /\ UNCHANGED <<parsed, heard, deviceVars, opening, actionVars, mapVars, sender, clockVars>>

(* --------------------------- the real-time thread ------------------------ *)

\* A callback begins when its block is due, at most Jitter late, and ends before the
\* next one is.
Tick ==
  /\ now + 1 <= IF callback = "no" THEN framesPassed + Jitter ELSE framesPassed + BlockSize - 1
  /\ now' = now + 1
  /\ UNCHANGED <<deviceVars, ports, opening, actionVars, mapVars, sender, anchor, lastSample, callback, framesPassed, historyVars, budget>>

setAnchor ==
  /\ callback = "no" /\ now >= framesPassed /\ Spend("blocks")
  /\ anchor' = now /\ callback' = "anchor"
  /\ UNCHANGED <<deviceVars, ports, opening, actionVars, mapVars, sender, now, lastSample, framesPassed, historyVars>>

setLastSample ==
  /\ callback = "anchor"
  /\ lastSample' = framesPassed /\ callback' = "process"
  /\ UNCHANGED <<deviceVars, ports, opening, actionVars, mapVars, sender, now, anchor, framesPassed, historyVars, budget>>

\* execRT of the maps, one task after the other: each remembers what it replaces.
SwapMaps ==
  LET map(t) == IF t = 0 THEN rtMap ELSE actions[rtTasks[t]].map
  IN /\ rtMap' = map(Len(rtTasks))
     /\ actions' = [i \in DOMAIN actions |->
                       IF i \in ToSet(rtTasks)
                       THEN [actions[i] EXCEPT !.completed = TRUE,
                                               !.old = map(SelectInSeq(rtTasks, LAMBDA j : j = i) - 1)]
                       ELSE actions[i]]
     /\ rtTasks' = <<>>

\* The events of a queue up to the first one that is late; that one is skipped and
\* the rest waits for the next block.  An event that is heard has its offset from the
\* beginning of the block (block: which one, a history).
Heard(queue) ==
  LET late == SelectInSeq(queue, LAMBDA e : e.offset < framesPassed)
      heardNow == IF late = 0 THEN queue ELSE SubSeq(queue, 1, late - 1)
  IN [i \in DOMAIN heardNow |-> [heardNow[i] EXCEPT !.offset = @ - framesPassed] @@ [block |-> framesPassed]]

Left(queue) ==
  LET late == SelectInSeq(queue, LAMBDA e : e.offset < framesPassed)
  IN IF late = 0 THEN <<>> ELSE SubSeq(queue, late + 1, Len(queue))

processNextBlock ==
  /\ callback = "process"
  /\ SwapMaps
  /\ ports' = [p \in DOMAIN ports |->
                 IF p \in maps[rtMap']
                 THEN [ports[p] EXCEPT !.local = Heard(ports[p].inQueue), !.inQueue = Left(@)]
                 ELSE ports[p]]
  /\ heard' = [h \in DOMAIN heard |->
                 heard[h] \o FlattenSeq([p \in DOMAIN ports |->
                    IF ports[p].hw = h /\ p \in maps[rtMap']
                    THEN [i \in DOMAIN ports'[p].local |-> ports'[p].local[i].nr] ELSE <<>>])]
  /\ framesPassed' = framesPassed + BlockSize /\ callback' = "no"
  /\ UNCHANGED <<deviceVars, opening, idx, maps, freed, sender, now, anchor, lastSample, running, played, parsed, budget>>

Interface == Plug \/ checkDevices \/ refreshDevices \/ EmitToggle \/ EmitConnect \/ EmitKey

Control ==
  \/ Toggle1 \/ joinReader \/ joinWriter \/ openDevice \/ Toggle2
  \/ checkWaitingCondition \/ VMKTrigger \/ EndPass

Thread(p) ==
  \/ inputHandle(p) \/ PollEnds(p) \/ ReadInput(p) \/ StampEvent(p) \/ ReadAnchor(p) \/ ReadLastSample(p)
  \/ pushEvent(p)
  \/ writeHandle(p) \/ WriterLoop(p) \/ WriterWakes(p) \/ sendMidi(p)

RealTimeThread == Tick \/ setAnchor \/ setLastSample \/ processNextBlock

Next == Interface \/ Control \/ (\E p \in DOMAIN ports : Thread(p)) \/ WakeWriter \/ SendMessage \/ RealTimeThread

Spec == Init /\ [][Next]_vars

(* ------------------------------- properties ------------------------------ *)

\* The real-time thread never works with a vector of ports that was deleted, and when
\* no toggle is going on it serves every port that is open.
RtServesOpenPorts ==
  /\ rtMap \notin freed
  /\ actions = <<>> => \A p \in DOMAIN ports : ports[p].inputHandle => p \in maps[rtMap]

\* Whatever a device does with running status, real-time bytes in the middle of a
\* message and messages nobody listens to, and however the reads cut its bytes, the
\* events are those it played, and they are heard in their order and once.
NotesArriveAsPlayed ==
  \A h \in DOMAIN played :
    /\ IsPrefix(parsed[h], played[h])
    /\ \A i, j \in DOMAIN heard[h] : i < j => heard[h][i] < heard[h][j]

\* An event whose times are those of one callback is heard a block after its stamp,
\* earlier by no more than that callback was late, and in the first block to begin after
\* its stamp.  But for one stamped in the middle of a callback, which that callback may
\* take already, at an offset that lies beyond its block, and one whose reader was too
\* slow to push it, which is heard in the block after if the lateness brings it there.
NotesKeepTheirTime ==
  \A p \in DOMAIN ports : \A i \in DOMAIN ports[p].local :
    LET e == ports[p].local[i]
    IN e.untorn =>
         /\ e.block + e.offset \in (e.stamp + BlockSize - Jitter)..(e.stamp + BlockSize)
         /\ \/ e.block = e.due /\ e.offset \in 0..(BlockSize + Jitter)
            \/ e.block = e.due - BlockSize /\ e.offset >= BlockSize
            \/ e.block = e.due + BlockSize /\ e.offset \in 0..Jitter

\* "always write to fd, otherwise we will get dead sleep" (src/core/primitives/MidiPort.cpp):
\* no one waits for a writer that sleeps and that no one will wake.
NoDeadSleep ==
  ~(opening.at = "joinWriter" /\ ports[opening.port].writer = "sleep"
      /\ ports[opening.port].efd = 0 /\ sender # opening.port)
=============================================================================
