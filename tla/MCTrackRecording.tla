-------------------------- MODULE MCTrackRecording --------------------------
(***************************************************************************)
(* Recording sessions for TrackRecording: two tracks with every command of *)
(* a user who waits but turning a track off; takes that fill two buffers,  *)
(* stopped at any time; a user who waits and turns the track off; and one  *)
(* who does not wait while writes fail.                                    *)
(***************************************************************************)
EXTENDS TrackRecording

Takes ==
  [trackList |-> <<"t1", "t2">>, bufferBlocks |-> 3, freeAtStart |-> {9}, writeResults |-> {TRUE},
   commands |-> AllCommands \ {"Disarm"}, patient |-> TRUE, maxCommands |-> 5, maxBlocks |-> 2]

LongTakes ==
  [Takes EXCEPT !.trackList = <<"t1">>, !.commands = {"Arm", "Record", "Stop", "StopRecord"},
                !.maxCommands = 4, !.maxBlocks = 12]

TurnedOff ==
  [Takes EXCEPT !.trackList = <<"t1">>, !.commands = {"Arm", "Disarm", "Source", "Record", "StopRecord"},
                !.maxBlocks = 5]

Unruly ==
  [Takes EXCEPT !.trackList = <<"t1">>, !.freeAtStart = {0, 9}, !.writeResults = {TRUE, FALSE},
                !.commands = {"Arm", "Record", "StopRecord"}, !.patient = FALSE,
                !.maxCommands = 3, !.maxBlocks = 6]

MC_Settings == {Takes, LongTakes, TurnedOff, Unruly}
=============================================================================
