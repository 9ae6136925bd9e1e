--------------------------- MODULE MCMidiDevices ---------------------------
(***************************************************************************)
(* Small instances of MidiDevices: two devices, and two kinds of workload. *)
(***************************************************************************)
EXTENDS MidiDevices

Keyboard == [dev |-> "keyboard", path |-> "hw:1,0,0", in |-> "keys", out |-> "keys out"]

Pads == [dev |-> "pads", path |-> "hw:2,0,0", in |-> "pads", out |-> "pads out"]

MC_Hardware == {Keyboard, Pads}

MC_Messages ==
  {[status |-> "NoteOn", data |-> <<1, 1>>], [status |-> "NoteOn", data |-> <<1, 0>>],
   [status |-> "ChannelPressure", data |-> <<2>>], [status |-> "SysEx", data |-> <<1>>]}

None == [toggles |-> 0, refreshes |-> 0, plugs |-> 0, connects |-> 0, sends |-> 0, keys |-> 0,
         messages |-> 0, blocks |-> 0, open |-> {}]

\* Ports are opened and closed, or notes are played on one that is open.
MC_Workloads ==
  {[None EXCEPT !.toggles = 2, !.refreshes = 1, !.blocks = 1],
   [None EXCEPT !.toggles = 1, !.connects = 1, !.blocks = 1, !.sends = 1],
   [None EXCEPT !.toggles = 2, !.plugs = 1, !.blocks = 1],
   [None EXCEPT !.messages = 2, !.blocks = 3, !.open = {Keyboard}],
   [None EXCEPT !.keys = 2, !.blocks = 2]}
=============================================================================
