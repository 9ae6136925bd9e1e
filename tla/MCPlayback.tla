----------------------------- MODULE MCPlayback -----------------------------
(***************************************************************************)
(* Small instances of Playback: a block of two frames, two clips of which  *)
(* one begins and ends inside a block, and workloads that press one group  *)
(* of controls each.                                                       *)
(***************************************************************************)
EXTENDS Playback

MC_Clips == {[start |-> 1, length |-> 3], [start |-> 4, length |-> 2]}

MC_Sizes == {[numerator |-> 2, denominator |-> 4], [numerator |-> 3, denominator |-> 8]}

None == [rolls |-> 0, toggles |-> 0, moves |-> 0, tempi |-> 0, clicks |-> 0, heads |-> 0, undos |-> 0,
         inFlight |-> 1, blocks |-> 6, isLoop |-> FALSE, loop |-> <<0, 4>>, starts |-> {}, ends |-> {}, tempos |-> {6}]

\* Loops around zero are switched and moved, a loop further on is played, and tempo,
\* metronome, undo and redo come together.
MC_Workloads ==
  {[None EXCEPT !.rolls = 2, !.toggles = 3],
   [None EXCEPT !.rolls = 1, !.toggles = 2, !.moves = 1, !.ends = {1, 7}],
   [None EXCEPT !.rolls = 3, !.heads = 1, !.inFlight = 2, !.isLoop = TRUE, !.loop = <<1, 4>>],
   [None EXCEPT !.rolls = 1, !.tempi = 1, !.clicks = 2, !.isLoop = TRUE],
   [None EXCEPT !.tempi = 1, !.moves = 1, !.starts = {3, 5}, !.undos = 2, !.inFlight = 2, !.blocks = 2]}

\* The instances are settings of the theorems about Playback.
ASSUME InSetting == LoopsKeepTheirStart /\ TempoChangesAlone /\ ClipsFillABlock /\ BeatsOutlastBlocks
=============================================================================
