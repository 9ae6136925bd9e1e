--------------------------- MODULE MCEditHistory ---------------------------
(***************************************************************************)
(* Small instances of EditHistory: one loaded unit with a route to the     *)
(* output, and the routes it may get: to a second unit, audio or midi.     *)
(***************************************************************************)
EXTENDS EditHistory

MC_OneOut == [kind |-> "audio", source |-> 1, target |-> EXT]
MC_OneTwo == [kind |-> "audio", source |-> 1, target |-> 2]

MC_MidiTwo == [kind |-> "midi", source |-> EXT, target |-> 2]

MC_OneRoute == {MC_OneOut}
MC_Routes == {MC_OneOut, MC_OneTwo, MC_MidiTwo}

\* The instance is a setting of the theorems about EditHistory.
ASSUME InSetting == OneEditAtATime
=============================================================================
