------------------------------ MODULE MCSurfaces ------------------------------
(***************************************************************************)
(* Workloads of Surfaces: in each the user has a few presses of the        *)
(* gestures that work on one part of the display, or on the push           *)
(* controller.                                                             *)
(***************************************************************************)
EXTENDS Surfaces

Taps(ws) == {<<w, "Tap">> : w \in ws}

Hands0 ==
  [units |-> <<1>>, routes |-> NoRoutes, view |-> "Grid", presses |-> 0, gestures |-> {}, ticks |-> 0,
   push |-> FALSE, plugs |-> 0, losses |-> 0, buttons |-> 0, keys |-> {}, strokes |-> 0]

Undoing ==
  [Hands0 EXCEPT !.presses = 6, !.push = TRUE,
                 !.gestures = Taps({"add", "track", "delete", "undo", "redo"}) \cup {<<"name", "DoubleTap">>}]

Routing ==
  [Hands0 EXCEPT !.presses = 6, !.units = <<1, 2>>,
                 !.routes = [audio |-> <<[from |-> 1, to |-> 2]>>, midi |-> <<[from |-> 2, to |-> 1]>>],
                 !.gestures = Taps({"delete", "routes", "kind", "plus", "current", "item", "midiTab"}) \cup {<<"name", "DoubleTap">>}]

Browsing ==
  [Hands0 EXCEPT !.presses = 4, !.view = "Browser",
                 !.gestures = Taps({"folder", "folder2", "wav", "refresh", "dirUp", "toUnit", "toBrowser", "control"})
                   \cup {<<"json", "Drag">>, <<"wav", "Drag">>}]

Clipping ==
  [Hands0 EXCEPT !.presses = 6, !.view = "Browser",
                 !.gestures = Taps({"toBrowser", "unclip"})
                   \cup {<<"wav", "Drag">>, <<"json", "Drag">>, <<"clip", "DoubleTap">>, <<"clip", "Hold">>}]

Writing ==
  [Hands0 EXCEPT !.presses = 5,
                 !.gestures = Taps({"volume", "mute", "enter", "delete", "project", "bpm", "signature", "save"})
                   \cup {<<"name", "Hold">>, <<"name", "DoubleTap">>}]

Rolling ==
  [Hands0 EXCEPT !.presses = 4, !.ticks = 1,
                 !.gestures = Taps({"play", "stop", "record", "loop", "loopStart", "loopEnd", "enter", "metronome", "undo"})
                   \cup {<<"handle", "Drag">>}]

Reloading ==
  [Hands0 EXCEPT !.presses = 4, !.push = TRUE,
                 !.gestures = Taps({"delete", "toBrowser", "undo"})
                   \cup {<<"name", "DoubleTap">>, <<"json", "Drag">>}]

Replacing ==
  [Hands0 EXCEPT !.presses = 4,
                 !.gestures = Taps({"toBrowser", "toUnit", "unit", "enter"})
                   \cup {<<"json", "Drag">>, <<"name", "Hold">>}]

Paneling ==
  [Hands0 EXCEPT !.presses = 5,
                 !.gestures = Taps({"setup", "setting", "audioSettings", "latency", "enter", "keys", "white", "toUnit", "toGrid", "control", "add",
                                    "audioTab", "midiTab", "routes", "unit"})
                   \cup {<<"name", "DoubleTap">>, <<"unit", "Drag">>, <<"unitView", "Drag">>}]

Rerouting ==
  [Hands0 EXCEPT !.presses = 7,
                 !.gestures = Taps({"delete", "routes", "plus", "undo"}) \cup {<<"name", "DoubleTap">>}]

Pushing ==
  [Hands0 EXCEPT !.plugs = 2, !.losses = 1, !.buttons = 3, !.strokes = 1,
                 !.keys = DOMAIN Views]

Playing ==
  [Hands0 EXCEPT !.push = TRUE, !.buttons = 4, !.strokes = 2, !.keys = {"Scale", "Chromatic", "Up", "Down"}]

MCWorkloads == {Undoing, Routing, Browsing, Clipping, Writing, Rolling, Reloading, Replacing, Paneling, Rerouting, Pushing, Playing}
MCSavedUnits == <<1, 2>>
MCScales == <<<<1, 3, 5, 6, 8, 10, 12>>, <<1, 3, 5, 8, 10>>>>
MCPads == {41, 44}
===============================================================================
