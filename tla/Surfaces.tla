------------------------------- MODULE Surfaces -------------------------------
(***************************************************************************)
(* The control thread, the display and the push controller together, each  *)
(* in a thread of its own, and what should hold between them.              *)
(***************************************************************************)
EXTENDS Display, PushSurface

vars == <<plan, projectVars, controlVars, pushRuns, silent, fault, displayVars, pushVars>>
surfaceVars == <<displayVars, pushVars>>

Init == DisplayInit /\ PushInit

\* Three threads: the control thread, the display's and those of the push controller.
Next ==
  \/ CreateUnit /\ UNCHANGED surfaceVars
  \/ DeleteUnit /\ UNCHANGED surfaceVars
  \/ AddRoute("audio") /\ UNCHANGED surfaceVars
  \/ AddRoute("midi") /\ UNCHANGED surfaceVars
  \/ Replay /\ UNCHANGED surfaceVars
  \/ ChangeClips /\ UNCHANGED surfaceVars
  \/ Timeline /\ UNCHANGED surfaceVars
  \/ SetValue /\ UNCHANGED surfaceVars
  \/ LoadProject /\ UNCHANGED surfaceVars
  \/ TouchDown /\ UNCHANGED pushVars
  \/ TouchOutside /\ UNCHANGED pushVars
  \/ Move /\ UNCHANGED pushVars
  \/ Release /\ UNCHANGED pushVars
  \/ NoMoreGestures /\ UNCHANGED pushVars
  \/ RunTask /\ UNCHANGED pushVars
  \/ Timers /\ UNCHANGED pushVars
  \/ Poll /\ UNCHANGED pushVars
  \/ Plug /\ UNCHANGED displayVars
  \/ Connect /\ UNCHANGED displayVars
  \/ LoseFrame /\ UNCHANGED displayVars
  \/ PushTask /\ UNCHANGED displayVars
  \/ Press /\ UNCHANGED displayVars
  \/ Dispatch /\ UNCHANGED displayVars
  \/ Paint /\ UNCHANGED displayVars
  \/ RenderPads /\ UNCHANGED displayVars
  \/ \E pad \in Pads : (PadDown(pad) \/ PadUp(pad)) /\ UNCHANGED displayVars

Spec == Init /\ [][Next]_vars

(***************************************************************************)
(* What should hold.                                                       *)
(***************************************************************************)
Caught == fault = "none" /\ emitted = <<>> /\ tasks = <<>>

\* "only one popup must be active at the time" (MainWindow.h:102): one that opens finds none
\* open or closes the one it was opened from.  The keyboard alone may lie on top of the
\* settings, which do not close when they open it; it then answers to them and no one else.
OnePopup ==
  \/ Cardinality(gui.popups) <= 1
  \/ gui.popups = {"keyboard", "settings"} /\ gui.keyboard = "latency"

\* No gesture deletes the widget it was made on while the window still holds it for
\* TouchUp; the browser cancels its press before it deletes its labels.
TouchedStaysAlive == fault # "killed by its gesture"

\* When the display has run all tasks it shows the units of the project in their order,
\* keeps the surfaces of the units that can be brought back and no others, and unless a
\* load gave up after it had replaced the timeline, shows the marks of the loop while it
\* loops and emits the playhead only while the timeline rolls.
SurfacesFollowProject ==
  Caught =>
    /\ [i \in DOMAIN gui.shown |-> gui.shown[i].id] = units
    /\ {u.id : u \in ToSet(gui.removed)} = {a.id : a \in {b \in ToSet(done) : b.do = "delete"}}
    /\ "timeline" \notin silent =>
         gui.looped = looping /\ (gui.ticking => roll \notin {"Stop", "Pause"})

\* The route dialog that is shown lists the routes of its unit in the snapshot it has
\* read, each once, unless it was filled again while it was hidden.
RowsFollowRoutes ==
  Caught /\ "routes" \in gui.popups /\ gui.dialog.current # 0 /\ "routes" \notin silent =>
    \A tab \in Tabs, side \in Sides :
      LET rows == gui.dialog.rows[tab][side]
          ends == [i \in DOMAIN rows |-> rows[i].other]
          rs == Shown(seen[tab], gui.dialog.current, side)
          own == [i \in DOMAIN rs |-> Other(rs[i], gui.dialog.current)]
      IN IF gui.dialog.mixed THEN IsSuffix(own, ends) ELSE ends = own

\* A push controller connected all along lists the units of the project but those that
\* came back by an undo.
PushFollowsProject ==
  /\ plan.push /\ pushRuns /\ fault = "none" /\ emitted = <<>> /\ pushTasks = <<>>
  => ToSet(Listed(push.root)) = ToSet(units) \ push.root.missed

\* A frame without anything left to draw shows each unit in its row, and the buttons lit
\* are those the view answers to and perhaps the one that is never cleared.
FrameShowsView ==
  fault = "none" /\ push.thread = "running" /\ ~Dirty(push.root) =>
    LET root == push.root
    IN /\ root.view = "Grid" => \A r \in Rows \cap DOMAIN root.list : root.image[r] = root.list[r].id
       /\ root.lit \ {"DisplayTop5"} = (Own[root.view] \cup DOMAIN Views) \ {"DisplayTop5"}

\* No pad stays lit when none is held, and no note sounds on if the scale stayed what it
\* was while one was.
NotesEnd == pads.held = {} => pads.pressed = {} /\ (~pads.shifted => pads.sounding = {})

\* The button of the view that is shown leads nowhere only if it is the first one pressed.
ViewAfterFirst == [][push.root.switched => push'.root.view # "none"]_vars
===============================================================================
