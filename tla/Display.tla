------------------------------- MODULE Display -------------------------------
(***************************************************************************)
(* The display: a loop that handles the gestures that have arrived, runs   *)
(* every task the control thread has posted, lets the timers fire and      *)
(* polls the view that is shown.  Widgets refer to each other by plain     *)
(* pointers; here by number, and a number of nothing there is is a         *)
(* dangling pointer.  One finger presses one widget at a time.             *)
(***************************************************************************)
EXTENDS RouteDialog

VARIABLES
  gui,    \* MainWindow and what it owns
  press,  \* the finger, _initialGestureTarget and _gestureTarget
  phase   \* where the loop is

displayVars == <<gui, press, phase>>

\* A unit's surface in the grid: n tells objects apart, 0 is the null pointer.
NewUnitUI(n, id) == [n |-> n, id |-> id, files |-> {}, version |-> 0]

\* A widget by its type and by the number of the object it belongs to.
W(type, n) == [w |-> type, n |-> n, clip |-> 0, tab |-> "audio", side |-> "in"]
Nothing == W("nothing", 0)
NoPress == [kind |-> "none", first |-> Nothing, target |-> Nothing, row |-> 0]

UnitWidgets == {"unit", "name", "volume", "mute"}
LineWidgets == {"kind", "pick", "plus", "row"}
FolderLabels == {"folder", "folder2"}
Labels == FolderLabels \cup {"wav", "json"}

\* The widgets of the popups, the views and the panels around them.
Contents ==
  [unitControl |-> {"delete", "routes"},
   routes |-> LineWidgets \cup {"current", "item", "audioTab", "midiTab"},
   keyboard |-> {"enter"},
   file |-> {"unclip"},
   newUnit |-> {"track"},
   settings |-> {"setting", "audioSettings", "latency"},
   midiKeyboard |-> {"white"},
   dragSelector |-> {"selector"},
   Grid |-> UnitWidgets \cup {"clip", "handle", "grid", "control"},
   Unit |-> {"unitView"},
   Browser |-> Labels \cup {"refresh", "dirUp"},
   topPanel |-> {"toGrid", "toUnit", "toBrowser", "project", "setup", "metronome", "keys", "undo", "redo", "save"},
   bottomPanel |-> {"play", "stop", "record", "loop", "bpm", "signature", "loopStart", "loopEnd", "add"}]

\* The order in which a touch looks for an active popup.
PopupOrder ==
  <<"unitControl", "routes", "keyboard", "file", "newUnit", "settings", "midiKeyboard", "dragSelector">>

DisplayInit ==
  /\ PostsInit
  /\ gui = [shown |-> [i \in DOMAIN units |-> NewUnitUI(i, units[i])], removed |-> <<>>, made |-> Len(units),
            view |-> plan.view, popups |-> {}, selected |-> 0, open |-> 0,
            popupUnit |-> 0, keyboard |-> "none", owner |-> 0, item |-> Nothing,
            dragging |-> "no", zone |-> "none", labels |-> 1,
            handles |-> 1, looped |-> FALSE, ticking |-> FALSE, audioShown |-> FALSE, dialog |-> Closed]
  /\ press = NoPress
  /\ phase = "events"

UIs(g) == ToSet(g.shown) \cup ToSet(g.removed)
Alive(g, n) == \E u \in UIs(g) : u.n = n
UI(g, n) == CHOOSE u \in UIs(g) : u.n = n

\* Whether the object a pointer to a widget refers to is still there.
Lives(g, x) ==
  CASE x.w \in UnitWidgets -> Alive(g, x.n)
    [] x.w = "clip" -> Alive(g, x.n) /\ x.clip \in UI(g, x.n).files
    [] x.w = "handle" -> x.n = g.handles
    [] x.w \in Labels -> x.n = g.labels
    [] x.w = "row" -> RowLives(g.dialog, x.tab, x.n)
    [] x.w \in LineWidgets -> NextLives(g.dialog, x.tab, x.n)
    [] OTHER -> TRUE

ActivePopups(g) == SelectSeq(PopupOrder, LAMBDA p : p \in g.popups)

\* What a touch finds: the first active popup alone, else the view that is shown and
\* the panels; of the widgets, those that are there and not hidden.
Touchable(g, x) ==
  /\ IF ActivePopups(g) # <<>> THEN x.w \in Contents[Head(ActivePopups(g))]
     ELSE x.w \in Contents[g.view] \cup Contents.topPanel \cup Contents.bottomPanel
  /\ Lives(g, x)
  /\ x.w \in UnitWidgets \cup {"clip"} => \E u \in ToSet(g.shown) : u.n = x.n
  /\ x.w = "handle" => g.looped
  /\ x.w = "latency" => g.audioShown
  /\ x.w \in LineWidgets => x.tab = g.dialog.tab
  /\ x.w = "item" => g.dialog.open /\ x.n \in g.dialog.names

\* Every widget of the types a behaviour touches that could be there.
Widgets(g, types) ==
  {W(t, u.n) : t \in types \cap UnitWidgets, u \in UIs(g)}
    \cup {[W("clip", u.n) EXCEPT !.clip = c] : u \in UIs(g), c \in IF "clip" \in types THEN UNION {v.files : v \in UIs(g)} ELSE {}}
    \cup {W(t, g.handles) : t \in types \cap {"handle"}}
    \cup {W(t, g.labels) : t \in types \cap Labels}
    \cup {[W(t, l) EXCEPT !.tab = tab, !.side = side] :
            t \in types \cap LineWidgets, l \in 1..g.dialog.gen, tab \in Tabs, side \in Sides}
    \cup {W("item", id) : id \in IF "item" \in types THEN g.dialog.names ELSE {}}
    \cup {W(t, 0) : t \in types \ (UnitWidgets \cup {"clip", "handle", "item"} \cup Labels \cup LineWidgets)}

(***************************************************************************)
(* What a widget does with a gesture: the display afterwards, what it      *)
(* emits and what the process died of.  read: what was read anew of the    *)
(* snapshot.  cancelled: the press is over for the window.                 *)
(***************************************************************************)
R(g) == [gui |-> g, acts |-> <<>>, why |-> "none", read |-> {}, cancelled |-> FALSE]
Say(g, a) == [R(g) EXCEPT !.acts = <<a>>]
Die(why) == [R(gui) EXCEPT !.why = why]

OpenPopup(g, p) == [g EXCEPT !.popups = @ \cup {p}]

\* deactivate and hide: only the route dialog has something to close.
ClosePopup(g, p) ==
  [g EXCEPT !.popups = @ \ {p}, !.dialog = IF p = "routes" THEN ForcedClose(@) ELSE @]

\* RouteManager::update.
ShowRoutes(g, d) ==
  IF UpdateDies(d) THEN Die("no such unit")
  ELSE [R([g EXCEPT !.dialog = UpdateRows(d)]) EXCEPT !.read = IF d.current = 0 THEN {} ELSE {"routes"}]

\* The dialog is filled before it is shown; what a hidden update left is not cleared.
EnableRoutes(g, id) ==
  ShowRoutes(OpenPopup(g, "routes"), [g.dialog EXCEPT !.current = id, !.mixed = g.dialog.next # Lines(NoLine)])

\* Mutant: the lines that were there are not deleted.
MutLiveUpdate(g) == ShowRoutes(g, [g.dialog EXCEPT !.mixed = FALSE])

\* A task or the choice of a unit: every line is made anew, shown or not.
LiveUpdate(g) == ShowRoutes(g, [ForcedClose(g.dialog) EXCEPT !.mixed = FALSE])

\* The unit view shows the unit selected last, if there is one.
UpdateUnitView(g) ==
  IF g.selected # 0 /\ ~Alive(g, g.selected) THEN Die("dead selection")
  ELSE R([g EXCEPT !.open = g.selected])

SwitchToView(g, view) ==
  LET to == [g EXCEPT !.view = view]
  IN IF view = "Unit" THEN UpdateUnitView(to) ELSE R(to)

EditText(g, what, n) == R([OpenPopup(g, "keyboard") EXCEPT !.keyboard = what, !.owner = n])

\* The fields of the bottom panel refuse a text they cannot read and set the value to
\* its bounds when it is beyond them; a number that is no number throws.
TimelineAnswers(g, closed) == {R(closed), Say(closed, Act(g.keyboard)), Die("not a number")}

\* The enter key runs the callback of whoever opened the keyboard and closes it.  The
\* latency takes digits only, of which none or too many throw.
EnterText(g) ==
  LET closed == ClosePopup(g, "keyboard")
  IN IF g.owner # 0 /\ ~Alive(g, g.owner) THEN {Die("dead keyboard owner")}
     ELSE CASE g.keyboard = "name" -> {Say(closed, On("value", UI(g, g.owner).id))}
            [] g.keyboard = "volume" -> {Say(closed, On("value", UI(g, g.owner).id)), Die("not a number")}
            [] g.keyboard = "project" -> {R(closed)}
            [] g.keyboard = "latency" -> {R(closed), Die("not a number")}
            [] OTHER -> TimelineAnswers(g, closed)

\* UnitControlPopup: its unit may have been deleted since it was opened.
PressDelete(g) ==
  IF ~Alive(g, g.popupUnit) THEN Die("dead popup unit")
  ELSE Say([ClosePopup(g, "unitControl") EXCEPT !.selected = 0], On("delete", UI(g, g.popupUnit).id))

\* Mutant: the popup stays when its button for routes is pressed.
MutPressRoutes(g) ==
  IF ~Alive(g, g.popupUnit) THEN Die("dead popup unit") ELSE EnableRoutes(g, UI(g, g.popupUnit).id)

PressRoutes(g) ==
  IF ~Alive(g, g.popupUnit) THEN Die("dead popup unit")
  ELSE EnableRoutes(ClosePopup(g, "unitControl"), UI(g, g.popupUnit).id)

\* FilePopup: so may its clip.
PressRemove(g) ==
  IF ~Lives(g, g.item) THEN Die("dead clip")
  ELSE Say(ClosePopup(g, "file"), [On("unclip", UI(g, g.item.n).id) EXCEPT !.clip = g.item.clip])

\* The browser makes new labels for the directory it shows.
Parse(g) == [g EXCEPT !.labels = @ + 1]

\* Mute and volume are the unit's own; a tap anywhere else on it selects the unit in
\* the row that was touched, or none when the rows have moved up.
TapUnit(g, x, row) ==
  CASE x.w = "mute" -> Say(g, On("value", UI(g, x.n).id))
    [] x.w = "volume" -> EditText(g, "volume", x.n)
    [] OTHER -> R([g EXCEPT !.selected = IF row \in DOMAIN g.shown THEN g.shown[row].n ELSE 0])

TapDialog(g, x) ==
  LET d == g.dialog
      Now(e) == R([g EXCEPT !.dialog = e])
  IN CASE x.w = "current" -> {Now([d EXCEPT !.open = ~@])}
       [] x.w = "item" -> {IF x.n \in ToSet(units)
                           THEN LiveUpdate([g EXCEPT !.dialog = [NowCurrent(@, x.n) EXCEPT !.open = FALSE]])
                           ELSE Now([d EXCEPT !.open = FALSE])}
       [] x.w = "audioTab" -> {Now([d EXCEPT !.tab = "audio"])}
       [] x.w = "midiTab" -> {Now([d EXCEPT !.tab = "midi"])}
       [] x.w = "kind" -> {Now(ToggleKind(d, x.tab, x.side))}
       [] x.w = "pick" -> {Now(PickOther(d, x.tab, x.side, id)) : id \in d.next[x.tab][x.side].list}
       [] x.w = "plus" -> {[R(g) EXCEPT !.acts = IF x.tab = "audio" THEN NewAudioRoute(d, x.side) ELSE NewMidiRoute(d, x.side)]}
       [] OTHER -> {R(g)}

\* Mutant: a folder is opened without cancelling the press.
MutTapBrowser(g, x, at) ==
  IF x.w \in {"refresh", "dirUp"} \/ at.w \in FolderLabels THEN R(Parse(g)) ELSE R(g)

\* A tap on a folder opens it: the labels are deleted, and the press is cancelled
\* when the label under the finger is the one that was touched first.
TapBrowser(g, x, at) ==
  CASE x.w \in {"refresh", "dirUp"} -> R(Parse(g))
    [] at.w \in FolderLabels -> [R(Parse(g)) EXCEPT !.cancelled = at = x]
    [] OTHER -> R(g)

\* The field of the project's name opens the keyboard without an owner to answer to.
TapTopPanel(g, x) ==
  CASE x.w = "toGrid" -> SwitchToView(g, "Grid")
    [] x.w = "toUnit" -> SwitchToView(g, "Unit")
    [] x.w = "toBrowser" -> SwitchToView(g, "Browser")
    [] x.w = "project" -> EditText(g, "project", 0)
    [] x.w = "setup" -> R(OpenPopup(g, "settings"))
    [] x.w = "keys" -> R(OpenPopup(g, "midiKeyboard"))
    [] OTHER -> Say(g, Act(x.w))

\* What play, record and loop switch to is decided by what the view of the timeline says.
TapBottomPanel(g, x) ==
  CASE x.w = "play" -> Say(g, [Act("roll") EXCEPT !.to = IF roll = "Play" THEN "Pause" ELSE "Play"])
    [] x.w = "stop" -> Say(g, Act("roll"))
    [] x.w = "record" -> Say(g, [Act("roll") EXCEPT !.to = "Record"])
    [] x.w = "loop" -> Say(g, [Act("loop") EXCEPT !.to = IF looping THEN "off" ELSE "on"])
    [] x.w \in {"bpm", "signature"} -> EditText(g, "tempo", 0)
    [] x.w \in {"loopStart", "loopEnd"} -> EditText(g, "looppos", 0)
    [] x.w = "add" -> R(OpenPopup(g, "newUnit"))

\* NewUnitPopup: it stays open for more.
PressTrack(g) == Say(g, Act("create"))

\* A tab of the settings takes the place of the one that was shown.
SwitchTab(g, audio) == R([g EXCEPT !.audioShown = audio])

\* The latency opens the keyboard and leaves the settings as they are.  What else there
\* is shows another tab or changes nothing that is told here.
TapSettings(g, x) ==
  CASE x.w = "audioSettings" -> {SwitchTab(g, TRUE)}
    [] x.w = "latency" -> {EditText(g, "latency", 0)}
    [] OTHER -> {R(g), SwitchTab(g, FALSE)}

TapPopup(g, x) ==
  CASE x.w = "delete" -> {PressDelete(g)}
    [] x.w = "routes" -> {PressRoutes(g)}
    [] x.w = "enter" -> EnterText(g)
    [] x.w = "unclip" -> {PressRemove(g)}
    [] x.w = "track" -> {PressTrack(g)}
    [] x.w \in Contents.settings -> TapSettings(g, x)
    [] OTHER -> {R(g)}

Tapped(g, x, row, at) ==
  CASE x.w \in UnitWidgets \cup {"control"} -> {TapUnit(g, x, row)}
    [] x.w \in Contents.Browser -> {TapBrowser(g, x, at)}
    [] x.w \in Contents.topPanel -> {TapTopPanel(g, x)}
    [] x.w \in Contents.bottomPanel -> {TapBottomPanel(g, x)}
    [] x.w \in Contents.routes -> TapDialog(g, x)
    [] OTHER -> TapPopup(g, x)

\* Double taps open the popups of units and of clips.
DoubleTapped(g, x) ==
  CASE x.w \in UnitWidgets -> {R([OpenPopup(g, "unitControl") EXCEPT !.popupUnit = x.n])}
    [] x.w = "clip" -> {R([OpenPopup(g, "file") EXCEPT !.item = x])}
    [] OTHER -> {R(g)}

\* A name is edited at each event of its hold; a clip that was held goes to its new place.
Held(g, x, ends) ==
  CASE x.w = "name" -> {EditText(g, "name", x.n)}
    [] x.w = "clip" /\ ends -> {Say(g, On("value", UI(g, x.n).id))}
    [] OTHER -> {R(g)}

NotDragging(g) == [g EXCEPT !.dragging = "no"]

\* A file that is dropped over the grid: a project is loaded, anything else becomes a
\* clip of the unit there.
DropOnGrid(g) ==
  LET over == NotDragging(g)
  IN IF g.dragging = "json" THEN {Say(over, Act("load"))}
     ELSE {R(over)} \cup {Say(over, On("clip", u.id)) : u \in {v \in ToSet(g.shown) : g.dragging = "wav"}}

\* The unit view hands the drag to the unit it shows, which may take it as its sound.
DropOnUnit(g) ==
  LET over == NotDragging(g)
  IN IF g.open = 0 THEN {R(over)}
     ELSE IF ~Alive(g, g.open) THEN {Die("dead unit shown")}
     ELSE {R(over), Say(over, On("value", UI(g, g.open).id))}

\* Only the end of the drag of a loop handle is told to the control thread.
DropHandle(g) == {Say(g, Act("looppos"))}

\* The selector of views forgets what is dropped on it and stays open.
Dropped(g, x) ==
  CASE x.w = "handle" -> DropHandle(g)
    [] x.w \in {"grid", "clip"} \cup UnitWidgets -> DropOnGrid(g)
    [] x.w = "unitView" -> DropOnUnit(g)
    [] x.w = "selector" -> {R(NotDragging(g))}
    [] OTHER -> {R(g)}

(***************************************************************************)
(* Gestures.                                                               *)
(***************************************************************************)
Hands == fault = "none" /\ phase = "events"

Row(g, x) ==
  LET at == {i \in DOMAIN g.shown : x.w \in UnitWidgets /\ g.shown[i].n = x.n}
  IN IF at = {} THEN 0 ELSE CHOOSE i \in at : TRUE

\* The list of names is filled when its button is touched.
Touched(g, x) == IF x.w = "current" THEN [g EXCEPT !.dialog = ListNames(@)] ELSE g

\* The result r of a gesture after which the press is p.
Becomes(r, p) ==
  /\ gui' = r.gui
  /\ emitted' = emitted \o r.acts
  /\ fault' = r.why
  /\ silent' = silent \ r.read
  /\ press' = IF r.cancelled THEN NoPress ELSE p

HandsKeep == <<projectVars, done, undone, tasks, pushTasks, pushRuns, phase>>

\* A file that is dragged goes to the selector of views, which opens.
DragLabel(g, x) ==
  [OpenPopup(g, "dragSelector") EXCEPT !.dragging = IF x.w \in {"json", "wav"} THEN x.w ELSE "wav"]

\* TouchDown, and with it the start of a hold or a drag.
TouchDown ==
  /\ Hands
  /\ press = NoPress
  /\ plan.presses > 0
  /\ \E c \in plan.gestures : \E x \in Widgets(gui, {c[1]}) :
       LET g == Touched(gui, x)
           p == [kind |-> c[2], first |-> x, target |-> x, row |-> Row(gui, x)]
       IN /\ Touchable(gui, x)
          /\ \/ /\ c[2] = "Hold"
                /\ \E r \in Held(g, x, FALSE) : Becomes(r, p)
             \/ /\ c[2] = "Drag" /\ x.w \in Labels
                /\ Becomes(R(DragLabel(g, x)), [p EXCEPT !.target = W("selector", 0)])
             \/ /\ c[2] \in {"Tap", "DoubleTap"} \/ (c[2] = "Drag" /\ x.w \notin Labels)
                /\ Becomes(R(g), p)
  /\ plan' = [plan EXCEPT !.presses = @ - 1]
  /\ UNCHANGED HandsKeep

\* A touch outside the popup closes it.
TouchOutside ==
  /\ Hands
  /\ press = NoPress
  /\ plan.presses > 0
  /\ ActivePopups(gui) # <<>>
  /\ gui' = ClosePopup(gui, Head(ActivePopups(gui)))
  /\ plan' = [plan EXCEPT !.presses = @ - 1]
  /\ UNCHANGED <<HandsKeep, press, emitted, fault, silent>>

\* A drag over the selector picks a zone and starts its timer anew; a move of any
\* other drag changes nothing but positions.
Move ==
  /\ Hands
  /\ press.kind \in {"Hold", "Drag"}
  /\ LET x == press.target
         shown == x.w = "unitView" /\ gui.open # 0
     IN \/ /\ ~Lives(gui, x)
           /\ Becomes(Die("dead widget"), press)
        \/ /\ shown /\ ~Alive(gui, gui.open)
           /\ Becomes(Die("dead unit shown"), press)
        \/ /\ press.kind = "Hold" /\ x.w = "name" /\ Lives(gui, x)
           /\ Becomes(EditText(gui, "name", x.n), press)
        \/ /\ x.w = "selector" /\ gui.dragging # "no"
           /\ \E zone \in {"grid", "unit", "off"} : Becomes(R([gui EXCEPT !.zone = zone]), press)
  /\ UNCHANGED <<HandsKeep, plan>>

\* The last gesture of a press goes to its target, TouchUp to the widget touched
\* first, unless the press was cancelled.  A finger may have slid to another label.
Release ==
  /\ Hands
  /\ press # NoPress
  /\ LET x == press.target
         After(at) == CASE press.kind = "Tap" -> Tapped(gui, x, press.row, at)
                        [] press.kind = "DoubleTap" -> DoubleTapped(gui, x)
                        [] press.kind = "Hold" -> Held(gui, x, TRUE)
                        [] press.kind = "Drag" -> Dropped(gui, x)
         Up(r, at) == IF r.why # "none" \/ r.cancelled \/ Lives(r.gui, press.first) THEN r
                      ELSE [r EXCEPT !.why = IF at = press.first THEN "killed by its gesture" ELSE "dead label"]
     IN IF ~Lives(gui, x) THEN Becomes(Die("dead widget"), press)
        ELSE \E at \in {x} \cup {y \in Widgets(gui, Labels) : x.w \in Labels} :
               \E r \in After(at) : Becomes(Up(r, at), NoPress)
  /\ UNCHANGED <<HandsKeep, plan>>

(***************************************************************************)
(* The rest of the loop.                                                   *)
(***************************************************************************)
LoopKeeps == <<projectVars, done, undone, pushTasks, pushRuns>>

NoMoreGestures ==
  /\ fault = "none" /\ phase = "events"
  /\ phase' = "tasks"
  /\ UNCHANGED <<LoopKeeps, plan, emitted, tasks, silent, fault, gui, press>>

\* MainWindow::createUI, removeUI, restoreUI, deleteUI and clearUI, each by ID.  A
\* unit that is not found is only logged; removed units survive clearUI.
OfUnits(g, t) ==
  LET among(us) == {i \in DOMAIN us : us[i].id = t.id}
      first(us) == CHOOSE i \in among(us) : \A j \in among(us) : i <= j
      at == first(g.shown)
      gone == first(g.removed)
  IN CASE t.do = "add" -> [g EXCEPT !.made = @ + 1, !.shown = Append(@, NewUnitUI(g.made + 1, t.id))]
       [] t.do = "remove" /\ among(g.shown) # {} ->
            [g EXCEPT !.shown = RemoveAt(@, at), !.removed = Append(@, g.shown[at]), !.selected = 0]
       [] t.do = "restore" /\ among(g.removed) # {} ->
            [g EXCEPT !.removed = RemoveAt(@, gone), !.shown = Append(@, g.removed[gone]), !.selected = 0]
       [] t.do = "delete" /\ among(g.removed) # {} -> [g EXCEPT !.removed = RemoveAt(@, gone)]
       [] t.do = "clear" -> [g EXCEPT !.shown = <<>>]
       [] OTHER -> g

\* The loop's marks are made anew, as they lie in the view, and shown while it loops.
NewHandles(g) == [g EXCEPT !.handles = @ + 1, !.looped = looping]

\* Mutant: a pause does not stop the timer.
MutOfTimeline(g) ==
  [NewHandles(g) EXCEPT !.ticking = IF roll \in {"Preparing", "Pause"} THEN @ ELSE roll = "Play"]

\* MainWindow::updateTimeline: the timer of the playhead is as it was while the units prepare.
OfTimeline(g) == [NewHandles(g) EXCEPT !.ticking = IF roll = "Preparing" THEN @ ELSE roll = "Play"]

RunTask ==
  /\ fault = "none" /\ phase = "tasks"
  /\ tasks # <<>>
  /\ tasks' = Tail(tasks)
  /\ LET t == Head(tasks)
         r == CASE TypeOfUnitTask(t) -> R(OfUnits(gui, t))
                [] t.do = "routes" -> LiveUpdate(gui)
                [] t.do \in {"timeline", "tempo"} -> [R(OfTimeline(gui)) EXCEPT !.read = {"timeline"}]
                [] OTHER -> R(gui)
     IN Becomes(r, press)
  /\ UNCHANGED <<LoopKeeps, plan, phase>>

\* The timer of the selector hands the drag, or whatever the finger presses by now, to
\* the grid or to the unit view.
SelectorTimer ==
  /\ gui.zone # "none"
  /\ LET closed == [gui EXCEPT !.zone = "none", !.popups = @ \ {"dragSelector"}]
         To(view, x) == Becomes(SwitchToView(closed, view),
                                IF press = NoPress THEN NoPress ELSE [press EXCEPT !.target = x])
     IN CASE gui.zone = "grid" -> To("Grid", W("grid", 0))
          [] gui.zone = "unit" -> To("Unit", W("unitView", 0))
          [] gui.zone = "off" -> Becomes(R(closed), press)
  /\ UNCHANGED plan

PlayheadTimer ==
  /\ gui.ticking
  /\ plan.ticks > 0
  /\ plan' = [plan EXCEPT !.ticks = @ - 1]
  /\ Becomes(Say(gui, Act("playhead")), press)

\* A pass of lv_timer_handler, in which either timer or none is due.
Timers ==
  /\ fault = "none" /\ phase = "tasks" /\ tasks = <<>>
  /\ phase' = "poll"
  /\ SelectorTimer \/ PlayheadTimer \/ (Becomes(R(gui), press) /\ UNCHANGED plan)
  /\ UNCHANGED <<LoopKeeps, tasks>>

\* DefaultGridUI::pollFileUpdate: with more clips than before those that are new get a
\* FileView; a FileView whose clip is gone is erased from the vector that owns it and
\* then deleted again; with as many as before nothing is compared.
Changed(u) == clips[u.id].unit = u.n /\ clips[u.id].version # u.version

PollFiles(u) ==
  LET c == clips[u.id]
  IN IF ~Changed(u) THEN u
     ELSE [u EXCEPT !.version = c.version,
                    !.files = IF Cardinality(c.items) > Cardinality(@) THEN @ \cup c.items ELSE @]

LosesAFile(u) == Changed(u) /\ Cardinality(clips[u.id].items) < Cardinality(u.files)

Poll ==
  /\ fault = "none" /\ phase = "poll"
  /\ phase' = "events"
  /\ LET All(us) == [i \in DOMAIN us |-> PollFiles(us[i])]
         r == CASE gui.view = "Grid" ->
                     IF \E u \in UIs(gui) : LosesAFile(u) THEN Die("double delete")
                     ELSE R([gui EXCEPT !.shown = All(@), !.removed = All(@)])
                [] gui.view = "Unit" ->
                     IF gui.open # 0 /\ ~Alive(gui, gui.open) THEN Die("dead unit shown") ELSE R(gui)
                [] OTHER -> R(gui)
     IN Becomes(r, press)
  /\ UNCHANGED <<LoopKeeps, plan, tasks>>

DisplayNext ==
  TouchDown \/ TouchOutside \/ Move \/ Release \/ NoMoreGestures \/ RunTask \/ Timers \/ Poll
=============================================================================
