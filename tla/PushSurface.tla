----------------------------- MODULE PushSurface -----------------------------
(***************************************************************************)
(* The push controller: a thread that starts when one is plugged in, runs  *)
(* the tasks about units, handles buttons, then encoders, and sends a      *)
(* frame.  Its pads are handled where they are read, in the thread of its  *)
(* midi port, with the scale as the push thread has set it by then.        *)
(***************************************************************************)
EXTENDS UnitPosts

CONSTANTS
  Scales,  \* the scales, each a sequence of the notes 1..12 in it
  Pads     \* the pads that are played, of 36..99

VARIABLES
  push,  \* the thread and RootWidget with its views
  pads   \* what is held and what sounds

pushVars == <<push, pads>>

Views == [User |-> "Grid", Device |-> "Unit", Browse |-> "Browser", Scale |-> "Scales", Layout |-> "Scales"]

Rows == {1, 2}  \* those of the grid that fit on the display

Own == [Grid |-> {"Up", "Down", "Left", "Right", "New"}, Unit |-> {"Left", "Right"}, Browser |-> {},
        Scales |-> {"Up", "Down", "Chromatic", "DisplayTop5"}]

\* The lights of a view are its buttons' and those of the views; of the buttons that
\* are cleared before, one is forgotten.
Lit(lit, view) == (lit \ {"Up", "Down", "Left", "Right", "New", "Chromatic"}) \cup Own[view] \cup DOMAIN Views

\* A new RootWidget shows the grid and has no view before it (widgetFromView: none).
\* list: its units, by ID, with the row each was drawn in last; image: what the rows of
\* the display show, and stale that nothing of the view has been drawn yet.
NewRoot ==
  [list |-> <<>>, missed |-> {}, view |-> "Grid", prev |-> "none", switched |-> FALSE, lit |-> Lit({}, "Grid"),
   image |-> [r \in Rows |-> 0], stale |-> TRUE, chromatic |-> TRUE, scale |-> 1, update |-> TRUE]

\* Units in new rows: each is to be drawn, and where it was is to be cleared.
Entry(id, last) == [id |-> id, last |-> last, dirty |-> TRUE]
Listed(root) == [i \in DOMAIN root.list |-> root.list[i].id]

PushInit ==
  /\ push = [thread |-> IF pushRuns THEN "running" ELSE "none",
             root |-> [NewRoot EXCEPT !.list = IF pushRuns THEN [i \in DOMAIN units |-> Entry(units[i], i)] ELSE <<>>],
             buttons |-> <<>>, encoders |-> <<>>]
  /\ pads = [held |-> {}, pressed |-> {}, sounding |-> {}, shifted |-> FALSE]

Living == fault = "none" /\ push.thread = "running"

PushKeeps == <<projectVars, emitted, done, undone, tasks, silent>>

\* PushThread::start, for every controller that is found.  A thread that could not
\* connect has ended and is joinable: a thread assigned to it ends the process.
Plug ==
  /\ fault = "none"
  /\ plan.plugs > 0
  /\ plan' = [plan EXCEPT !.plugs = @ - 1]
  /\ push' = [push EXCEPT !.thread = IF @ = "none" THEN "connecting" ELSE @]
  /\ fault' = IF push.thread \in {"connecting", "ended"} THEN "thread not joined" ELSE fault
  /\ UNCHANGED <<PushKeeps, pushTasks, pushRuns, pads>>

Connect ==
  /\ fault = "none" /\ push.thread = "connecting"
  /\ \/ /\ push' = [push EXCEPT !.thread = "running", !.root = NewRoot]
        /\ pushRuns' = TRUE
     \/ /\ push' = [push EXCEPT !.thread = "ended"]
        /\ UNCHANGED pushRuns
  /\ UNCHANGED <<PushKeeps, plan, pushTasks, pads, fault>>

\* A frame that cannot be sent disconnects the controller for good: nothing is posted
\* to it any more.
LoseFrame ==
  /\ Living /\ pushRuns
  /\ plan.losses > 0
  /\ plan' = [plan EXCEPT !.losses = @ - 1]
  /\ pushRuns' = FALSE
  /\ UNCHANGED <<PushKeeps, pushTasks, fault, pushVars>>

(***************************************************************************)
(* Tasks.  A unit that is removed moves to a list of its own and is looked *)
(* for in the list of those that are shown ever after: to restore one that *)
(* is found there leaves a null pointer, to delete it erases from the      *)
(* wrong vector.  missed, a history: the units that were not found when    *)
(* they came back.                                                         *)
(***************************************************************************)
\* Mutant: the units below do not move up.
MutWithout(list, id) == SelectSeq(list, LAMBDA u : u.id # id)

\* Those that stay are laid out anew, each where it was or one row up.
Without(list, id) ==
  LET at == CHOOSE i \in DOMAIN list : list[i].id = id
  IN [j \in 1..(Len(list) - 1) |-> IF j < at THEN Entry(list[j].id, j) ELSE Entry(list[j + 1].id, j + 1)]

PushTask ==
  /\ Living /\ pushRuns
  /\ pushTasks # <<>>
  /\ pushTasks' = Tail(pushTasks)
  /\ LET t == Head(pushTasks)
         list == push.root.list
         known == \E i \in DOMAIN list : list[i].id = t.id
     IN \/ /\ t.do = "add"
           /\ push' = [push EXCEPT !.root.list = Append(@, Entry(t.id, Len(@) + 1)), !.root.missed = @ \ {t.id}]
           /\ UNCHANGED fault
        \/ /\ t.do = "clear"
           /\ push' = [push EXCEPT !.root.list = <<>>, !.root.missed = {}]
           /\ UNCHANGED fault
        \/ /\ t.do = "remove" /\ known
           /\ push' = [push EXCEPT !.root.list = Without(@, t.id)]
           /\ UNCHANGED fault
        \/ /\ t.do \in {"restore", "delete"} /\ known
           /\ fault' = IF t.do = "restore" THEN "null unit" ELSE "wrong vector"
           /\ UNCHANGED push
        \/ /\ t.do = "restore" /\ ~known
           /\ push' = [push EXCEPT !.root.missed = @ \cup {t.id}]
           /\ UNCHANGED fault
        \/ /\ t.do \in {"remove", "delete"} /\ ~known
           /\ UNCHANGED <<push, fault>>
  /\ UNCHANGED <<PushKeeps, plan, pushRuns, pads>>

(***************************************************************************)
(* Buttons and encoders: queued by the thread of the midi port.            *)
(***************************************************************************)
Press ==
  /\ Living
  /\ plan.buttons > 0
  /\ plan' = [plan EXCEPT !.buttons = @ - 1]
  /\ \/ \E b \in plan.keys :
          push' = [push EXCEPT !.buttons = Append(@, b)]
     \/ \E by \in {-1, 1} : push' = [push EXCEPT !.encoders = Append(@, by)]
  /\ UNCHANGED <<PushKeeps, pushTasks, pushRuns, fault, pads>>

\* Every widget of the view is to be drawn.
Show(root, view) ==
  [root EXCEPT !.view = view, !.prev = root.view, !.switched = TRUE, !.stale = TRUE,
               !.lit = IF view = "none" THEN @ ELSE Lit(@, view)]

\* Mutant: a button does not remember the view it left.
MutSwitchTo(root, view) == [Show(root, IF view = root.view THEN root.prev ELSE view) EXCEPT !.prev = root.prev]

\* The button of the view that is shown goes back to the view before it.
SwitchTo(root, view) == Show(root, IF view = root.view THEN root.prev ELSE view)

\* The scale selector's own buttons; the arrow down has no end.
Press1(root, b) ==
  CASE b \in DOMAIN Views -> SwitchTo(root, Views[b])
    [] root.view = "Scales" /\ b = "Chromatic" -> [root EXCEPT !.chromatic = ~@, !.update = TRUE]
    [] root.view = "Scales" /\ b = "Down" -> [root EXCEPT !.scale = @ + 1, !.update = TRUE]
    [] root.view = "Scales" /\ b = "Up" -> [root EXCEPT !.scale = IF @ > 1 THEN @ - 1 ELSE @, !.update = TRUE]
    [] OTHER -> root

\* Of the moves of an encoder, those slowdown lets through; they stop at the last scale.
Turn(root, by) ==
  IF root.view # "Scales" THEN root
  ELSE [root EXCEPT !.scale = IF by > 0 THEN IF @ < Len(Scales) THEN @ + 1 ELSE @
                              ELSE IF @ > 1 THEN @ - 1 ELSE @,
                    !.update = TRUE]

\* A change of the mapping while a pad is held is remembered (shifted, a history).
Dispatch ==
  /\ Living /\ pushRuns
  /\ \/ /\ push.buttons # <<>>
        /\ push' = [push EXCEPT !.root = Press1(@, Head(push.buttons)), !.buttons = Tail(@)]
     \/ /\ push.buttons = <<>> /\ push.encoders # <<>>
        /\ push' = [push EXCEPT !.root = Turn(@, Head(push.encoders)), !.encoders = Tail(@)]
  /\ LET was == push.root
         now == push'.root
         same == was.chromatic = now.chromatic /\ was.scale = now.scale
     IN pads' = [pads EXCEPT !.shifted = @ \/ (~same /\ pads.held # {})]
  /\ fault' = IF push'.root.view = "none" THEN "no view" ELSE fault
  /\ UNCHANGED <<PushKeeps, plan, pushTasks, pushRuns>>

(***************************************************************************)
(* The frame.  What is to be drawn clears the place it was in and the one  *)
(* it is in, and everything visible there is drawn again: a unit that is   *)
(* gone stays on the display until another is drawn over it.               *)
(***************************************************************************)
Dirty(root) == root.stale \/ (root.view = "Grid" /\ \E i \in DOMAIN root.list : root.list[i].dirty)

Regions(root) ==
  IF root.stale THEN Rows
  ELSE UNION {{i, root.list[i].last} : i \in {j \in DOMAIN root.list : root.list[j].dirty}}

Paint ==
  /\ Living /\ pushRuns
  /\ Dirty(push.root)
  /\ LET root == push.root
         Drawn(r) == IF root.view = "Grid" /\ r \in DOMAIN root.list THEN root.list[r].id ELSE 0
     IN push' = [push EXCEPT !.root.stale = FALSE,
                             !.root.image = [r \in Rows |-> IF r \in Regions(root) THEN Drawn(r) ELSE @[r]],
                             !.root.list = IF root.view # "Grid" THEN @
                                           ELSE [i \in DOMAIN @ |-> [@[i] EXCEPT !.last = i, !.dirty = FALSE]]]
  /\ UNCHANGED <<PushKeeps, plan, pushTasks, pushRuns, fault, pads>>

(***************************************************************************)
(* Pads.                                                                   *)
(***************************************************************************)
Mapped(root) == root.chromatic \/ root.scale \in DOMAIN Scales

\* Rows are a fourth apart; the octave is that of the pad, not of what it stands for.
Layout4(pad) == ((pad - 36) % 8) + 5 * ((pad - 36) \div 8)

GetNote(root, pad) ==
  LET scale == Scales[root.scale]
      note == IF root.chromatic THEN (Layout4(pad) % 12) + 1
              ELSE scale[(Layout4(pad) % Len(scale)) + 1]
  IN (note - 1) + 12 * (pad \div 12)

\* The pads that stand for the same note; they light up and go out together.
Twins(pad) == {p \in Pads : Layout4(p) = Layout4(pad)}

\* PushPads::update colours every pad anew, by the scale also when it is chromatic.
RenderPads ==
  /\ Living /\ pushRuns
  /\ push.root.update
  /\ push' = [push EXCEPT !.root.update = FALSE]
  /\ pads' = [pads EXCEPT !.pressed = {}]
  /\ fault' = IF push.root.scale \notin DOMAIN Scales THEN "no such scale" ELSE fault
  /\ UNCHANGED <<PushKeeps, plan, pushTasks, pushRuns>>

PadDown(pad) ==
  /\ Living
  /\ plan.strokes > 0
  /\ pad \notin pads.held
  /\ plan' = [plan EXCEPT !.strokes = @ - 1]
  /\ IF Mapped(push.root)
     THEN /\ pads' = [pads EXCEPT !.held = @ \cup {pad}, !.pressed = @ \cup Twins(pad),
                                  !.sounding = @ \cup {GetNote(push.root, pad)}]
          /\ UNCHANGED fault
     ELSE /\ fault' = "no such scale"
          /\ UNCHANGED pads
  /\ UNCHANGED <<PushKeeps, pushTasks, pushRuns, push>>

\* Mutant: the release of a pad is lost while the pads wait for their colours.
MutPadUp(pad) ==
  /\ Living
  /\ pad \in pads.held
  /\ pads' = [pads EXCEPT !.held = @ \ {pad}, !.pressed = @ \ Twins(pad),
                          !.sounding = IF push.root.update THEN @ ELSE @ \ {GetNote(push.root, pad)}]
  /\ UNCHANGED <<PushKeeps, plan, pushTasks, pushRuns, push, fault>>

\* The pad gets the colour of its scale back.
PadUp(pad) ==
  /\ Living
  /\ pad \in pads.held
  /\ IF push.root.scale \in DOMAIN Scales
     THEN /\ pads' = [pads EXCEPT !.held = @ \ {pad}, !.pressed = @ \ Twins(pad),
                                  !.sounding = @ \ {GetNote(push.root, pad)}]
          /\ UNCHANGED fault
     ELSE /\ fault' = "no such scale"
          /\ UNCHANGED pads
  /\ UNCHANGED <<PushKeeps, plan, pushTasks, pushRuns, push>>
=============================================================================
