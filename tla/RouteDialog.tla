----------------------------- MODULE RouteDialog -----------------------------
(***************************************************************************)
(* The route dialog of the display, as operators on a record.  Its lines   *)
(* are widgets: each update makes new ones, and gen tells them apart.  It  *)
(* updates whenever routes change, shown or hidden.                        *)
(***************************************************************************)
EXTENDS UnitPosts

CONSTANT OutputPort   \* the ID of the midi port whose output is open, 0 if there is none

Tabs == {"audio", "midi"}
Sides == {"in", "out"}

\* gen = 0: a null pointer.
NoLine == [gen |-> 0, io |-> "EXT", list |-> {}, pick |-> 0]

\* The list and the choice of the dropdown of a new line are those of its EXT side.
NewLine(gen) == [NoLine EXCEPT !.gen = gen]

Lines(x) == [tab \in Tabs |-> [side \in Sides |-> x]]

\* mixed, a history: when the dialog was shown it was not empty.
Closed ==
  [current |-> 0, names |-> {}, open |-> FALSE, tab |-> "audio", gen |-> 0,
   rows |-> Lines(<<>>), next |-> Lines(NoLine), lost |-> {},
   mixed |-> FALSE]

\* A route into the unit is an input, else a route from it an output.
SideOf(r, id) == IF r.to = id THEN "in" ELSE "out"
Other(r, id) == IF r.to = id THEN r.from ELSE r.to

Shown(rs, id, side) == SelectSeq(rs, LAMBDA r : Touches(r, id) /\ SideOf(r, id) = side)

\* The name of the current unit and of the unit at the other end of each route are
\* read through a pointer that is null when the snapshot does not hold the unit.
UpdateDies(d) ==
  /\ d.current # 0
  /\ LET known == {0} \cup ToSet(units)
     IN \/ d.current \notin known
        \/ \E tab \in Tabs : \E i \in DOMAIN seen[tab] :
             /\ Touches(seen[tab][i], d.current)
             /\ Other(seen[tab][i], d.current) \notin known

\* A line for each route of one side, below those there are.
LinesFor(d, tab, side, gen) ==
  LET rs == Shown(seen[tab], d.current, side)
  IN d.rows[tab][side] \o [i \in DOMAIN rs |-> [gen |-> gen, other |-> Other(rs[i], d.current)]]

AsInputs(d, tab, gen) == LinesFor(d, tab, "in", gen)
AsOutputs(d, tab, gen) == LinesFor(d, tab, "out", gen)

\* Lines are added to those there are; the lines for a new route are replaced, and
\* those that were there stay on the screen with nobody knowing them.
UpdateRows(d) ==
  IF d.current = 0 THEN d
  ELSE LET gen == d.gen + 1
       IN [d EXCEPT !.gen = gen,
                    !.rows = [tab \in Tabs |-> [in |-> AsInputs(d, tab, gen), out |-> AsOutputs(d, tab, gen)]],
                    !.lost = @ \cup ({d.next[tab]["in"].gen : tab \in Tabs} \ {0}),
                    !.next = Lines(NewLine(gen))]

\* Every line the dialog knows is deleted.
ForcedClose(d) == [d EXCEPT !.rows = Lines(<<>>), !.next = Lines(NoLine)]

\* The lines of routes live until the next update, those for a new route also when lost.
RowLives(d, tab, gen) ==
  \E side \in Sides : \E i \in DOMAIN d.rows[tab][side] : d.rows[tab][side][i].gen = gen

NextLives(d, tab, gen) == gen # 0 /\ gen \in d.lost \cup {d.next[tab][side].gen : side \in Sides}

\* EXT and INT change places; the units are listed as they are now, without the unit itself.
ToggleKind(d, tab, side) ==
  LET line == d.next[tab][side]
      others == SelectSeq(units, LAMBDA u : u # d.current)
  IN [d EXCEPT !.next[tab][side] =
       IF line.io = "EXT"
       THEN [line EXCEPT !.io = "INT", !.list = ToSet(others),
                         !.pick = IF others = <<>> THEN 0 ELSE Head(others)]
       ELSE [line EXCEPT !.io = "EXT", !.list = {}, !.pick = 0]]

PickOther(d, tab, side, id) == [d EXCEPT !.next[tab][side].pick = id]

\* The unit chosen is looked up by its name in the present list.
Found(line) == line.io = "INT" => line.pick \in ToSet(units)

RouteFrom(d, side, line) ==
  LET end == IF line.io = "INT" THEN line.pick ELSE 0
  IN IF side = "in" THEN [from |-> end, to |-> d.current] ELSE [from |-> d.current, to |-> end]

NewAudioRoute(d, side) ==
  LET line == d.next.audio[side]
  IN IF Found(line) THEN <<[Act("audio") EXCEPT !.route = RouteFrom(d, side, line)]>> ELSE <<>>

\* Here an output to the hardware needs a port, of an ID other than 0.
NewMidiRoute(d, side) ==
  LET line == d.next.midi[side]
  IN IF Found(line) /\ (line.io = "EXT" /\ side = "out" => OutputPort # 0)
     THEN <<[Act("midi") EXCEPT !.route = RouteFrom(d, side, line)]>> ELSE <<>>

\* The names are those of the moment the button of the list is touched.
ListNames(d) == [d EXCEPT !.names = ToSet(units)]

\* A name that is gone changes nothing; any other makes its unit the current one.
NowCurrent(d, id) == IF id \in ToSet(units) THEN [d EXCEPT !.current = id] ELSE d
=============================================================================
