-------------------------- MODULE UnitEditsProofs --------------------------
(***************************************************************************)
(* What holds of the edits of a unit when one is under way at a time: the  *)
(* snapshot shows the values and assets in use, a unit plays the clips     *)
(* that it shows until one is removed, and undo is that of an undo stack.  *)
(***************************************************************************)
EXTENDS UnitEdits, SequenceLemmas, FiniteSetTheorems, TLAPS

(* ------------------------------- the types ------------------------------- *)

Kinds == Undoables \cup {"LoadAsClip", "LoadAsset", "Undo", "Redo"}

Loads == {"LoadAsClip", "LoadAsset"}

Replays == {"Undo", "Redo"}

ClipRecords == [start : Values, muted : BOOLEAN]

Assets == Files \cup {Take, NoFile}

UnitValues == [Units -> [RtAttributes -> Values]]

ViewValues == [Units -> [AllAttributes -> Values]]

Documents == [values : [Units -> [Reverted -> Values]], clips : [1..MaxEmits -> ClipRecords]]

ActionRecords ==
  [kind : Kinds, unit : Units \cup Gone \cup {0}, attribute : AllAttributes \cup {"none"},
   value : Values \cup ClipRecords, clip : Nat, file : Assets, step : 1..4,
   direction : {"Forward", "Backward"}, state : {"Executing", "Waiting", "Finished", "Abort"},
   completed : BOOLEAN, opened : {"no", "yes", "failed"}, old : Values \cup ClipRecords,
   item : Nat, container : {1, 2}, before : Documents \cup {0}]

ClipIds == 1..Len(clips)

ListsTyped ==
  /\ act \in [ActionIds -> ActionRecords]
  /\ actions \in Seq(ActionIds) /\ undoList \in Seq(ActionIds) /\ redoList \in Seq(ActionIds)
  /\ Len(undoList) <= UndoLimit /\ Len(redoList) <= UndoLimit
  /\ idx \in Nat \ {0} /\ emits \in Nat /\ emits <= MaxEmits

DataTyped ==
  /\ unit \in UnitValues /\ view \in ViewValues
  /\ clips \in Seq(ClipRecords)
  /\ DOMAIN clipViews \subseteq ClipIds /\ clipViews \in [DOMAIN clipViews -> ClipRecords]
  /\ box \in [Units \cup Gone -> [{1, 2} -> Seq(Nat)]]
  /\ inUse \in [Units \cup Gone -> BOOLEAN] /\ rtBox \in [Units -> {1, 2}]
  /\ shown \in [Units -> Seq(Nat)] /\ \A u \in Units : ToSet(shown[u]) \subseteq ClipIds
  /\ torn \in BOOLEAN /\ removed \in BOOLEAN
  /\ asset \in [Units -> Assets] /\ assetView \in [Units -> Assets]

(* -------------------------- the edit under way --------------------------- *)

\* The action at the end of the list: the one under way, behind the undo or redo
\* that restarted it.
Current == Last(actions)

\* What the fields of an action promise to the steps that read them.
Fits(x) ==
  /\ x.kind = "SetValue" => x.attribute \in AllAttributes /\ x.value \in Values /\ x.old \in Values
  /\ x.kind = "ModifyClipItem" => x.value \in ClipRecords /\ x.old \in ClipRecords /\ x.clip \in ClipIds
  /\ x.kind = "RemoveClip" => x.unit \in Units
  /\ x.kind \in Loads => x.unit \in Units \cup Gone /\ x.direction = "Forward"
  /\ x.kind = "LoadAsClip" => x.value = Default /\ x.file \in Files \cup {Take}
  /\ x.kind = "LoadAsset" => x.file \in Files
  /\ x.kind = "LoadAsClip" /\ x.step \in {3, 4} => x.item \in ClipIds

\* The step that sends the task; the next one shows what the task has done.
SendStep(kind) == IF kind = "LoadAsClip" THEN 3 ELSE IF kind = "LoadAsset" THEN 2 ELSE 1

Sent(x) == x.state = "Waiting" /\ x.step = SendStep(x.kind)

\* The task is done and not yet shown.
Ran(x) == (Sent(x) /\ x.completed) \/ (x.state = "Executing" /\ x.step = SendStep(x.kind) + 1)

\* How far an edit under way can be.
UnderWay(x) ==
  /\ x.step <= SendStep(x.kind) + 1
  /\ x.kind \in Replays => x.step = 1 /\ x.state \in {"Executing", "Finished"} /\ x.direction = "Forward"
  /\ x.state = "Waiting" => x.step = SendStep(x.kind) \/ (x.kind \in Loads /\ x.step = 1)
  /\ x.kind \in {"SetValue"} \cup Loads /\ (Sent(x) \/ Ran(x)) => x.unit \in Units
  /\ x.kind = "SetValue" /\ (x.state = "Finished" \/ x.direction = "Backward") => x.unit \in Units
  /\ x.kind = "SetValue" /\ x.attribute \in ViewAttributes => x.state # "Waiting" /\ x.step = 1
  /\ x.state = "Abort" => x.direction = "Forward" /\ x.kind \in {"SetValue"} \cup Loads
  /\ x.kind \in Loads /\ x.state = "Executing" /\ x.step = 1 => x.opened = "no"

\* What undo and redo can restart.
Stored(x) == x.kind \in Undoables /\ Fits(x) /\ (x.kind = "SetValue" => x.unit \in Units)

\* An action is in one place; no more than an undo or a redo, which has finished then,
\* and the action it restarted are on the action list.
OneUnderWay ==
  /\ IsInjective(actions) /\ IsInjective(undoList) /\ IsInjective(redoList)
  /\ ToSet(actions) \cap ToSet(undoList) = {} /\ ToSet(actions) \cap ToSet(redoList) = {}
  /\ ToSet(undoList) \cap ToSet(redoList) = {}
  /\ Len(actions) + Len(undoList) + Len(redoList) <= emits
  /\ \A a \in ToSet(undoList) \cup ToSet(redoList) : Stored(act[a])
  /\ Len(actions) <= 2
  /\ Len(actions) = 2 => /\ act[actions[1]].kind \in Replays /\ act[actions[1]].state = "Finished"
                         /\ act[Current].kind \in Undoables
  /\ actions # <<>> => Fits(act[Current]) /\ UnderWay(act[Current])

\* The ring holds the task of the edit under way or nothing, so does the file worker.
TasksUnderWay ==
  /\ rtTasks = IF actions # <<>> /\ Sent(act[Current]) /\ ~act[Current].completed THEN <<Current>> ELSE <<>>
  /\ requests # <<>> => /\ actions # <<>> /\ requests = <<Current>>
                        /\ act[Current].kind \in Loads /\ act[Current].step = 1
                        /\ act[Current].state = "Waiting" /\ act[Current].opened = "no"
                        /\ act[Current].file \in Files

CoreInv == ListsTyped /\ DataTyped /\ OneUnderWay /\ TasksUnderWay

(* ------------------------- what the three rest on ------------------------ *)

\* An edit of this kind is done and not yet shown.
Unshown(kind) == actions # <<>> /\ act[Current].kind = kind /\ Ran(act[Current])

\* What a task or a snapshot is set to.
Aim(x) == IF x.direction = "Forward" THEN x.value ELSE x.old

\* The snapshot shows everything but what the task under way has just written, and
\* that is what the action will show.
ValuesShown ==
  /\ \A u \in Units, t \in RtAttributes :
       view[u][t] # unit[u][t] =>
         Unshown("SetValue") /\ act[Current].unit = u /\ act[Current].attribute = t
  /\ Unshown("SetValue") => unit[act[Current].unit][act[Current].attribute] = Aim(act[Current])
  /\ \A c \in DOMAIN clipViews :
       clipViews[c].start # clips[c].start => Unshown("ModifyClipItem") /\ act[Current].clip = c
  /\ Unshown("ModifyClipItem") => clips[act[Current].clip].start = Aim(act[Current]).start
  /\ \A u \in Units : assetView[u] # asset[u] => Unshown("LoadAsset") /\ act[Current].unit = u

Loading == actions # <<>> /\ act[Current].kind = "LoadAsClip" /\ (Sent(act[Current]) \/ Ran(act[Current]))

\* A unit plays the container that is not modifiable, with the clips shown; while a
\* clip is loaded the other one has these and the new clip.
ShownPlayed ==
  /\ ~torn
  /\ \A a \in ToSet(undoList) \cup ToSet(redoList) : act[a].kind # "RemoveClip"
  /\ actions # <<>> /\ act[Current].kind = "RemoveClip" =>
       /\ act[Current].state = "Executing" /\ act[Current].step = 1
       /\ act[Current].clip \in ToSet(shown[act[Current].unit])
  /\ Loading => LET u == act[Current].unit
                IN /\ act[Current].container = Modifiable(u)
                   /\ box[u][Modifiable(u)] = Append(shown[u], act[Current].item)
  /\ \A u \in Units :
       IF Unshown("LoadAsClip") /\ act[Current].unit = u
       THEN rtBox[u] = Modifiable(u)
       ELSE rtBox[u] = 3 - Modifiable(u) /\ box[u][3 - Modifiable(u)] = shown[u]

ClipsPlayed == ~removed => ShownPlayed

(* ------------------------------- documents ------------------------------- *)

\* A document with one value changed, and with one clip changed.
With(d, u, t, v) == [d EXCEPT !.values[u][t] = v]

WithClip(d, c, r) == [d EXCEPT !.clips[c] = r]

DocumentOf(units, views, storage) ==
  [values |-> [u \in Units |-> [t \in Reverted |-> IF t \in RtAttributes THEN units[u][t] ELSE views[u][t]]],
   clips |-> [c \in 1..MaxEmits |-> IF c \in DOMAIN storage THEN storage[c] ELSE NewClip(Default)]]

\* The finished action x has made document e of document d, and has what it needs
\* to make d of e again.
TakesBack(x, e, d) ==
  /\ d \in Documents
  /\ x.kind = "SetValue" => d = With(e, x.unit, x.attribute, x.old)
  /\ x.kind = "ModifyClipItem" => d = WithClip(e, x.clip, x.old)
  /\ x.kind = "RemoveClip" => d = e

\* The actions of the list, taken back from the newest to the oldest, lead from the
\* document d through all the documents they found.
LeadsBack(list, acts, d) ==
  \A i \in 1..Len(list) :
    TakesBack(acts[list[i]], IF i = Len(list) THEN d ELSE acts[list[i + 1]].before, acts[list[i]].before)

\* The documents that the actions of a list found.
PastOf(list, acts) == [i \in 1..Len(list) |-> acts[list[i]].before]

Fresh(x) == x.state = "Executing" /\ x.step = 1

\* How far an edit has come from the document it found.
ForwardUnderWay(x) ==
  IF x.kind \notin Undoables \/ Fresh(x) \/ x.state = "Abort"
  THEN Document = restDoc
  ELSE x.before = restDoc /\ TakesBack(x, Document, restDoc)

\* And how far its undo is back.
BackwardUnderWay(x) ==
  /\ TakesBack(x, restDoc, x.before)
  /\ Document = IF Ran(x) \/ x.state = "Finished" THEN x.before ELSE restDoc

\* A clip edit that mutes nothing.
Heard(x) == x.kind = "ModifyClipItem" => ~x.value.muted /\ ~x.old.muted

\* The actions of the undo list lead back from the document at rest through the stack of
\* documents; while an undo is under way the newest of them is not on the list.
HistoryInv ==
  /\ \A c \in ClipIds : ~clips[c].muted
  /\ \A a \in Owned : Heard(act[a])
  /\ restDoc \in Documents
  /\ IF actions # <<>> /\ act[Current].direction = "Backward"
     THEN /\ restPast = Append(PastOf(undoList, act), act[Current].before)
          /\ LeadsBack(undoList, act, act[Current].before)
          /\ BackwardUnderWay(act[Current])
     ELSE /\ restPast = PastOf(undoList, act)
          /\ LeadsBack(undoList, act, restDoc)
          /\ IF actions = <<>> THEN Document = restDoc ELSE ForwardUnderWay(act[Current])

(* --------------------------- lists and positions ------------------------- *)

\* A set of positions in their order is a sequence of them.
LEMMA InOrderElements ==
  ASSUME NEW n \in Nat, NEW S \in SUBSET (1..n), NEW s \in InOrder(S)
  PROVE  /\ s \in Seq(1..n)
         /\ \A i \in 1..Len(s) : s[i] \in S
<1> DEFINE c == Cardinality(S)
<1>1. c \in Nat
  <2>1. IsFiniteSet(1..n)
    BY FS_Interval
  <2>2. IsFiniteSet(S)
    BY <2>1, FS_Subset
  <2> QED
    BY <2>2, FS_CardinalityType
<1>2. s \in [1..c -> S]
  BY DEF InOrder
<1> HIDE DEF c
<1>3. s \in [1..c -> 1..n]
  BY <1>2
<1> QED
  BY <1>1, <1>2, <1>3

\* What is kept of a list are elements of it.
LEMMA KeptElements ==
  ASSUME NEW S, NEW list \in Seq(S), NEW P \in SUBSET (DOMAIN list), NEW rest \in Kept(list, P)
  PROVE  /\ rest \in Seq(S)
         /\ \A e \in ToSet(rest) : \E i \in P : e = list[i]
<1>1. PICK s \in InOrder(P) : rest = [j \in DOMAIN s |-> list[s[j]]]
  BY DEF Kept
<1>2. /\ DOMAIN list = 1..Len(list) /\ Len(list) \in Nat /\ P \in SUBSET (1..Len(list))
      /\ \A i \in 1..Len(list) : list[i] \in S
  BY ElementsAtPositions
<1>3. s \in Seq(1..Len(list)) /\ \A j \in 1..Len(s) : s[j] \in P
  BY <1>2, InOrderElements
<1>4. DOMAIN s = 1..Len(s) /\ Len(s) \in Nat
  BY <1>3, ElementsAtPositions
<1>5. rest \in [1..Len(s) -> S]
  BY <1>1, <1>2, <1>3, <1>4
<1>6. rest \in Seq(S) /\ Len(rest) = Len(s)
  BY <1>4, <1>5, FunctionIsSequence
<1>7. \A j \in 1..Len(s) : rest[j] = list[s[j]]
  BY <1>1, <1>4
<1> QED
  BY <1>3, <1>6, <1>7, ElementsAtPositions

\* Of no positions there is nothing.
LEMMA NoneKept ==
  ASSUME NEW S, NEW list \in Seq(S), NEW rest \in Kept(list, {})
  PROVE  rest = <<>>
<1>1. rest \in Seq(S) /\ \A e \in ToSet(rest) : FALSE
  BY KeptElements
<1>2. Len(rest) = 0
  <2>1. Len(rest) \in Nat /\ \A i \in 1..Len(rest) : FALSE
    BY <1>1, ElementsAtPositions
  <2> QED
    BY <2>1
<1> QED
  BY <1>1, <1>2, EmptySeq

\* Of one position there is the element at it.
LEMMA OneKept ==
  ASSUME NEW S, NEW list \in Seq(S), NEW k \in DOMAIN list, NEW rest \in Kept(list, {k})
  PROVE  rest = <<list[k]>>
<1>1. Cardinality({k}) = 1
  BY FS_Singleton
<1>2. PICK s \in [1..1 -> {k}] : rest = [j \in DOMAIN s |-> list[s[j]]]
  BY <1>1 DEF Kept, InOrder
<1>3. list[k] \in S
  BY ElementsAtPositions
<1>4. rest = [j \in 1..1 |-> list[k]]
  BY <1>2
<1> QED
  BY <1>3, <1>4

\* What is left without an element was there before.
LEMMA WithoutElements ==
  ASSUME NEW S, NEW list \in Seq(S), NEW e, NEW rest \in Without(list, e)
  PROVE  rest \in Seq(S) /\ ToSet(rest) \subseteq ToSet(list)
<1>1. rest \in Kept(list, {i \in DOMAIN list : list[i] # e})
  BY DEF Without
<1>2. \A i \in DOMAIN list : list[i] \in ToSet(list)
  BY ElementsAtPositions
<1> QED
  BY <1>1, <1>2, KeptElements

\* A list that is full loses its oldest elements, k of them.
LEMMA NewestElements ==
  ASSUME NEW S, NEW s \in Seq(S), NEW k, k = IF Len(s) > UndoLimit THEN Len(s) - UndoLimit ELSE 0
  PROVE  /\ k \in Nat /\ Newest(s) \in Seq(S)
         /\ Len(Newest(s)) = Len(s) - k /\ Len(Newest(s)) \in Nat /\ Len(Newest(s)) <= UndoLimit
         /\ \A i \in 1..Len(Newest(s)) : Newest(s)[i] = s[k + i] /\ k + i \in 1..Len(s)
<1>1. Len(s) \in Nat /\ UndoLimit \in Nat \ {0}
  BY LenProperties, EditsAssumption
<1>2. CASE Len(s) > UndoLimit
  <2> DEFINE m == Len(s) - UndoLimit + 1
             n == Len(s)
  <2>1. k = Len(s) - UndoLimit /\ k \in Nat
    BY <1>1, <1>2
  <2>2. m \in 1..(Len(s) + 1) /\ n \in (m - 1)..Len(s)
    BY <1>1, <1>2
  <2>3. n - m + 1 = UndoLimit /\ Len(s) - k = UndoLimit /\ \A i \in 1..UndoLimit : m + i - 1 = k + i /\ k + i \in 1..Len(s)
    BY <1>1, <1>2, <2>1
  <2>4. Newest(s) = SubSeq(s, m, n)
    BY <1>2 DEF Newest
  <2> HIDE DEF m, n
  <2>5. /\ SubSeq(s, m, n) \in Seq(S) /\ Len(SubSeq(s, m, n)) = n - m + 1
        /\ \A i \in 1..(n - m + 1) : SubSeq(s, m, n)[i] = s[m + i - 1]
    BY <2>2, SubSeqElements
  <2>6. UndoLimit <= UndoLimit /\ UndoLimit \in Nat
    BY <1>1
  <2>7. Len(Newest(s)) = UndoLimit
    BY <2>3, <2>4, <2>5
  <2>8. \A i \in 1..UndoLimit : Newest(s)[i] = s[k + i] /\ k + i \in 1..Len(s)
    BY <2>3, <2>4, <2>5
  <2> QED
    BY <2>1, <2>3, <2>4, <2>5, <2>6, <2>7, <2>8
<1>3. CASE ~(Len(s) > UndoLimit)
  BY <1>1, <1>3 DEF Newest
<1> QED
  BY <1>2, <1>3

\* It holds no other elements than before, and each of them once.
LEMMA NewestDistinct ==
  ASSUME NEW S, NEW s \in Seq(S), IsInjective(s)
  PROVE  /\ Newest(s) \in Seq(S) /\ IsInjective(Newest(s))
         /\ ToSet(Newest(s)) \subseteq ToSet(s)
         /\ Len(Newest(s)) \in Nat /\ Len(Newest(s)) <= Len(s)
<1> DEFINE k == IF Len(s) > UndoLimit THEN Len(s) - UndoLimit ELSE 0
           t == Newest(s)
<1>1. /\ k \in Nat /\ t \in Seq(S) /\ Len(t) = Len(s) - k /\ Len(t) \in Nat
      /\ \A i \in 1..Len(t) : t[i] = s[k + i] /\ k + i \in 1..Len(s)
  BY NewestElements
<1> HIDE DEF k, t
<1>2. Len(s) \in Nat /\ DOMAIN s = 1..Len(s) /\ \A i \in 1..Len(s) : s[i] \in ToSet(s)
  BY ElementsAtPositions
<1>3. DOMAIN t = 1..Len(t) /\ \A e \in ToSet(t) : \E i \in 1..Len(t) : t[i] = e
  BY <1>1, ElementsAtPositions
<1>4. IsInjective(t)
  <2> SUFFICES ASSUME NEW i \in 1..Len(t), NEW j \in 1..Len(t), t[i] = t[j]
               PROVE  i = j
    BY <1>3 DEF IsInjective
  <2>1. s[k + i] = s[k + j] /\ k + i \in DOMAIN s /\ k + j \in DOMAIN s
    BY <1>1, <1>2
  <2>2. k + i = k + j
    BY <2>1 DEF IsInjective
  <2> QED
    BY <1>1, <2>2
<1>5. ToSet(t) \subseteq ToSet(s)
  BY <1>1, <1>2, <1>3
<1> QED
  BY <1>1, <1>2, <1>4, <1>5 DEF t

(* ---------------------- documents and their changes ---------------------- *)

\* Documents are the same if they agree on every value and every clip.
LEMMA DocumentsEqual ==
  ASSUME NEW d \in Documents, NEW e \in Documents,
         \A u \in Units, t \in Reverted : d.values[u][t] = e.values[u][t],
         \A c \in 1..MaxEmits : d.clips[c] = e.clips[c]
  PROVE  d = e
<1>1. /\ d.values \in [Units -> [Reverted -> Values]] /\ e.values \in [Units -> [Reverted -> Values]]
      /\ d.clips \in [1..MaxEmits -> ClipRecords] /\ e.clips \in [1..MaxEmits -> ClipRecords]
  BY DEF Documents
<1>2. d.values = e.values
  <2>1. \A u \in Units : d.values[u] = e.values[u]
    BY <1>1
  <2> QED
    BY <1>1, <2>1
<1>3. d.clips = e.clips
  <2> DEFINE f == d.clips
             g == e.clips
             C == 1..MaxEmits
  <2>1. f \in [C -> ClipRecords] /\ g \in [C -> ClipRecords] /\ \A c \in C : f[c] = g[c]
    BY <1>1
  <2> HIDE DEF f, g, C
  <2>2. f = g
    BY <2>1
  <2> QED
    BY <2>2 DEF f, g
<1> QED
  BY <1>2, <1>3 DEF Documents

\* What the two ways of changing a document do.
LEMMA WithElements ==
  ASSUME NEW d \in Documents, NEW u \in Units, NEW t, NEW v \in Values
  PROVE  /\ With(d, u, t, v) \in Documents
         /\ \A w \in Units, s \in Reverted :
              With(d, u, t, v).values[w][s] = IF w = u /\ s = t THEN v ELSE d.values[w][s]
         /\ With(d, u, t, v).clips = d.clips
BY DEF Documents, With

\* And of a clip.
LEMMA WithClipElements ==
  ASSUME NEW d \in Documents, NEW c, NEW r \in ClipRecords
  PROVE  /\ WithClip(d, c, r) \in Documents
         /\ \A b \in 1..MaxEmits : WithClip(d, c, r).clips[b] = IF b = c THEN r ELSE d.clips[b]
         /\ WithClip(d, c, r).values = d.values
BY DEF Documents, WithClip

\* The later change of a value or a clip counts.
LEMMA WithTwice ==
  ASSUME NEW d \in Documents, NEW u \in Units, NEW t, NEW v \in Values, NEW w \in Values
  PROVE  With(With(d, u, t, v), u, t, w) = With(d, u, t, w)
<1> DEFINE e == With(d, u, t, v)
<1>1. e \in Documents
  BY WithElements
<1>2. With(e, u, t, w) \in Documents /\ With(d, u, t, w) \in Documents
  BY <1>1, WithElements
<1>3. \A x \in Units, s \in Reverted : With(e, u, t, w).values[x][s] = With(d, u, t, w).values[x][s]
  BY <1>1, WithElements
<1>4. \A c \in 1..MaxEmits : With(e, u, t, w).clips[c] = With(d, u, t, w).clips[c]
  BY <1>1, WithElements
<1> QED
  BY <1>2, <1>3, <1>4, DocumentsEqual

\* Of two clips put at the same place the last one counts.
LEMMA WithClipTwice ==
  ASSUME NEW d \in Documents, NEW c, NEW r \in ClipRecords, NEW q \in ClipRecords
  PROVE  WithClip(WithClip(d, c, r), c, q) = WithClip(d, c, q)
<1> DEFINE e == WithClip(d, c, r)
<1>1. e \in Documents
  BY WithClipElements
<1>2. WithClip(e, c, q) \in Documents /\ WithClip(d, c, q) \in Documents
  BY <1>1, WithClipElements
<1>3. \A b \in 1..MaxEmits : WithClip(e, c, q).clips[b] = WithClip(d, c, q).clips[b]
  BY <1>1, WithClipElements
<1>4. WithClip(e, c, q).values = WithClip(d, c, q).values
  BY <1>1, WithClipElements
<1> QED
  BY <1>2, <1>3, <1>4, DocumentsEqual

\* Setting what is there changes nothing, nor does setting what is not observed.
LEMMA WithSame ==
  ASSUME NEW d \in Documents, NEW u \in Units, NEW t, NEW v \in Values,
         t \in Reverted => d.values[u][t] = v
  PROVE  With(d, u, t, v) = d
<1>1. With(d, u, t, v) \in Documents
  BY WithElements
<1>2. \A w \in Units, s \in Reverted : With(d, u, t, v).values[w][s] = d.values[w][s]
  BY WithElements
<1>3. With(d, u, t, v).clips = d.clips
  BY WithElements
<1> QED
  BY <1>1, <1>2, <1>3, DocumentsEqual

\* To put the clip that is there changes nothing.
LEMMA WithClipSame ==
  ASSUME NEW d \in Documents, NEW c, NEW r \in ClipRecords, c \in 1..MaxEmits => d.clips[c] = r
  PROVE  WithClip(d, c, r) = d
<1>1. WithClip(d, c, r) \in Documents
  BY WithClipElements
<1>2. \A b \in 1..MaxEmits : WithClip(d, c, r).clips[b] = d.clips[b]
  BY WithClipElements
<1>3. WithClip(d, c, r).values = d.values
  BY WithClipElements
<1> QED
  BY <1>1, <1>2, <1>3, DocumentsEqual

\* A document that shows these values and these clips.
Shows(d, un, vi, cl) ==
  /\ d \in Documents
  /\ \A u \in Units, t \in Reverted : d.values[u][t] = IF t \in RtAttributes THEN un[u][t] ELSE vi[u][t]
  /\ \A c \in 1..MaxEmits : d.clips[c] = IF c \in 1..Len(cl) THEN cl[c] ELSE NewClip(Default)

\* The document is one of the values of the units and the clips stored.
LEMMA DocumentElements ==
  ASSUME NEW un \in UnitValues, NEW vi \in ViewValues, NEW cl \in Seq(ClipRecords)
  PROVE  DocumentOf(un, vi, cl) \in Documents /\ Shows(DocumentOf(un, vi, cl), un, vi, cl)
<1>1. NewClip(Default) \in ClipRecords
  BY EditsAssumption DEF NewClip, ClipRecords
<1>2. DOMAIN cl = 1..Len(cl) /\ \A c \in 1..Len(cl) : cl[c] \in ClipRecords
  BY ElementsAtPositions
<1>3. \A u \in Units, t \in Reverted : (IF t \in RtAttributes THEN un[u][t] ELSE vi[u][t]) \in Values
  BY EditsAssumption DEF AllAttributes, UnitValues, ViewValues
<1> QED
  BY <1>1, <1>2, <1>3 DEF DocumentOf, Documents, Shows

\* The function is the old one but for one value.
Sets(old, new, u, t, v) == new = [old EXCEPT ![u][t] = v]

\* A clip is put at its place.
Puts(old, new, c, r) == new = [old EXCEPT ![c] = r]

\* What the program changes, and what it does to the document.
LEMMA ValueSet ==
  ASSUME NEW un \in UnitValues, NEW vi \in ViewValues, NEW cl \in Seq(ClipRecords),
         NEW u \in Units, NEW t \in RtAttributes, NEW v \in Values,
         NEW set, Sets(un, set, u, t, v)
  PROVE  set \in UnitValues /\ DocumentOf(set, vi, cl) = With(DocumentOf(un, vi, cl), u, t, v)
<1>1. set \in UnitValues /\ \A w \in Units, s \in RtAttributes : set[w][s] = IF w = u /\ s = t THEN v ELSE un[w][s]
  BY DEF UnitValues, Sets
<1> DEFINE d == DocumentOf(un, vi, cl)
           e == DocumentOf(set, vi, cl)
<1>2. Shows(d, un, vi, cl)
  BY DocumentElements
<1>3. Shows(e, set, vi, cl)
  BY <1>1, DocumentElements
<1> HIDE DEF d, e
<1>4. /\ With(d, u, t, v) \in Documents /\ With(d, u, t, v).clips = d.clips
      /\ \A w \in Units, s \in Reverted : With(d, u, t, v).values[w][s] = IF w = u /\ s = t THEN v ELSE d.values[w][s]
  BY <1>2, WithElements DEF Shows
<1>5. e = With(d, u, t, v)
  <2>1. \A w \in Units, s \in Reverted : e.values[w][s] = With(d, u, t, v).values[w][s]
    BY <1>1, <1>2, <1>3, <1>4 DEF Shows
  <2>2. \A b \in 1..MaxEmits : e.clips[b] = With(d, u, t, v).clips[b]
    BY <1>2, <1>3, <1>4 DEF Shows
  <2> QED
    BY <1>3, <1>4, <2>1, <2>2, DocumentsEqual DEF Shows
<1> QED
  BY <1>1, <1>5 DEF d, e

\* A view that is set changes the document in the attributes that only the view has.
LEMMA ViewSet ==
  ASSUME NEW un \in UnitValues, NEW vi \in ViewValues, NEW cl \in Seq(ClipRecords),
         NEW u \in Units, NEW t \in AllAttributes, NEW v \in Values,
         NEW set, Sets(vi, set, u, t, v)
  PROVE  /\ set \in ViewValues
         /\ t \in RtAttributes => DocumentOf(un, set, cl) = DocumentOf(un, vi, cl)
         /\ t \notin RtAttributes => DocumentOf(un, set, cl) = With(DocumentOf(un, vi, cl), u, t, v)
<1>1. set \in ViewValues /\ \A w \in Units, s \in AllAttributes : set[w][s] = IF w = u /\ s = t THEN v ELSE vi[w][s]
  BY DEF ViewValues, Sets
<1> DEFINE d == DocumentOf(un, vi, cl)
           e == DocumentOf(un, set, cl)
<1>2. Shows(d, un, vi, cl)
  BY DocumentElements
<1>3. Shows(e, un, set, cl)
  BY <1>1, DocumentElements
<1> HIDE DEF d, e
<1>4. /\ With(d, u, t, v) \in Documents /\ With(d, u, t, v).clips = d.clips
      /\ \A w \in Units, s \in Reverted : With(d, u, t, v).values[w][s] = IF w = u /\ s = t THEN v ELSE d.values[w][s]
  BY <1>2, WithElements DEF Shows
<1>5. \A s \in Reverted : s \in AllAttributes
  BY EditsAssumption
<1>6. CASE t \in RtAttributes
  <2>1. \A w \in Units, s \in Reverted : e.values[w][s] = d.values[w][s]
    BY <1>1, <1>2, <1>3, <1>5, <1>6 DEF Shows
  <2>2. \A b \in 1..MaxEmits : e.clips[b] = d.clips[b]
    BY <1>2, <1>3 DEF Shows
  <2>3. e = d
    BY <1>2, <1>3, <2>1, <2>2, DocumentsEqual DEF Shows
  <2> QED
    BY <1>1, <1>6, <2>3 DEF d, e
<1>7. CASE t \notin RtAttributes
  <2>1. \A w \in Units, s \in Reverted : e.values[w][s] = With(d, u, t, v).values[w][s]
    BY <1>1, <1>2, <1>3, <1>4, <1>5, <1>7 DEF Shows
  <2>2. \A b \in 1..MaxEmits : e.clips[b] = With(d, u, t, v).clips[b]
    BY <1>2, <1>3, <1>4 DEF Shows
  <2>3. e = With(d, u, t, v)
    BY <1>3, <1>4, <2>1, <2>2, DocumentsEqual DEF Shows
  <2> QED
    BY <1>1, <1>7, <2>3 DEF d, e
<1> QED
  BY <1>1, <1>6, <1>7

\* A clip that is set changes the document in this clip.
LEMMA ClipSet ==
  ASSUME NEW un \in UnitValues, NEW vi \in ViewValues, NEW cl \in Seq(ClipRecords),
         NEW c \in 1..Len(cl), NEW r \in ClipRecords,
         NEW set, Puts(cl, set, c, r)
  PROVE  /\ set \in Seq(ClipRecords) /\ Len(set) = Len(cl)
         /\ DocumentOf(un, vi, set) = WithClip(DocumentOf(un, vi, cl), c, r)
<1>1. set \in Seq(ClipRecords) /\ Len(set) = Len(cl) /\ \A i \in 1..Len(cl) : set[i] = IF i = c THEN r ELSE cl[i]
  BY ReplaceElements DEF Puts
<1> DEFINE d == DocumentOf(un, vi, cl)
           e == DocumentOf(un, vi, set)
<1>2. Shows(d, un, vi, cl)
  BY DocumentElements
<1>3. Shows(e, un, vi, set)
  BY <1>1, DocumentElements
<1> HIDE DEF d, e
<1>4. /\ WithClip(d, c, r) \in Documents /\ WithClip(d, c, r).values = d.values
      /\ \A b \in 1..MaxEmits : WithClip(d, c, r).clips[b] = IF b = c THEN r ELSE d.clips[b]
  BY <1>2, WithClipElements DEF Shows
<1>5. e = WithClip(d, c, r)
  BY <1>1, <1>2, <1>3, <1>4, DocumentsEqual DEF Shows
<1> QED
  BY <1>1, <1>5 DEF d, e

\* A clip that is loaded is the new clip that it counted as.
LEMMA ClipAdded ==
  ASSUME NEW un \in UnitValues, NEW vi \in ViewValues, NEW cl \in Seq(ClipRecords)
  PROVE  DocumentOf(un, vi, Append(cl, NewClip(Default))) = DocumentOf(un, vi, cl)
<1> DEFINE more == Append(cl, NewClip(Default))
<1>1. NewClip(Default) \in ClipRecords
  BY EditsAssumption DEF NewClip, ClipRecords
<1>2. /\ more \in Seq(ClipRecords) /\ Len(more) = Len(cl) + 1 /\ Len(cl) \in Nat
      /\ more[Len(cl) + 1] = NewClip(Default) /\ \A i \in 1..Len(cl) : more[i] = cl[i]
  BY <1>1, AppendElements, LenProperties
<1> HIDE DEF more
<1> DEFINE d == DocumentOf(un, vi, cl)
           e == DocumentOf(un, vi, more)
<1>3. Shows(d, un, vi, cl)
  BY DocumentElements
<1>4. Shows(e, un, vi, more)
  BY <1>2, DocumentElements DEF Shows
<1> HIDE DEF d, e
<1>5. e = d
  <2>1. \A w \in Units, s \in Reverted : e.values[w][s] = d.values[w][s]
    BY <1>3, <1>4 DEF Shows
  <2>2. \A b \in 1..MaxEmits : e.clips[b] = d.clips[b]
    BY <1>2, <1>3, <1>4 DEF Shows
  <2> QED
    BY <1>3, <1>4, <2>1, <2>2, DocumentsEqual DEF Shows
<1> QED
  BY <1>5 DEF d, e, more

\* Document is that of the variables.
LEMMA DocumentIs == Document = DocumentOf(unit, view, clips) /\ Document' = DocumentOf(unit', view', clips')
BY DEF Document, DocumentOf

(* -------------------------- the chain of edits --------------------------- *)

\* The documents of a list are a sequence of its length.
LEMMA PastElements ==
  ASSUME NEW list \in Seq(ActionIds), NEW acts, NEW S, \A a \in ActionIds : acts[a].before \in S
  PROVE  /\ PastOf(list, acts) \in Seq(S)
         /\ Len(PastOf(list, acts)) = Len(list)
         /\ \A i \in 1..Len(list) : PastOf(list, acts)[i] = acts[list[i]].before
<1>1. Len(list) \in Nat /\ \A i \in 1..Len(list) : acts[list[i]].before \in S
  BY ElementsAtPositions
<1>2. PastOf(list, acts) \in [1..Len(list) -> S]
  BY <1>1 DEF PastOf
<1>3. PastOf(list, acts) \in Seq(S) /\ Len(PastOf(list, acts)) = Len(list)
  BY <1>1, <1>2, FunctionIsSequence
<1> QED
  BY <1>3 DEF PastOf

\* The chain depends on its own actions only, and on nothing of theirs but what they
\* set, what they replaced and what they found.
LEMMA ChainStays ==
  ASSUME NEW list \in Seq(ActionIds), NEW acts, NEW acts2,
         \A a \in ToSet(list) : acts2[a] = acts[a]
  PROVE  /\ PastOf(list, acts2) = PastOf(list, acts)
         /\ \A d : LeadsBack(list, acts, d) => LeadsBack(list, acts2, d)
<1>1. \A i \in 1..Len(list) : acts2[list[i]] = acts[list[i]]
  BY ElementsAtPositions
<1>2. \A i \in 1..Len(list) : i # Len(list) => i + 1 \in 1..Len(list)
  BY ElementsAtPositions
<1> QED
  BY <1>1, <1>2 DEF PastOf, LeadsBack

\* A finished edit is put at the end of the chain.
LEMMA ChainGrows ==
  ASSUME NEW list \in Seq(ActionIds), NEW acts, NEW a \in ActionIds, NEW d,
         LeadsBack(list, acts, acts[a].before), TakesBack(acts[a], d, acts[a].before)
  PROVE  /\ LeadsBack(Append(list, a), acts, d)
         /\ PastOf(Append(list, a), acts) = Append(PastOf(list, acts), acts[a].before)
<1> DEFINE more == Append(list, a)
<1>1. /\ Len(list) \in Nat /\ Len(more) = Len(list) + 1
      /\ more[Len(list) + 1] = a
      /\ \A i \in 1..Len(list) : more[i] = list[i]
  BY ElementsAtPositions, AppendProperties
<1> HIDE DEF more
<1>2. LeadsBack(more, acts, d)
  <2> SUFFICES ASSUME NEW i \in 1..Len(more)
               PROVE  TakesBack(acts[more[i]], IF i = Len(more) THEN d ELSE acts[more[i + 1]].before,
                                acts[more[i]].before)
    BY DEF LeadsBack
  <2>1. CASE i = Len(list) + 1
    BY <1>1, <2>1
  <2>2. CASE i \in 1..Len(list)
    <3>1. more[i] = list[i] /\ i # Len(more)
      BY <1>1, <2>2
    <3>2. acts[more[i + 1]].before = IF i = Len(list) THEN acts[a].before ELSE acts[list[i + 1]].before
      BY <1>1, <2>2
    <3> QED
      BY <2>2, <3>1, <3>2 DEF LeadsBack
  <2> QED
    BY <1>1, <2>1, <2>2
<1>3. PastOf(more, acts) = Append(PastOf(list, acts), acts[a].before)
  <2> DEFINE S == {acts[b].before : b \in ActionIds}
             past == PastOf(list, acts)
  <2>1. more \in Seq(ActionIds) /\ acts[a].before \in S /\ \A b \in ActionIds : acts[b].before \in S
    BY AppendProperties DEF more
  <2> HIDE DEF S
  <2>2. /\ past \in Seq(S) /\ Len(past) = Len(list) /\ \A i \in 1..Len(list) : past[i] = acts[list[i]].before
        /\ PastOf(more, acts) \in Seq(S) /\ Len(PastOf(more, acts)) = Len(more)
        /\ \A i \in 1..Len(more) : PastOf(more, acts)[i] = acts[more[i]].before
    BY <2>1, PastElements
  <2> HIDE DEF past
  <2>3. /\ Append(past, acts[a].before) \in Seq(S) /\ Len(Append(past, acts[a].before)) = Len(list) + 1
        /\ \A i \in 1..Len(list) : Append(past, acts[a].before)[i] = past[i]
        /\ Append(past, acts[a].before)[Len(list) + 1] = acts[a].before
    BY <2>1, <2>2, AppendProperties
  <2>4. \A i \in 1..Len(more) : PastOf(more, acts)[i] = Append(past, acts[a].before)[i]
    BY <1>1, <2>2, <2>3
  <2> QED
    BY <1>1, <2>2, <2>3, <2>4, SeqEqual DEF past
<1> QED
  BY <1>2, <1>3 DEF more

\* What is left of a chain leads back as far as it goes.
LEMMA ChainForgets ==
  ASSUME NEW list \in Seq(ActionIds), NEW acts, NEW d, LeadsBack(list, acts, d)
  PROVE  LeadsBack(Newest(list), acts, d)
<1> DEFINE k == IF Len(list) > UndoLimit THEN Len(list) - UndoLimit ELSE 0
           t == Newest(list)
<1>1. /\ k \in Nat /\ Len(t) = Len(list) - k /\ Len(t) \in Nat
      /\ \A i \in 1..Len(t) : t[i] = list[k + i] /\ k + i \in 1..Len(list)
  BY NewestElements
<1>2. Len(list) \in Nat
  BY LenProperties
<1> HIDE DEF k, t
<1>3. ASSUME NEW i \in 1..Len(t)
      PROVE  TakesBack(acts[t[i]], IF i = Len(t) THEN d ELSE acts[t[i + 1]].before, acts[t[i]].before)
  <2>1. t[i] = list[k + i] /\ k + i \in 1..Len(list) /\ (i = Len(t) <=> k + i = Len(list))
    BY <1>1, <1>2, <1>3
  <2>2. i # Len(t) => t[i + 1] = list[k + i + 1]
    <3>1. i # Len(t) => i + 1 \in 1..Len(t) /\ k + (i + 1) = k + i + 1
      <4>1. k \in Nat /\ Len(t) \in Nat /\ i \in 1..Len(t)
        BY <1>1, <1>3
      <4> QED
        BY ONLY <4>1
    <3> QED
      BY <1>1, <3>1
  <2> DEFINE j == k + i
  <2>3. TakesBack(acts[list[j]], IF j = Len(list) THEN d ELSE acts[list[j + 1]].before, acts[list[j]].before)
    BY <2>1 DEF LeadsBack
  <2> QED
    BY <2>1, <2>2, <2>3
<1>4. LeadsBack(t, acts, d)
  BY <1>3 DEF LeadsBack
<1> QED
  BY <1>4 DEF t

\* The documents of a list follow it when an edit is put on it and the oldest goes.
LEMMA PastPushed ==
  ASSUME NEW list \in Seq(ActionIds), Len(list) <= UndoLimit, NEW acts, NEW a \in ActionIds
  PROVE  PastOf(Newest(Append(list, a)), acts)
           = Append(IF Len(PastOf(list, acts)) = UndoLimit THEN Tail(PastOf(list, acts)) ELSE PastOf(list, acts),
                    acts[a].before)
<1> DEFINE S == {acts[b].before : b \in ActionIds}
           more == Append(list, a)
           left == Newest(more)
           past == PastOf(list, acts)
           e == acts[a].before
           pushed == Append(IF Len(past) = UndoLimit THEN Tail(past) ELSE past, e)
           k == IF Len(more) > UndoLimit THEN Len(more) - UndoLimit ELSE 0
<1>1. e \in S /\ \A b \in ActionIds : acts[b].before \in S
  OBVIOUS
<1>2. /\ more \in Seq(ActionIds) /\ Len(more) = Len(list) + 1 /\ Len(list) \in Nat
      /\ more[Len(list) + 1] = a /\ \A i \in 1..Len(list) : more[i] = list[i]
  BY AppendElements, LenProperties
<1> HIDE DEF S
<1>3. past \in Seq(S) /\ Len(past) = Len(list) /\ \A i \in 1..Len(list) : past[i] = acts[list[i]].before
  BY <1>1, PastElements
<1> HIDE DEF more
<1>4. /\ k \in Nat /\ left \in Seq(ActionIds) /\ Len(left) = Len(more) - k /\ Len(left) \in Nat
      /\ \A i \in 1..Len(left) : left[i] = more[k + i]
  BY <1>2, NewestElements
<1>5. k = IF Len(list) = UndoLimit THEN 1 ELSE 0
  BY <1>2, EditsAssumption
<1> HIDE DEF left, past, e, k
<1>6. /\ PastOf(left, acts) \in Seq(S) /\ Len(PastOf(left, acts)) = Len(left)
      /\ \A i \in 1..Len(left) : PastOf(left, acts)[i] = acts[left[i]].before
  BY <1>1, <1>4, PastElements
<1>7. CASE Len(list) = UndoLimit
  <2>1. past # <<>> /\ Len(list) # 0
    BY <1>2, <1>3, <1>7, EditsAssumption
  <2>2. /\ Tail(past) \in Seq(S) /\ Len(Tail(past)) = Len(list) - 1
        /\ \A i \in 1..(Len(list) - 1) : Tail(past)[i] = past[i + 1]
    BY <1>3, <2>1, HeadTailProperties
  <2> DEFINE tail == Tail(past)
  <2> HIDE DEF tail
  <2>3. tail \in Seq(S) /\ Len(tail) = Len(list) - 1 /\ \A i \in 1..(Len(list) - 1) : tail[i] = past[i + 1]
    BY <2>2 DEF tail
  <2>4. pushed = Append(tail, e)
    BY <1>3, <1>7 DEF tail
  <2>5. /\ Append(tail, e) \in Seq(S) /\ Len(Append(tail, e)) = Len(list)
        /\ Append(tail, e)[Len(list)] = e /\ \A i \in 1..(Len(list) - 1) : Append(tail, e)[i] = past[i + 1]
    <3>1. Len(tail) + 1 = Len(list)
      BY <1>2, <2>3
    <3> QED
      BY <1>1, <2>3, <3>1, AppendElements
  <2>6. Len(left) = Len(list) /\ k = 1
    BY <1>2, <1>4, <1>5, <1>7
  <2>7. \A i \in 1..Len(list) : PastOf(left, acts)[i] = Append(tail, e)[i]
    <3> SUFFICES ASSUME NEW i \in 1..Len(list)
                 PROVE  PastOf(left, acts)[i] = Append(tail, e)[i]
      OBVIOUS
    <3>1. PastOf(left, acts)[i] = acts[more[i + 1]].before
      <4>1. left[i] = more[1 + i] /\ 1 + i = i + 1
        BY <1>4, <2>6
      <4> QED
        BY <1>6, <2>6, <4>1
    <3>2. CASE i = Len(list)
      BY <1>2, <2>5, <3>1, <3>2 DEF e
    <3>3. CASE i # Len(list)
      <4>1. i \in 1..(Len(list) - 1) /\ i + 1 \in 1..Len(list)
        BY <1>2, <3>3
      <4> QED
        BY <1>2, <1>3, <2>5, <3>1, <4>1
    <3> QED
      BY <3>2, <3>3
  <2>8. PastOf(left, acts) = Append(tail, e)
    BY <1>6, <2>5, <2>6, <2>7, SeqEqual
  <2> QED
    BY <2>4, <2>8 DEF left, more, past, e
<1>8. CASE Len(list) # UndoLimit
  <2>1. pushed = Append(past, e)
    BY <1>3, <1>8
  <2>2. /\ Append(past, e) \in Seq(S) /\ Len(Append(past, e)) = Len(list) + 1
        /\ Append(past, e)[Len(list) + 1] = e /\ \A i \in 1..Len(list) : Append(past, e)[i] = past[i]
    BY <1>1, <1>3, AppendElements
  <2>3. Len(left) = Len(list) + 1 /\ k = 0
    BY <1>2, <1>4, <1>5, <1>8
  <2>4. \A i \in 1..(Len(list) + 1) : PastOf(left, acts)[i] = Append(past, e)[i]
    <3> SUFFICES ASSUME NEW i \in 1..(Len(list) + 1)
                 PROVE  PastOf(left, acts)[i] = Append(past, e)[i]
      OBVIOUS
    <3>1. PastOf(left, acts)[i] = acts[more[i]].before
      <4>1. left[i] = more[0 + i] /\ 0 + i = i
        BY <1>4, <2>3
      <4> QED
        BY <1>6, <2>3, <4>1
    <3>2. CASE i = Len(list) + 1
      BY <1>2, <2>2, <3>1, <3>2 DEF e
    <3>3. CASE i \in 1..Len(list)
      BY <1>2, <1>3, <2>2, <3>1, <3>3
    <3>4. i = Len(list) + 1 \/ i \in 1..Len(list)
      <4>1. Len(list) \in Nat /\ i \in 1..(Len(list) + 1)
        BY <1>2
      <4> QED
        BY ONLY <4>1
    <3> QED
      BY <3>2, <3>3, <3>4
  <2>5. PastOf(left, acts) = Append(past, e)
    BY <1>6, <2>2, <2>3, <2>4, SeqEqual
  <2> QED
    BY <2>1, <2>5 DEF left, more, past, e
<1> QED
  BY <1>7, <1>8

\* A list is its front and its last element.
LEMMA FrontAndLast ==
  ASSUME NEW S, NEW list \in Seq(S), Len(list) # 0
  PROVE  Append(Front(list), Last(list)) = list
<1>1. /\ Len(list) \in Nat \ {0} /\ Len(Front(list)) = Len(list) - 1
      /\ \A i \in 1..(Len(list) - 1) : Front(list)[i] = list[i]
      /\ Last(list) = list[Len(list)] /\ Last(list) \in S
      /\ Front(list) \in Seq(S)
  BY FrontLast, ElementsAtPositions
<1>2. /\ Append(Front(list), Last(list)) \in Seq(S)
      /\ Len(Append(Front(list), Last(list))) = Len(list)
      /\ Append(Front(list), Last(list))[Len(list)] = Last(list)
      /\ \A i \in 1..(Len(list) - 1) : Append(Front(list), Last(list))[i] = Front(list)[i]
  BY <1>1, AppendProperties
<1>3. \A i \in 1..Len(list) : Append(Front(list), Last(list))[i] = list[i]
  BY <1>1, <1>2
<1> QED
  BY <1>2, <1>3, SeqEqual

\* The newest edit is the first to be taken back.
LEMMA ChainShrinks ==
  ASSUME NEW list \in Seq(ActionIds), Len(list) # 0, NEW acts, NEW d, LeadsBack(list, acts, d)
  PROVE  /\ TakesBack(acts[Last(list)], d, acts[Last(list)].before)
         /\ LeadsBack(Front(list), acts, acts[Last(list)].before)
         /\ PastOf(list, acts) = Append(PastOf(Front(list), acts), acts[Last(list)].before)
<1> DEFINE front == Front(list)
           last == Last(list)
<1>1. /\ Len(list) \in Nat \ {0} /\ Len(front) = Len(list) - 1
      /\ \A i \in 1..(Len(list) - 1) : front[i] = list[i]
      /\ last = list[Len(list)] /\ last \in ActionIds
      /\ front \in Seq(ActionIds)
      /\ Append(front, last) = list
  BY FrontLast, FrontAndLast, ElementsAtPositions
<1> HIDE DEF front, last
<1>2. TakesBack(acts[last], d, acts[last].before)
  BY <1>1 DEF LeadsBack
<1>3. LeadsBack(front, acts, acts[last].before)
  <2> SUFFICES ASSUME NEW i \in 1..Len(front)
               PROVE  TakesBack(acts[front[i]],
                                IF i = Len(front) THEN acts[last].before ELSE acts[front[i + 1]].before,
                                acts[front[i]].before)
    BY DEF LeadsBack
  <2>1. /\ i \in 1..Len(list) /\ i # Len(list) /\ front[i] = list[i]
        /\ (IF i = Len(front) THEN acts[last].before ELSE acts[front[i + 1]].before) = acts[list[i + 1]].before
    BY <1>1
  <2> QED
    BY <2>1 DEF LeadsBack
<1>4. PastOf(Append(front, last), acts) = Append(PastOf(front, acts), acts[last].before)
  BY <1>1, <1>2, <1>3, ChainGrows
<1> QED
  BY <1>1, <1>2, <1>3, <1>4 DEF front, last

(* --------------------- the edit that is under way ----------------------- *)

\* The edit under way is the last on the action list, and on no other list.
LEMMA CurrentOwned ==
  ASSUME CoreInv, actions # <<>>
  PROVE  /\ Len(actions) \in {1, 2} /\ Current = actions[Len(actions)]
         /\ Current \in ActionIds /\ Current \in ToSet(actions)
         /\ Current \notin ToSet(undoList) /\ Current \notin ToSet(redoList)
         /\ ToSet(undoList) \subseteq ActionIds /\ ToSet(redoList) \subseteq ActionIds
         /\ act[Current] \in ActionRecords /\ Fits(act[Current]) /\ UnderWay(act[Current])
<1>1. actions \in Seq(ActionIds) /\ Len(actions) \in Nat \ {0} /\ Len(actions) <= 2
  BY EmptySeq DEF CoreInv, ListsTyped, OneUnderWay
<1>2. Current = actions[Len(actions)] /\ Current \in ActionIds
  BY <1>1, FrontLast DEF Current
<1>3. Current \in ToSet(actions)
  BY <1>1, <1>2, ElementsAtPositions
<1>4. Current \notin ToSet(undoList) /\ Current \notin ToSet(redoList)
  BY <1>3 DEF CoreInv, OneUnderWay
<1>5. Len(actions) \in {1, 2}
  <2>1. \A n \in Nat \ {0} : n <= 2 => n \in {1, 2}
    OBVIOUS
  <2> QED
    BY ONLY <1>1, <2>1
<1>6. ToSet(undoList) \subseteq ActionIds /\ ToSet(redoList) \subseteq ActionIds
  BY ElementsAtPositions DEF CoreInv, ListsTyped
<1> QED
  BY <1>2, <1>3, <1>4, <1>5, <1>6 DEF CoreInv, ListsTyped, OneUnderWay

\* A pass executes the edit under way, since the undo or redo before it has finished.
LEMMA AtCurrent ==
  ASSUME CoreInv, NEW a \in ActionIds, At(a), act[a].state # "Finished"
  PROVE  actions # <<>> /\ a = Current /\ idx \in Nat \ {0}
<1>1. idx \in Nat \ {0} /\ idx <= Len(actions) /\ a = actions[idx]
  BY DEF At, CoreInv, ListsTyped
<1>2. actions # <<>>
  BY <1>1
<1>3. Len(actions) = 2 => idx # 1
  BY <1>1 DEF CoreInv, OneUnderWay
<1> QED
  BY <1>1, <1>2, <1>3, CurrentOwned

\* So does the action whose step is executed.
LEMMA RunsCurrent ==
  ASSUME CoreInv, NEW a \in ActionIds, NEW kind, NEW step, Runs(a, kind, step)
  PROVE  /\ actions # <<>> /\ a = Current /\ idx \in Nat \ {0}
         /\ act[a].state = "Executing" /\ act[a].kind = kind /\ act[a].step = step
BY AtCurrent DEF Runs

\* The action stays the edit that it is.
Same(x, y) ==
  /\ y.kind = x.kind /\ y.unit = x.unit /\ y.attribute = x.attribute /\ y.value = x.value
  /\ y.clip = x.clip /\ y.file = x.file /\ y.direction = x.direction

\* A step of the edit under way: nothing moves between the lists.
InPlace ==
  /\ actions # <<>>
  /\ UNCHANGED <<actions, undoList, redoList, emits>>
  /\ idx' \in Nat \ {0}
  /\ act' \in [ActionIds -> ActionRecords]
  /\ \A b \in ActionIds \ {Current} : act'[b] = act[b]
  /\ Same(act[Current], act'[Current])

\* The other actions stay as they are, on the action list as on the others.
LEMMA InPlaceOthers ==
  ASSUME CoreInv, InPlace
  PROVE  /\ Current' = Current /\ actions' # <<>>
         /\ \A a \in ToSet(undoList) \cup ToSet(redoList) : a \in ActionIds /\ act'[a] = act[a]
         /\ Len(actions) = 2 => act'[actions[1]] = act[actions[1]]
<1>1. Len(actions) = 2 => actions[1] \in ActionIds /\ actions[1] # Current
  <2>1. actions \in Seq(ActionIds) /\ Current = actions[Len(actions)] /\ IsInjective(actions)
    BY CurrentOwned DEF InPlace, CoreInv, ListsTyped, OneUnderWay
  <2>2. DOMAIN actions = 1..Len(actions) /\ \A i \in 1..Len(actions) : actions[i] \in ActionIds
    BY <2>1, ElementsAtPositions
  <2> QED
    BY <2>1, <2>2 DEF IsInjective
<1> QED
  BY <1>1, CurrentOwned DEF InPlace, Current

\* What has to be shown of such a step for the core of the invariant.
LEMMA InPlaceCore ==
  ASSUME CoreInv, InPlace, DataTyped', Len(clips) <= Len(clips'),
         act[Current].kind = "SetValue" => act'[Current].old \in Values,
         act[Current].kind = "ModifyClipItem" => act'[Current].old \in ClipRecords,
         act[Current].kind = "LoadAsClip" /\ act'[Current].step \in {3, 4} => act'[Current].item \in 1..Len(clips'),
         UnderWay(act'[Current]),
         TasksUnderWay'
  PROVE  CoreInv'
<1>1. /\ Current' = Current /\ actions' # <<>> /\ Current \in ActionIds
      /\ \A a \in ToSet(undoList) \cup ToSet(redoList) : act'[a] = act[a]
      /\ Len(actions) = 2 => act'[actions[1]] = act[actions[1]]
      /\ Fits(act[Current])
  BY InPlaceOthers, CurrentOwned DEF InPlace
<1>2. ListsTyped'
  BY DEF CoreInv, ListsTyped, InPlace
<1>3. \A i \in ClipIds : i \in ClipIds'
  BY DEF CoreInv, DataTyped, ClipIds
<1>4. Same(act[Current], act'[Current])
  BY DEF InPlace
<1>5. Fits(act[Current])'
  BY <1>1, <1>3, <1>4 DEF Fits, Same, ClipIds
<1>6. UnderWay(act[Current])'
  BY <1>1 DEF UnderWay, Ran, Sent
<1>7. \A a \in ToSet(undoList) \cup ToSet(redoList) : Stored(act[a])'
  BY <1>1, <1>3 DEF CoreInv, OneUnderWay, Stored, Fits
<1>8. OneUnderWay'
  BY <1>1, <1>4, <1>5, <1>6, <1>7 DEF CoreInv, OneUnderWay, InPlace, Same
<1> QED
  BY <1>2, <1>8 DEF CoreInv

\* Where nothing is written and nothing shown, what is shown stays right.
LEMMA ValuesStay ==
  ASSUME CoreInv, InPlace, ValuesShown,
         UNCHANGED <<unit, view, clips, clipViews, asset, assetView>>,
         Ran(act'[Current]) <=> Ran(act[Current]),
         Ran(act[Current]) => act'[Current].old = act[Current].old
  PROVE  ValuesShown'
<1>1. Current' = Current /\ actions' # <<>> /\ actions # <<>>
  BY InPlaceOthers DEF InPlace
<1>2. Same(act[Current], act'[Current])
  BY DEF InPlace
<1>3. \A kind : Unshown(kind)' <=> Unshown(kind)
  BY <1>1, <1>2 DEF Unshown, Same, Ran, Sent
<1>4. Ran(act[Current]) => Aim(act[Current])' = Aim(act[Current])
  BY <1>1, <1>2 DEF Aim, Same
<1> QED
  BY <1>1, <1>2, <1>3, <1>4 DEF ValuesShown, Same, Unshown

\* Where no container and no view changes, and a loading clip stays where it is, a
\* unit plays what it played.
LEMMA ClipsStay ==
  ASSUME CoreInv, InPlace, ClipsPlayed,
         UNCHANGED <<box, inUse, rtBox, shown, torn, removed>>,
         act[Current].kind = "RemoveClip" /\ ~removed =>
           act'[Current].state = "Executing" /\ act'[Current].step = 1,
         act[Current].kind = "LoadAsClip" =>
           /\ Ran(act'[Current]) <=> Ran(act[Current])
           /\ Sent(act'[Current]) \/ Ran(act'[Current]) => Sent(act[Current]) \/ Ran(act[Current])
           /\ act'[Current].container = act[Current].container
           /\ Sent(act'[Current]) \/ Ran(act'[Current]) => act'[Current].item = act[Current].item
  PROVE  ClipsPlayed'
<1>1. /\ Current' = Current /\ actions' # <<>> /\ actions # <<>>
      /\ \A a \in ToSet(undoList) \cup ToSet(redoList) : act'[a] = act[a]
      /\ undoList' = undoList /\ redoList' = redoList
  BY InPlaceOthers DEF InPlace
<1>2. Same(act[Current], act'[Current])
  BY DEF InPlace
<1>3. (Loading' => Loading) /\ (Unshown("LoadAsClip")' <=> Unshown("LoadAsClip"))
  BY <1>1, <1>2 DEF Loading, Unshown, Same, Sent, Ran
<1> SUFFICES ASSUME ~removed, ShownPlayed
             PROVE  ShownPlayed'
  BY DEF ClipsPlayed
<1>4. /\ \A a \in ToSet(undoList) \cup ToSet(redoList) : act[a].kind # "RemoveClip"
      /\ ~torn
      /\ act[Current].kind = "RemoveClip" => act[Current].clip \in ToSet(shown[act[Current].unit])
  BY <1>1 DEF ShownPlayed
<1>5. Loading' => /\ act'[Current].container = act[Current].container
                  /\ act'[Current].item = act[Current].item
  BY <1>1, <1>2 DEF Loading, Same, Sent, Ran
<1>6. \A u : Modifiable(u)' = Modifiable(u)
  BY DEF Modifiable
<1>7. Loading' => LET u == act'[Current].unit
                  IN /\ act'[Current].container = Modifiable(u)
                     /\ box[u][Modifiable(u)] = Append(shown[u], act'[Current].item)
  BY <1>2, <1>3, <1>5 DEF ShownPlayed, Same
<1>8. \A u \in Units :
        IF Unshown("LoadAsClip") /\ act'[Current].unit = u
        THEN rtBox[u] = Modifiable(u)
        ELSE rtBox[u] = 3 - Modifiable(u) /\ box[u][3 - Modifiable(u)] = shown[u]
  BY <1>2 DEF ShownPlayed, Same
<1> QED
  BY <1>1, <1>2, <1>3, <1>4, <1>6, <1>7, <1>8 DEF ShownPlayed, Same

\* As long as an edit is under way the history stays, and what there is to take back.
LEMMA HistoryStays ==
  ASSUME CoreInv, InPlace, HistoryInv, Observe,
         \A c \in 1..Len(clips') : ~clips'[c].muted,
         Heard(act'[Current]),
         act[Current].direction = "Forward" => ForwardUnderWay(act[Current])',
         act[Current].direction = "Backward" =>
           act'[Current].before = act[Current].before /\ BackwardUnderWay(act[Current])'
  PROVE  HistoryInv' /\ UNCHANGED <<restDoc, restPast>>
<1>1. /\ Current' = Current /\ actions' # <<>> /\ actions # <<>> /\ Current \in ActionIds
      /\ \A a \in ToSet(undoList) \cup ToSet(redoList) : act'[a] = act[a]
      /\ undoList' = undoList /\ redoList' = redoList /\ actions' = actions
  BY InPlaceOthers, CurrentOwned DEF InPlace
<1>2. restDoc' = restDoc /\ restPast' = restPast
  BY <1>1 DEF Observe, historyVars
<1>3. act[Current].direction \in {"Forward", "Backward"} /\ act'[Current].direction = act[Current].direction
  BY <1>1, CurrentOwned DEF InPlace, Same, ActionRecords
<1>4. undoList \in Seq(ActionIds)
  BY DEF CoreInv, ListsTyped
<1>5. /\ PastOf(undoList, act') = PastOf(undoList, act)
      /\ \A d : LeadsBack(undoList, act, d) => LeadsBack(undoList, act', d)
  BY <1>1, <1>4, ChainStays
<1>6. \A a \in Owned' : Heard(act'[a])
  <2>1. Owned' = Owned
    BY <1>1 DEF Owned
  <2>2. \A a \in ToSet(actions) : a \in ActionIds
    BY ElementsAtPositions DEF CoreInv, ListsTyped
  <2>3. ASSUME NEW a \in Owned, a # Current
        PROVE  act'[a] = act[a]
    BY <1>1, <2>2, <2>3 DEF Owned, InPlace
  <2> QED
    BY <2>1, <2>3 DEF HistoryInv
<1>7. CASE act[Current].direction = "Forward"
  <2>1. restPast = PastOf(undoList, act) /\ LeadsBack(undoList, act, restDoc)
    BY <1>1, <1>7 DEF HistoryInv
  <2>2. restPast' = PastOf(undoList', act') /\ LeadsBack(undoList', act', restDoc')
    BY <1>1, <1>2, <1>5, <2>1
  <2> QED
    BY <1>1, <1>2, <1>3, <1>6, <1>7, <2>2 DEF HistoryInv, Heard, ClipIds
<1>8. CASE act[Current].direction = "Backward"
  <2>1. /\ restPast = Append(PastOf(undoList, act), act[Current].before)
        /\ LeadsBack(undoList, act, act[Current].before)
    BY <1>1, <1>8 DEF HistoryInv
  <2>2. /\ restPast' = Append(PastOf(undoList', act'), act'[Current'].before)
        /\ LeadsBack(undoList', act', act'[Current'].before)
    BY <1>1, <1>2, <1>5, <1>8, <2>1
  <2> QED
    BY <1>1, <1>2, <1>3, <1>6, <1>8, <2>2 DEF HistoryInv, Heard, ClipIds
<1> QED
  BY <1>2, <1>3, <1>7, <1>8

(* ------------------------- what a step has to keep ----------------------- *)

\* A step keeps each of the three parts; the document at rest stays the same.
Keeps ==
  /\ CoreInv'
  /\ ValuesShown => ValuesShown'
  /\ ClipsPlayed => ClipsPlayed'
  /\ UndoIsComplete /\ HistoryInv /\ Observe => HistoryInv' /\ UNCHANGED <<restDoc, restPast>>

\* Document is a document, and depends on nothing but the values and the clips.
LEMMA DocumentTyped ==
  /\ CoreInv => Document \in Documents
  /\ UNCHANGED <<unit, view, clips>> => Document' = Document
BY DocumentIs, DocumentElements DEF CoreInv, DataTyped

\* A step that changes nothing but how far the edit under way is.
LEMMA QuietKeeps ==
  ASSUME CoreInv, InPlace, UNCHANGED <<valueVars, clipVars, assetVars>>, TasksUnderWay',
         NEW x, x = act[Current], NEW y, y = act'[Current],
         UnderWay(y), y.old = x.old, y.before = x.before, y.container = x.container, y.item = x.item,
         x.state \in {"Executing", "Waiting"},
         x.kind = "LoadAsClip" /\ y.step \in {3, 4} => x.step \in {3, 4},
         Ran(y) <=> Ran(x),
         Sent(y) \/ Ran(y) => Sent(x) \/ Ran(x),
         x.kind = "RemoveClip" => x.state # "Executing" \/ x.step # 1,
         x.kind \in Undoables => (Fresh(y) \/ y.state = "Abort" <=> Fresh(x)) /\ y.state # "Finished"
  PROVE  Keeps
<1>1. /\ Current' = Current /\ actions' # <<>> /\ actions # <<>> /\ Current \in ActionIds
      /\ x \in ActionRecords /\ Fits(x) /\ UnderWay(x)
  BY InPlaceOthers, CurrentOwned DEF InPlace
<1>2. Same(x, y)
  BY DEF InPlace
<1>3. DataTyped' /\ clips' = clips
  BY DEF CoreInv, DataTyped, valueVars, clipVars, assetVars, ClipIds
<1>4. CoreInv'
  <2>1. x.kind = "SetValue" => y.old \in Values
    BY <1>1 DEF Fits
  <2>2. x.kind = "ModifyClipItem" => y.old \in ClipRecords
    BY <1>1 DEF Fits
  <2>3. x.kind = "LoadAsClip" /\ y.step \in {3, 4} => y.item \in 1..Len(clips')
    BY <1>1, <1>3 DEF Fits, ClipIds
  <2>4. Len(clips) <= Len(clips')
    BY <1>3 DEF CoreInv, DataTyped
  <2> QED
    BY <1>3, <2>1, <2>2, <2>3, <2>4, InPlaceCore
<1>5. ValuesShown => ValuesShown'
  BY ValuesStay DEF valueVars, clipVars, assetVars
<1>6. ClipsPlayed => ClipsPlayed'
  <2>1. ASSUME ClipsPlayed, x.kind = "RemoveClip", ~removed
        PROVE  FALSE
    BY <1>1, <2>1 DEF ClipsPlayed, ShownPlayed
  <2> QED
    BY <2>1, ClipsStay DEF clipVars
<1>7. ASSUME HistoryInv, Observe
      PROVE  HistoryInv' /\ UNCHANGED <<restDoc, restPast>>
  <2>1. /\ Document' = Document /\ Document \in Documents
        /\ restDoc' = restDoc
    BY <1>1, <1>7, DocumentTyped DEF Observe, historyVars, valueVars, clipVars
  <2>2. \A c \in 1..Len(clips') : ~clips'[c].muted
    BY <1>3, <1>7 DEF HistoryInv, ClipIds
  <2>3. Heard(y)
    <3>1. Heard(x)
      BY <1>1, <1>7, CurrentOwned DEF HistoryInv, Owned
    <3> QED
      BY <1>2, <3>1 DEF Heard, Same
  <2>4. ASSUME x.direction = "Forward"
        PROVE  ForwardUnderWay(act[Current])'
    <3>1. ForwardUnderWay(x)
      BY <1>1, <1>7, <2>4 DEF HistoryInv
    <3>2. x.state # "Abort"
      OBVIOUS
    <3> QED
      BY <1>1, <1>2, <2>1, <3>1, <3>2 DEF ForwardUnderWay, TakesBack, Same, Fresh
  <2>5. ASSUME x.direction = "Backward"
        PROVE  BackwardUnderWay(act[Current])'
    <3>1. BackwardUnderWay(x)
      BY <1>1, <1>7, <2>5 DEF HistoryInv
    <3>2. x.kind \in Undoables
      BY <1>1, <2>5 DEF UnderWay, Fits, Loads, Replays, ActionRecords, Kinds, Undoables
    <3> QED
      BY <1>1, <1>2, <2>1, <3>1, <3>2 DEF BackwardUnderWay, TakesBack, Same, Ran, Sent
  <2> QED
    BY <1>7, <2>2, <2>3, <2>4, <2>5, HistoryStays
<1> QED
  BY <1>4, <1>5, <1>6, <1>7 DEF Keeps

\* An action that executes has no task in the ring and no request at the file worker.
LEMMA NothingSent ==
  ASSUME CoreInv, actions # <<>>, act[Current].state # "Waiting"
  PROVE  rtTasks = <<>> /\ requests = <<>>
BY DEF CoreInv, TasksUnderWay, Sent

\* The action changes its state and nothing else.
LEMMA StateSet ==
  ASSUME CoreInv, actions # <<>>,
         NEW s \in {"Executing", "Waiting", "Finished", "Abort"}, act' = [act EXCEPT ![Current].state = s]
  PROVE  /\ act' \in [ActionIds -> ActionRecords]
         /\ \A b \in ActionIds \ {Current} : act'[b] = act[b]
         /\ Same(act[Current], act'[Current]) /\ act'[Current].state = s
         /\ act'[Current].step = act[Current].step /\ act'[Current].completed = act[Current].completed
         /\ act'[Current].opened = act[Current].opened
         /\ act'[Current].old = act[Current].old /\ act'[Current].before = act[Current].before
         /\ act'[Current].item = act[Current].item /\ act'[Current].container = act[Current].container
<1> DEFINE a == Current
           x == act[a]
           y == act'[a]
<1>1. a \in ActionIds /\ x \in ActionRecords /\ act \in [ActionIds -> ActionRecords]
  BY CurrentOwned DEF CoreInv, ListsTyped
<1> HIDE DEF a
<1>2. act' = [act EXCEPT ![a] = [x EXCEPT !.state = s]]
  BY DEF a
<1>3. y = [x EXCEPT !.state = s] /\ \A b \in ActionIds \ {a} : act'[b] = act[b]
  BY <1>1, <1>2
<1> HIDE DEF x, y
<1>4. /\ y \in ActionRecords /\ Same(x, y) /\ y.state = s
      /\ y.step = x.step /\ y.completed = x.completed /\ y.opened = x.opened /\ y.old = x.old
      /\ y.before = x.before /\ y.item = x.item /\ y.container = x.container
  BY <1>1, <1>3 DEF ActionRecords, Same
<1>5. act' \in [ActionIds -> ActionRecords]
  BY <1>1, <1>2, <1>4 DEF x, y
<1> QED
  BY <1>3, <1>4, <1>5 DEF a, x, y

\* A task is sent for the edit under way, which notes what it will replace and the
\* document it has found, if it goes forward.
LEMMA SendRemembers ==
  ASSUME CoreInv, actions # <<>>, act[Current].state = "Executing",
         NEW o \in Values \cup ClipRecords, SendTask(Current, Remember(Current, o))
  PROVE  /\ act' \in [ActionIds -> ActionRecords]
         /\ \A b \in ActionIds \ {Current} : act'[b] = act[b]
         /\ Same(act[Current], act'[Current])
         /\ act'[Current].state = "Waiting" /\ ~act'[Current].completed
         /\ act'[Current].step = act[Current].step /\ act'[Current].item = act[Current].item
         /\ act'[Current].old = IF act[Current].direction = "Forward" THEN o ELSE act[Current].old
         /\ act'[Current].before = IF act[Current].direction = "Forward" THEN Document ELSE act[Current].before
         /\ rtTasks' = <<Current>> /\ requests' = <<>>
<1> DEFINE a == Current
           x == act[a]
           y == act'[a]
<1>1. /\ a \in ActionIds /\ x \in ActionRecords /\ act \in [ActionIds -> ActionRecords]
      /\ rtTasks = <<>> /\ requests = <<>> /\ Document \in Documents
  BY CurrentOwned, NothingSent, DocumentTyped DEF CoreInv, ListsTyped
<1>2. /\ act' = [Remember(a, o) EXCEPT ![a].state = "Waiting", ![a].completed = FALSE]
      /\ rtTasks' = Append(rtTasks, a) /\ requests' = requests
  BY DEF SendTask
<1> HIDE DEF a
<1>3. CASE x.direction = "Forward"
  <2>1. act' = [act EXCEPT ![a] = [x EXCEPT !.old = o, !.before = Document, !.state = "Waiting", !.completed = FALSE]]
    BY <1>1, <1>2, <1>3 DEF Remember, Forward
  <2>2. /\ y = [x EXCEPT !.old = o, !.before = Document, !.state = "Waiting", !.completed = FALSE]
        /\ \A b \in ActionIds \ {a} : act'[b] = act[b]
    BY <1>1, <2>1
  <2> HIDE DEF x, y
  <2>3. /\ y \in ActionRecords /\ Same(x, y) /\ y.state = "Waiting" /\ ~y.completed /\ y.step = x.step
        /\ y.item = x.item /\ y.old = o /\ y.before = Document
    BY <1>1, <2>2 DEF ActionRecords, Same
  <2>4. act' \in [ActionIds -> ActionRecords]
    BY <1>1, <2>1, <2>3 DEF x, y
  <2> QED
    BY <1>1, <1>2, <1>3, <2>2, <2>3, <2>4 DEF a, x, y
<1>4. CASE x.direction # "Forward"
  <2>1. act' = [act EXCEPT ![a] = [x EXCEPT !.state = "Waiting", !.completed = FALSE]]
    BY <1>1, <1>2, <1>4 DEF Remember, Forward
  <2>2. /\ y = [x EXCEPT !.state = "Waiting", !.completed = FALSE]
        /\ \A b \in ActionIds \ {a} : act'[b] = act[b]
    BY <1>1, <2>1
  <2> HIDE DEF x, y
  <2>3. /\ y \in ActionRecords /\ Same(x, y) /\ y.state = "Waiting" /\ ~y.completed /\ y.step = x.step
        /\ y.item = x.item /\ y.old = x.old /\ y.before = x.before
    BY <1>1, <2>2 DEF ActionRecords, Same
  <2>4. act' \in [ActionIds -> ActionRecords]
    BY <1>1, <2>1, <2>3 DEF x, y
  <2> QED
    BY <1>1, <1>2, <1>4, <2>2, <2>3, <2>4 DEF a, x, y
<1> QED
  BY <1>3, <1>4

(* --------------------------- values of a unit ---------------------------- *)

\* A value of a unit that is gone is not set.
LEMMA AbortValueKeeps ==
  ASSUME CoreInv, NEW a \in ActionIds, Runs(a, "SetValue", 1), act[a].unit \notin Units,
         Abort(a), NextAction, UNCHANGED <<valueVars, clipVars, assetVars>>
  PROVE  InPlace /\ Keeps
<1> DEFINE x == act[a]
           y == act'[a]
<1>1. /\ actions # <<>> /\ a = Current /\ idx \in Nat \ {0}
      /\ x.state = "Executing" /\ x.kind = "SetValue" /\ x.step = 1
  BY RunsCurrent
<1>2. /\ x \in ActionRecords /\ Fits(x) /\ UnderWay(x) /\ rtTasks = <<>> /\ requests = <<>>
  BY <1>1, CurrentOwned, NothingSent
<1>3. /\ act' \in [ActionIds -> ActionRecords] /\ \A b \in ActionIds \ {a} : act'[b] = act[b]
      /\ Same(x, y) /\ y.state = "Abort" /\ y.step = 1
      /\ y.old = x.old /\ y.before = x.before /\ y.container = x.container /\ y.item = x.item
  BY <1>1, StateSet DEF Abort
<1>4. InPlace
  BY <1>1, <1>3 DEF InPlace, NextAction
<1>5. x.direction = "Forward"
  BY <1>1, <1>2 DEF UnderWay, ActionRecords
<1>6. ~Sent(y) /\ ~Ran(y) /\ ~Ran(x) /\ ~Sent(x) /\ Fresh(x) /\ ~Fresh(y)
  BY <1>1, <1>3 DEF Ran, Sent, SendStep, Fresh
<1>7. UnderWay(y)
  BY <1>1, <1>2, <1>3, <1>5, <1>6 DEF UnderWay, Same, SendStep, Loads, Replays
<1>8. TasksUnderWay'
  BY <1>1, <1>2, <1>4, <1>6, InPlaceOthers DEF TasksUnderWay, Abort, queueVars, Sent
<1> HIDE DEF x, y
<1>9. x = act[Current] /\ y = act'[Current]
  BY <1>1 DEF x, y
<1>10. Keeps
  BY <1>1, <1>3, <1>4, <1>6, <1>7, <1>8, <1>9, QuietKeeps DEF Undoables
<1> QED
  BY <1>4, <1>10

\* The value to be replaced is noted and the task is sent.
LEMMA SendValueKeeps ==
  ASSUME CoreInv, NEW a \in ActionIds, NEW t \in RtAttributes, SendValue(a, t)
  PROVE  InPlace /\ Keeps
<1> DEFINE x == act[a]
           y == act'[a]
           u == x.unit
<1>1. /\ actions # <<>> /\ a = Current /\ idx \in Nat \ {0}
      /\ x.state = "Executing" /\ x.kind = "SetValue" /\ x.step = 1 /\ x.attribute = t
  BY RunsCurrent DEF SendValue
<1>2. /\ x \in ActionRecords /\ Fits(x) /\ UnderWay(x)
      /\ rtTasks = <<>> /\ requests = <<>>
      /\ act \in [ActionIds -> ActionRecords]
  BY <1>1, CurrentOwned, NothingSent DEF CoreInv, ListsTyped
<1>3. /\ UNCHANGED <<actions, undoList, redoList, emits, valueVars, clipVars, assetVars>> /\ idx' = idx + 1
  BY DEF SendValue, NextAction
<1>4. CASE u \notin Units
  <2>1. Abort(a)
    BY <1>4 DEF SendValue
  <2> QED
    BY <1>3, <1>4, <2>1, AbortValueKeeps DEF SendValue
<1>5. CASE u \in Units
  <2> DEFINE o == unit[u][t]
  <2>0. o \in Values /\ Document \in Documents
    BY <1>5, DocumentTyped DEF CoreInv, DataTyped, UnitValues
  <2>1. SendTask(a, Remember(a, o))
    BY <1>5 DEF SendValue
  <2>4. /\ act' \in [ActionIds -> ActionRecords] /\ \A b \in ActionIds \ {a} : act'[b] = act[b]
        /\ Same(x, y) /\ y.state = "Waiting" /\ ~y.completed /\ y.step = 1
        /\ y.old = IF x.direction = "Forward" THEN o ELSE x.old
        /\ y.before = IF x.direction = "Forward" THEN Document ELSE x.before
        /\ rtTasks' = <<a>> /\ requests' = <<>>
    BY <1>1, <2>0, <2>1, SendRemembers
  <2>5. y.old \in Values
    BY <1>1, <1>2, <2>0, <2>4 DEF Fits
  <2>6. InPlace
    BY <1>1, <1>3, <2>4 DEF InPlace
  <2> HIDE DEF y, o
  <2>7. Sent(y) /\ ~Ran(y) /\ ~Ran(x) /\ ~Sent(x)
    BY <1>1, <2>4 DEF Ran, Sent, SendStep, Same
  <2>8. UnderWay(y)
    BY <1>1, <1>2, <1>5, <2>4, <2>7 DEF UnderWay, Same, SendStep, Loads, Replays, RtAttributes, ViewAttributes
  <2>9. Current' = Current /\ actions' # <<>> /\ y = act'[Current']
    BY <1>1, <2>6, InPlaceOthers DEF y
  <2>10. TasksUnderWay'
    BY <1>1, <2>4, <2>7, <2>9 DEF TasksUnderWay, Sent
  <2>11. CoreInv'
    <3>1. DataTyped' /\ Len(clips) <= Len(clips')
      BY <1>3 DEF CoreInv, DataTyped, valueVars, clipVars, assetVars, ClipIds
    <3> QED
      BY <1>1, <2>5, <2>6, <2>8, <2>9, <2>10, <3>1, InPlaceCore DEF y
  <2>12. ValuesShown => ValuesShown'
    BY <1>1, <1>3, <2>6, <2>7, <2>9, ValuesStay DEF valueVars, clipVars, assetVars
  <2>13. ClipsPlayed => ClipsPlayed'
    BY <1>1, <1>3, <2>6, <2>7, <2>9, ClipsStay DEF clipVars
  <2>14. ASSUME HistoryInv, Observe
         PROVE  HistoryInv' /\ UNCHANGED <<restDoc, restPast>>
    <3>1. Document' = Document /\ restDoc' = restDoc
      BY <1>3, <2>9, <2>14, DocumentTyped DEF Observe, historyVars, valueVars, clipVars
    <3>2. (\A c \in 1..Len(clips') : ~clips'[c].muted) /\ Heard(y)
      BY <1>1, <1>3, <2>4, <2>14 DEF HistoryInv, ClipIds, Heard, Same, clipVars
    <3>3. ASSUME x.direction = "Forward"
          PROVE  ForwardUnderWay(act[Current])'
      <4>1. Document = restDoc
        BY <1>1, <2>14, <3>3 DEF HistoryInv, ForwardUnderWay, Fresh
      <4>2. With(Document, u, t, o) = Document
        <5>1. t \in Reverted => Document.values[u][t] = o
          BY <1>5 DEF Document, o
        <5> QED
          BY <1>5, <2>0, <5>1, WithSame
      <4>3. TakesBack(y, Document, restDoc)
        BY <1>1, <2>0, <2>4, <3>3, <4>1, <4>2 DEF TakesBack, Same
      <4> QED
        BY <1>1, <2>4, <2>9, <3>1, <3>3, <4>1, <4>3 DEF ForwardUnderWay, Fresh, TakesBack
    <3>4. ASSUME x.direction = "Backward"
          PROVE  BackwardUnderWay(act[Current])' /\ y.before = x.before
      <4>1. BackwardUnderWay(x)
        BY <1>1, <2>14, <3>4 DEF HistoryInv
      <4> QED
        BY <1>1, <2>4, <2>7, <2>9, <3>1, <3>4, <4>1 DEF BackwardUnderWay, TakesBack, Same, Ran, Sent
    <3> QED
      BY <1>1, <2>6, <2>9, <2>14, <3>2, <3>3, <3>4, HistoryStays
  <2> QED
    BY <2>6, <2>11, <2>12, <2>13, <2>14 DEF Keeps
<1> QED
  BY <1>4, <1>5

\* What remains to be shown of the history when a task was sent.
LEMMA SentHistory ==
  ASSUME CoreInv, InPlace, HistoryInv, Observe, clips' = clips, Document' = Document,
         act[Current].kind \in Undoables, Fresh(act[Current]),
         Sent(act'[Current]), ~act'[Current].completed, Heard(act'[Current]),
         act'[Current].before = IF act[Current].direction = "Forward" THEN Document ELSE act[Current].before,
         act[Current].direction = "Forward" => TakesBack(act'[Current], Document, Document),
         act[Current].direction = "Backward" => act'[Current].old = act[Current].old
  PROVE  HistoryInv' /\ UNCHANGED <<restDoc, restPast>>
<1> DEFINE x == act[Current]
           y == act'[Current]
<1>1. /\ Current' = Current /\ actions' # <<>> /\ actions # <<>> /\ restDoc' = restDoc /\ Same(x, y)
  BY InPlaceOthers DEF InPlace, Observe, historyVars
<1>2. \A c \in 1..Len(clips') : ~clips'[c].muted
  BY DEF HistoryInv, ClipIds
<1>3. /\ y.state = "Waiting" /\ y.kind \in Undoables /\ ~Ran(y) /\ ~Ran(x) /\ x.state = "Executing"
  BY <1>1 DEF Sent, Ran, Same, Fresh, SendStep, Undoables
<1>4. ASSUME x.direction = "Forward"
      PROVE  ForwardUnderWay(act[Current])'
  <2>1. Document = restDoc
    BY <1>1, <1>4 DEF HistoryInv, ForwardUnderWay
  <2>2. y.before = restDoc /\ TakesBack(y, Document', restDoc)
    BY <1>4, <2>1
  <2> QED
    BY <1>1, <1>3, <2>2 DEF ForwardUnderWay, Fresh, TakesBack
<1>5. ASSUME x.direction = "Backward"
      PROVE  BackwardUnderWay(act[Current])' /\ y.before = x.before
  <2>1. BackwardUnderWay(x)
    BY <1>1, <1>5 DEF HistoryInv
  <2>2. y.before = x.before /\ y.old = x.old
    BY <1>5
  <2>3. Document = restDoc
    BY <1>3, <2>1 DEF BackwardUnderWay
  <2> QED
    BY <1>1, <1>3, <2>1, <2>2, <2>3 DEF BackwardUnderWay, TakesBack, Same, Ran, Sent
<1> QED
  BY <1>2, <1>4, <1>5, HistoryStays

\* The last step of an edit, which shows what the task has done.
LEMMA FinishKeeps ==
  ASSUME CoreInv, actions # <<>>, act[Current].state = "Executing",
         act[Current].step = SendStep(act[Current].kind) + 1,
         Finish(Current), NextAction, DataTyped', clips' = clips, Document' = Document
  PROVE  /\ InPlace /\ CoreInv'
         /\ Ran(act[Current]) /\ ~Ran(act'[Current]) /\ ~Sent(act'[Current])
         /\ act'[Current].state = "Finished"
         /\ HistoryInv /\ Observe => HistoryInv' /\ UNCHANGED <<restDoc, restPast>>
<1> DEFINE a == Current
           x == act[a]
           y == act'[a]
<1>1. /\ a \in ActionIds /\ x \in ActionRecords /\ Fits(x) /\ UnderWay(x) /\ idx \in Nat \ {0}
      /\ rtTasks = <<>> /\ requests = <<>>
  BY CurrentOwned, NothingSent DEF CoreInv, ListsTyped
<1>2. /\ act' \in [ActionIds -> ActionRecords] /\ \A b \in ActionIds \ {a} : act'[b] = act[b]
      /\ Same(x, y) /\ y.state = "Finished" /\ y.step = x.step /\ y.old = x.old /\ y.before = x.before
      /\ y.item = x.item
  BY StateSet DEF Finish
<1>3. InPlace
  BY <1>1, <1>2 DEF InPlace, NextAction
<1>4. Ran(x) /\ ~Ran(y) /\ ~Sent(y)
  BY <1>2 DEF Ran, Sent
<1>5. Current' = a /\ actions' # <<>>
  BY <1>3, InPlaceOthers
<1> HIDE DEF y
<1>6. UnderWay(y)
  BY <1>1, <1>2, <1>4 DEF UnderWay, Same, SendStep, Loads, Replays
<1>7. TasksUnderWay'
  BY <1>1, <1>2, <1>4, <1>5 DEF TasksUnderWay, Finish, queueVars, y, Sent
<1>8. CoreInv'
  <2>1. x.kind = "SetValue" => y.old \in Values
    BY <1>1, <1>2 DEF Fits
  <2>2. x.kind = "ModifyClipItem" => y.old \in ClipRecords
    BY <1>1, <1>2 DEF Fits
  <2>3. x.kind = "LoadAsClip" /\ y.step \in {3, 4} => y.item \in 1..Len(clips')
    BY <1>1, <1>2 DEF Fits, ClipIds
  <2>4. Len(clips) <= Len(clips')
    BY DEF CoreInv, DataTyped
  <2> QED
    BY <1>3, <1>6, <1>7, <2>1, <2>2, <2>3, <2>4, InPlaceCore DEF y
<1>9. ASSUME HistoryInv, Observe
      PROVE  HistoryInv' /\ UNCHANGED <<restDoc, restPast>>
  <2>1. restDoc' = restDoc
    BY <1>5, <1>9 DEF Observe, historyVars
  <2>2. (\A c \in 1..Len(clips') : ~clips'[c].muted) /\ Heard(y)
    <3>1. Heard(x)
      BY <1>9, CurrentOwned DEF HistoryInv, Owned
    <3> QED
      BY <1>2, <1>9, <3>1 DEF HistoryInv, ClipIds, Heard, Same
  <2>3. ASSUME x.direction = "Forward"
        PROVE  ForwardUnderWay(act[Current])'
    <3>1. ForwardUnderWay(x)
      BY <1>9, <2>3 DEF HistoryInv
    <3>2. x.kind \in Undoables => ~Fresh(x) /\ ~Fresh(y) /\ x.state # "Abort" /\ y.state # "Abort"
      BY <1>2 DEF Fresh, SendStep, Undoables
    <3> QED
      BY <1>2, <1>5, <2>1, <3>1, <3>2 DEF ForwardUnderWay, TakesBack, Same, y
  <2>4. ASSUME x.direction = "Backward"
        PROVE  BackwardUnderWay(act[Current])' /\ y.before = x.before
    <3>1. BackwardUnderWay(x)
      BY <1>9, <2>4 DEF HistoryInv
    <3> QED
      BY <1>2, <1>4, <1>5, <2>1, <3>1 DEF BackwardUnderWay, TakesBack, Same, y
  <2> QED
    BY <1>3, <1>9, <2>2, <2>3, <2>4, HistoryStays DEF y
<1> QED
  BY <1>2, <1>3, <1>4, <1>8, <1>9 DEF y

\* The snapshot is given what the task has set.
LEMMA ShowValueKeeps ==
  ASSUME CoreInv, NEW a \in ActionIds, NEW t \in RtAttributes, ShowValue(a, t)
  PROVE  InPlace /\ Keeps
<1> DEFINE x == act[a]
           u == x.unit
<1>1. /\ actions # <<>> /\ a = Current
      /\ x.state = "Executing" /\ x.kind = "SetValue" /\ x.step = 2 /\ x.attribute = t
      /\ Finish(a) /\ NextAction
      /\ view' = [view EXCEPT ![u][t] = Target(a)]
      /\ UNCHANGED <<unit, clipVars, assetVars>>
  BY RunsCurrent DEF ShowValue
<1>2. x \in ActionRecords /\ Fits(x) /\ UnderWay(x)
  BY <1>1, CurrentOwned
<1>3. u \in Units /\ Target(a) \in Values /\ t \in AllAttributes /\ Target(a) = Aim(x)
  BY <1>1, <1>2 DEF UnderWay, Fits, Ran, SendStep, Target, Aim, Forward, AllAttributes
<1>4. view' \in ViewValues /\ view \in ViewValues
  BY <1>1, <1>3 DEF CoreInv, DataTyped, ViewValues
<1>5. DataTyped'
  BY <1>1, <1>4 DEF CoreInv, DataTyped, clipVars, assetVars, ClipIds
<1>6. Document' = Document
  <2>1. unit \in UnitValues /\ clips \in Seq(ClipRecords)
    BY DEF CoreInv, DataTyped
  <2>2. DocumentOf(unit, view', clips) = DocumentOf(unit, view, clips)
    <3>1. Sets(view, view', u, t, Target(a))
      BY <1>1 DEF Sets
    <3> QED
      BY <1>3, <1>4, <2>1, <3>1, ViewSet
  <2> QED
    BY <1>1, <2>2, DocumentIs DEF clipVars
<1>7. /\ InPlace /\ CoreInv' /\ Ran(x) /\ ~Ran(act'[a]) /\ ~Sent(act'[a]) /\ act'[a].state = "Finished"
      /\ HistoryInv /\ Observe => HistoryInv' /\ UNCHANGED <<restDoc, restPast>>
  BY <1>1, <1>5, <1>6, FinishKeeps DEF SendStep, clipVars
<1>8. Current' = a /\ actions' # <<>> /\ act'[a].kind = "SetValue"
  BY <1>1, <1>7, InPlaceOthers DEF InPlace, Same
<1>9. ASSUME ValuesShown
      PROVE  ValuesShown'
  <2>1. \A kind : ~Unshown(kind)'
    BY <1>7, <1>8 DEF Unshown, Ran, Sent
  <2>2. unit[u][t] = Target(a)
    BY <1>1, <1>3, <1>7, <1>9 DEF ValuesShown, Unshown
  <2>3. \A w \in Units, s \in RtAttributes : view'[w][s] = unit'[w][s]
    <3> SUFFICES ASSUME NEW w \in Units, NEW s \in RtAttributes
                 PROVE  view'[w][s] = unit[w][s]
      BY <1>1
    <3>1. CASE w = u /\ s = t
      BY <1>1, <1>3, <1>4, <2>2, <3>1 DEF ViewValues
    <3>2. CASE ~(w = u /\ s = t)
      <4>1. view'[w][s] = view[w][s]
        BY <1>1, <1>3, <1>4, <3>2 DEF ViewValues, AllAttributes
      <4> QED
        BY <1>1, <1>9, <3>2, <4>1 DEF ValuesShown
    <3> QED
      BY <3>1, <3>2
  <2>4. \A c \in DOMAIN clipViews : clipViews[c].start = clips[c].start
    BY <1>1, <1>9 DEF ValuesShown, Unshown
  <2>5. \A w \in Units : assetView[w] = asset[w]
    BY <1>1, <1>9 DEF ValuesShown, Unshown
  <2> QED
    BY <1>1, <2>1, <2>3, <2>4, <2>5 DEF ValuesShown, clipVars, assetVars
<1>10. ClipsPlayed => ClipsPlayed'
  BY <1>1, <1>7, ClipsStay DEF clipVars
<1> QED
  BY <1>7, <1>9, <1>10 DEF Keeps

\* The three attributes of the real-time thread.
LEMMA RtValueKeeps ==
  ASSUME CoreInv, NEW a \in ActionIds, SetParameter(a) \/ ToggleMidiThru(a) \/ ToggleOmniHwInput(a)
  PROVE  InPlace /\ Keeps
<1>1. {"parameter", "midiThru", "omniHwInput"} \subseteq RtAttributes
  BY DEF RtAttributes
<1> QED
  BY <1>1, SendValueKeeps, ShowValueKeeps DEF SetParameter, ToggleMidiThru, ToggleOmniHwInput

\* Name and colour are set in the snapshot at once: the colour that Aim says, and the
\* new name whatever the direction.
LEMMA SetViewValueKeeps ==
  ASSUME CoreInv, NEW a \in ActionIds, NEW t \in ViewAttributes, NEW v, SetViewValue(a, t, v),
         v \in Values, UndoIsComplete => t \notin Reverted \/ v = Aim(act[a])
  PROVE  InPlace /\ Keeps
<1> DEFINE x == act[a]
           y == act'[a]
           u == x.unit
           o == view[u][t]
<1>1. /\ actions # <<>> /\ a = Current /\ idx \in Nat \ {0}
      /\ x.state = "Executing" /\ x.kind = "SetValue" /\ x.step = 1 /\ x.attribute = t
  BY RunsCurrent DEF SetViewValue
<1>2. /\ x \in ActionRecords /\ Fits(x) /\ UnderWay(x) /\ rtTasks = <<>> /\ requests = <<>>
      /\ act \in [ActionIds -> ActionRecords] /\ Document \in Documents
  BY <1>1, CurrentOwned, NothingSent, DocumentTyped DEF CoreInv, ListsTyped
<1>3. /\ NextAction /\ UNCHANGED <<unit, clipVars, assetVars>>
      /\ t \in AllAttributes /\ t \notin RtAttributes
  BY DEF SetViewValue, AllAttributes, ViewAttributes, RtAttributes
<1>4. CASE u \notin Units
  <2>1. Abort(a) /\ UNCHANGED view
    BY <1>4 DEF SetViewValue
  <2> QED
    BY <1>3, <1>4, <2>1, AbortValueKeeps DEF SetViewValue, valueVars
<1>5. CASE u \in Units
  <2>1. /\ act' = [Remember(a, o) EXCEPT ![a].state = "Finished"] /\ UNCHANGED queueVars
        /\ view' = [view EXCEPT ![u][t] = v]
    BY <1>5 DEF SetViewValue
  <2>2. /\ o \in Values /\ view \in ViewValues /\ unit \in UnitValues /\ clips \in Seq(ClipRecords)
        /\ Sets(view, view', u, t, v)
    BY <1>3, <1>5, <2>1 DEF CoreInv, DataTyped, ViewValues, Sets
  <2> HIDE DEF u, o
  <2>3. y = IF x.direction = "Forward"
            THEN [x EXCEPT !.old = o, !.before = Document, !.state = "Finished"]
            ELSE [x EXCEPT !.state = "Finished"]
    BY <1>2, <2>1 DEF Remember, Forward
  <2>4. \A b \in ActionIds \ {a} : act'[b] = act[b]
    BY <1>2, <2>1 DEF Remember
  <2> HIDE DEF x, y
  <2>5. /\ y \in ActionRecords /\ Same(x, y) /\ y.state = "Finished" /\ y.step = 1 /\ y.item = x.item
        /\ y.container = x.container
        /\ y.old = IF x.direction = "Forward" THEN o ELSE x.old
        /\ y.before = IF x.direction = "Forward" THEN Document ELSE x.before
    <3>1. CASE x.direction = "Forward"
      BY <1>1, <1>2, <2>2, <2>3, <3>1 DEF ActionRecords, Same
    <3>2. CASE x.direction # "Forward"
      BY <1>1, <1>2, <2>2, <2>3, <3>2 DEF ActionRecords, Same
    <3> QED
      BY <3>1, <3>2
  <2>6. act' \in [ActionIds -> ActionRecords]
    BY <1>2, <2>1, <2>5 DEF Remember, y
  <2>7. InPlace
    BY <1>1, <1>3, <2>4, <2>5, <2>6 DEF InPlace, NextAction, x, y
  <2>8. Current' = Current /\ actions' # <<>> /\ y = act'[Current']
    BY <1>1, <2>7, InPlaceOthers DEF y
  <2>9. ~Sent(y) /\ ~Ran(y) /\ ~Ran(x) /\ ~Sent(x)
    BY <1>1, <2>5 DEF Ran, Sent, SendStep
  <2>10. UnderWay(y)
    BY <1>1, <1>2, <1>5, <2>5, <2>9 DEF UnderWay, Same, SendStep, Loads, Replays, u
  <2>11. TasksUnderWay'
    BY <1>1, <1>2, <2>1, <2>8, <2>9 DEF TasksUnderWay, queueVars, Sent, x, y
  <2>12. view' \in ViewValues
    BY <1>3, <1>5, <2>2, ViewSet
  <2>13. CoreInv'
    <3>1. DataTyped' /\ Len(clips) <= Len(clips')
      BY <1>3, <2>12 DEF CoreInv, DataTyped, clipVars, assetVars, ClipIds
    <3>2. y.old \in Values
      BY <1>1, <1>2, <2>2, <2>5 DEF Fits, ActionRecords
    <3> QED
      BY <1>1, <2>7, <2>10, <2>11, <3>1, <3>2, InPlaceCore DEF x, y
  <2>14. ASSUME ValuesShown
         PROVE  ValuesShown'
    <3>1. \A kind : ~Unshown(kind)' /\ ~Unshown(kind)
      BY <1>1, <2>8, <2>9 DEF Unshown, Ran, Sent, x, y
    <3>2. \A w \in Units, s \in RtAttributes : view'[w][s] = view[w][s]
      BY <1>3, <1>5, <2>1, <2>2 DEF ViewValues, AllAttributes
    <3> QED
      BY <1>3, <2>14, <3>1, <3>2 DEF ValuesShown, clipVars, assetVars
  <2>15. ClipsPlayed => ClipsPlayed'
    BY <1>1, <1>3, <2>7, <2>9, <2>8, ClipsStay DEF clipVars, x, y
  <2>16. ASSUME UndoIsComplete, HistoryInv, Observe
         PROVE  HistoryInv' /\ UNCHANGED <<restDoc, restPast>>
    <3>1. restDoc' = restDoc /\ clips' = clips
      BY <1>3, <2>8, <2>16 DEF Observe, historyVars, clipVars
    <3>2. (\A c \in 1..Len(clips') : ~clips'[c].muted) /\ Heard(y)
      BY <1>1, <2>5, <2>16, <3>1 DEF HistoryInv, ClipIds, Heard, Same
    <3>3. Document' = With(Document, u, t, v)
      <4>1. DocumentOf(unit, view', clips) = With(DocumentOf(unit, view, clips), u, t, v)
        BY <1>3, <1>5, <2>2, ViewSet
      <4> QED
        BY <1>3, <3>1, <4>1, DocumentIs
    <3>4. ASSUME x.direction = "Forward"
          PROVE  ForwardUnderWay(act[Current])'
      <4>1. Document = restDoc
        BY <1>1, <2>16, <3>4 DEF HistoryInv, ForwardUnderWay, Fresh, x
      <4>2. With(Document, u, t, o) = Document
        <5>1. t \in Reverted => Document.values[u][t] = o
          BY <1>3, <1>5 DEF Document, o
        <5> QED
          BY <1>2, <1>5, <2>2, <5>1, WithSame
      <4>3. With(With(Document, u, t, v), u, t, o) = With(Document, u, t, o)
        BY <1>2, <1>5, <2>2, WithTwice
      <4>4. TakesBack(y, Document', restDoc)
        BY <1>1, <1>2, <2>5, <3>3, <3>4, <4>1, <4>2, <4>3 DEF TakesBack, Same, u
      <4> QED
        BY <1>1, <2>5, <2>8, <3>1, <3>4, <4>1, <4>4 DEF ForwardUnderWay, Fresh, TakesBack, Undoables, Same
    <3>5. ASSUME x.direction = "Backward"
          PROVE  BackwardUnderWay(act[Current])' /\ y.before = x.before
      <4>1. BackwardUnderWay(x)
        BY <1>1, <2>16, <3>5 DEF HistoryInv, x
      <4>2. Document = restDoc /\ TakesBack(x, restDoc, x.before)
        BY <1>1, <2>9, <4>1 DEF BackwardUnderWay
      <4>3. y.before = x.before /\ y.old = x.old
        BY <2>5, <3>5
      <4>4. With(restDoc, u, t, v) = x.before
        <5>1. x.before = With(restDoc, u, t, x.old) /\ x.old \in Values
          BY <1>1, <1>2, <4>2 DEF TakesBack, Fits, u
        <5>2. CASE t \in Reverted
          <6>1. v = x.old
            BY <2>16, <3>5, <5>2 DEF Aim, x
          <6> QED
            BY <5>1, <6>1
        <5>3. CASE t \notin Reverted
          <6>1. With(Document, u, t, v) = Document /\ With(Document, u, t, x.old) = Document
            BY <1>2, <1>5, <5>1, <5>3, WithSame
          <6> QED
            BY <4>2, <5>1, <6>1
        <5> QED
          BY <5>2, <5>3
      <4> QED
        BY <2>5, <2>8, <3>1, <3>3, <4>2, <4>3, <4>4 DEF BackwardUnderWay, TakesBack, Same
    <3> QED
      BY <1>1, <2>7, <2>8, <2>16, <3>1, <3>2, <3>4, <3>5, HistoryStays DEF x
  <2> QED
    BY <2>7, <2>13, <2>14, <2>15, <2>16 DEF Keeps
<1> QED
  BY <1>4, <1>5

\* The name is set to its value in both directions, the colour to what the direction asks.
LEMMA ViewValueKeeps ==
  ASSUME CoreInv, NEW a \in ActionIds, SetName(a) \/ SetColor(a)
  PROVE  InPlace /\ Keeps
<1> DEFINE x == act[a]
<1>1. ASSUME NEW t, NEW v, SetViewValue(a, t, v)
      PROVE  /\ x.kind = "SetValue" /\ x.attribute = t /\ x.value \in Values /\ Target(a) \in Values
             /\ Target(a) = Aim(x)
  <2>1. x.kind = "SetValue" /\ x.attribute = t /\ Fits(x)
    BY <1>1, RunsCurrent, CurrentOwned DEF SetViewValue
  <2> QED
    BY <2>1 DEF Fits, Target, Aim, Forward
<1>2. CASE SetName(a)
  BY <1>1, <1>2, SetViewValueKeeps DEF SetName, ViewAttributes, UndoIsComplete
<1>3. CASE SetColor(a)
  BY <1>1, <1>3, SetViewValueKeeps DEF SetColor, ViewAttributes
<1> QED
  BY <1>2, <1>3

(* ------------------------------- clip edits ------------------------------ *)

\* What remains to be shown of the core when a task was sent.
LEMMA SentCore ==
  ASSUME CoreInv, InPlace, DataTyped', clips' = clips,
         act[Current].state = "Executing", act[Current].step = SendStep(act[Current].kind),
         act[Current].kind \notin Replays,
         act[Current].kind \in {"SetValue"} \cup Loads => act[Current].unit \in Units,
         act[Current].kind = "SetValue" => act[Current].attribute \notin ViewAttributes,
         act'[Current].state = "Waiting", ~act'[Current].completed,
         act'[Current].step = act[Current].step, act'[Current].item = act[Current].item,
         act[Current].kind = "SetValue" => act'[Current].old \in Values,
         act[Current].kind = "ModifyClipItem" => act'[Current].old \in ClipRecords,
         rtTasks' = <<Current>>, requests' = <<>>
  PROVE  /\ CoreInv' /\ Sent(act'[Current])
         /\ ~Ran(act'[Current]) /\ ~Ran(act[Current]) /\ ~Sent(act[Current])
<1> DEFINE x == act[Current]
           y == act'[Current]
<1>1. /\ actions # <<>> /\ x \in ActionRecords /\ Fits(x) /\ UnderWay(x)
      /\ Current' = Current /\ actions' # <<>> /\ Same(x, y)
  BY CurrentOwned, InPlaceOthers DEF InPlace
<1>2. Sent(y) /\ ~Ran(y) /\ ~Ran(x) /\ ~Sent(x)
  <2>1. SendStep(x.kind) \in Nat
    BY DEF SendStep
  <2> QED
    BY <1>1, <2>1 DEF Ran, Sent, Same
<1>3. UnderWay(y)
  BY <1>1, <1>2 DEF UnderWay, Same, Sent, SendStep
<1>4. TasksUnderWay'
  BY <1>1, <1>2 DEF TasksUnderWay, Sent
<1>5. CoreInv'
  <2>1. x.kind = "LoadAsClip" /\ y.step \in {3, 4} => y.item \in 1..Len(clips')
    BY <1>1 DEF Fits, ClipIds
  <2>2. Len(clips) <= Len(clips')
    BY DEF CoreInv, DataTyped
  <2> QED
    BY <1>3, <1>4, <2>1, <2>2, InPlaceCore
<1> QED
  BY <1>2, <1>5

\* The place of the clip is noted and the task is sent.
LEMMA ModifyClip1Keeps ==
  ASSUME CoreInv, NEW a \in ActionIds, ModifyClip1(a)
  PROVE  InPlace /\ Keeps
<1> DEFINE x == act[a]
           y == act'[a]
           c == x.clip
           o == clips[c]
<1>1. /\ actions # <<>> /\ a = Current /\ idx \in Nat \ {0}
      /\ x.state = "Executing" /\ x.kind = "ModifyClipItem" /\ x.step = 1
      /\ SendTask(a, Remember(a, o)) /\ NextAction
      /\ UNCHANGED <<valueVars, clipVars, assetVars>>
  BY RunsCurrent DEF ModifyClip1
<1>2. /\ x \in ActionRecords /\ Fits(x) /\ UnderWay(x)
      /\ clips \in Seq(ClipRecords) /\ Document \in Documents
  BY <1>1, CurrentOwned, DocumentTyped DEF CoreInv, DataTyped
<1>3. c \in 1..Len(clips) /\ o \in ClipRecords
  BY <1>1, <1>2, ElementsAtPositions DEF Fits, ClipIds
<1>4. /\ act' \in [ActionIds -> ActionRecords] /\ \A b \in ActionIds \ {a} : act'[b] = act[b]
      /\ Same(x, y) /\ y.state = "Waiting" /\ ~y.completed /\ y.step = 1 /\ y.item = x.item
      /\ y.old = IF x.direction = "Forward" THEN o ELSE x.old
      /\ y.before = IF x.direction = "Forward" THEN Document ELSE x.before
      /\ rtTasks' = <<a>> /\ requests' = <<>>
  BY <1>1, <1>3, SendRemembers
<1>5. y.old \in ClipRecords
  BY <1>1, <1>2, <1>3, <1>4 DEF Fits
<1>6. InPlace
  BY <1>1, <1>4 DEF InPlace, NextAction
<1> HIDE DEF x, y, o, c
<1>7. x = act[Current] /\ y = act'[Current]
  BY <1>1 DEF x, y
<1>8. CoreInv' /\ Sent(y) /\ ~Ran(y) /\ ~Ran(x) /\ ~Sent(x)
  <2>1. DataTyped' /\ clips' = clips
    BY <1>1 DEF CoreInv, DataTyped, valueVars, clipVars, assetVars, ClipIds
  <2> QED
    BY <1>1, <1>4, <1>5, <1>6, <1>7, <2>1, SentCore DEF SendStep, Replays, Loads
<1>9. ValuesShown => ValuesShown'
  BY <1>1, <1>6, <1>7, <1>8, ValuesStay DEF valueVars, clipVars, assetVars
<1>10. ClipsPlayed => ClipsPlayed'
  BY <1>1, <1>6, <1>7, <1>8, ClipsStay DEF clipVars
<1>11. ASSUME HistoryInv, Observe
       PROVE  HistoryInv' /\ UNCHANGED <<restDoc, restPast>>
  <2>1. Document' = Document /\ clips' = clips
    BY <1>1, DocumentTyped DEF valueVars, clipVars
  <2>2. Heard(y)
    <3>1. Heard(x) /\ ~o.muted
      BY <1>1, <1>3, <1>7, <1>11, CurrentOwned DEF HistoryInv, Owned, o, ClipIds
    <3> QED
      BY <1>1, <1>4, <3>1 DEF Heard, Same
  <2>3. ASSUME x.direction = "Forward"
        PROVE  TakesBack(y, Document, Document)
    <3>1. c \in 1..MaxEmits => Document.clips[c] = o
      BY <1>2, <1>3, DocumentIs, DocumentElements DEF Shows, CoreInv, DataTyped, o
    <3>2. WithClip(Document, c, o) = Document
      BY <1>2, <1>3, <3>1, WithClipSame
    <3> QED
      BY <1>1, <1>2, <1>4, <2>3, <3>2 DEF TakesBack, Same, c
  <2>4. Fresh(x) /\ x.kind \in Undoables
    BY <1>1 DEF Fresh, Undoables
  <2>5. x.direction = "Backward" => y.old = x.old
    BY <1>4
  <2> QED
    BY <1>4, <1>6, <1>7, <1>8, <1>11, <2>1, <2>2, <2>3, <2>4, <2>5, SentHistory
<1> QED
  BY <1>6, <1>8, <1>9, <1>10, <1>11 DEF Keeps

\* The view of the clip is given the place that the task has set.
LEMMA ModifyClip2Keeps ==
  ASSUME CoreInv, NEW a \in ActionIds, ModifyClip2(a)
  PROVE  InPlace /\ Keeps
<1> DEFINE x == act[a]
           c == x.clip
           v == Target(a)
<1>1. /\ actions # <<>> /\ a = Current
      /\ x.state = "Executing" /\ x.kind = "ModifyClipItem" /\ x.step = 2
      /\ Finish(a) /\ NextAction /\ clipViews' = [clipViews EXCEPT ![c] = v]
      /\ UNCHANGED <<valueVars, clips, box, inUse, rtBox, shown, torn, removed, assetVars>>
  BY RunsCurrent DEF ModifyClip2
<1>2. v \in ClipRecords /\ v = Aim(x) /\ c \in ClipIds
  BY <1>1, CurrentOwned DEF Fits, Target, Aim, Forward
<1>3. clipViews \in [DOMAIN clipViews -> ClipRecords] /\ DOMAIN clipViews \subseteq ClipIds
  BY DEF CoreInv, DataTyped
<1> HIDE DEF v
<1>4. /\ DOMAIN clipViews' = DOMAIN clipViews /\ clipViews' \in [DOMAIN clipViews' -> ClipRecords]
      /\ \A b \in DOMAIN clipViews : clipViews'[b] = IF b = c THEN v ELSE clipViews[b]
  BY <1>1, <1>2, <1>3
<1>5. DataTyped'
  BY <1>1, <1>4 DEF CoreInv, DataTyped, valueVars, assetVars, ClipIds
<1>6. Document' = Document
  BY <1>1, DocumentTyped DEF valueVars
<1>7. /\ InPlace /\ CoreInv' /\ Ran(x) /\ ~Ran(act'[a]) /\ ~Sent(act'[a]) /\ act'[a].state = "Finished"
      /\ HistoryInv /\ Observe => HistoryInv' /\ UNCHANGED <<restDoc, restPast>>
  BY <1>1, <1>5, <1>6, FinishKeeps DEF SendStep
<1>8. Current' = a /\ actions' # <<>>
  BY <1>1, <1>7, InPlaceOthers
<1>9. ASSUME ValuesShown
      PROVE  ValuesShown'
  <2>1. \A kind : ~Unshown(kind)'
    BY <1>7, <1>8 DEF Unshown, Ran, Sent
  <2>2. clips[c].start = v.start
    BY <1>1, <1>2, <1>7, <1>9 DEF ValuesShown, Unshown
  <2>3. \A b \in DOMAIN clipViews : clipViews'[b].start = clips[b].start
    BY <1>1, <1>4, <1>9, <2>2 DEF ValuesShown
  <2>4. \A w \in Units, s \in RtAttributes : view[w][s] = unit[w][s]
    BY <1>1, <1>9 DEF ValuesShown, Unshown
  <2>5. \A w \in Units : assetView[w] = asset[w]
    BY <1>1, <1>9 DEF ValuesShown, Unshown
  <2> QED
    BY <1>1, <1>4, <2>1, <2>3, <2>4, <2>5 DEF ValuesShown, valueVars, assetVars
<1>10. ClipsPlayed => ClipsPlayed'
  BY <1>1, <1>7, ClipsStay
<1> QED
  BY <1>7, <1>9, <1>10 DEF Keeps

(* ------------------------------ waiting, files --------------------------- *)

\* The action changes its state and its step and nothing else.
LEMMA ProgressSet ==
  ASSUME CoreInv, actions # <<>>,
         NEW s \in {"Executing", "Waiting", "Finished", "Abort"}, NEW k \in 1..4,
         \/ act' = [act EXCEPT ![Current].state = s, ![Current].step = k]
         \/ act' = [act EXCEPT ![Current].step = k] /\ act[Current].state = s
         \/ act' = [act EXCEPT ![Current].state = s] /\ act[Current].step = k
         \/ act' = act /\ act[Current].state = s /\ act[Current].step = k
  PROVE  /\ act' \in [ActionIds -> ActionRecords]
         /\ \A b \in ActionIds \ {Current} : act'[b] = act[b]
         /\ Same(act[Current], act'[Current]) /\ act'[Current].state = s /\ act'[Current].step = k
         /\ act'[Current].completed = act[Current].completed /\ act'[Current].opened = act[Current].opened
         /\ act'[Current].old = act[Current].old /\ act'[Current].before = act[Current].before
         /\ act'[Current].item = act[Current].item /\ act'[Current].container = act[Current].container
<1> DEFINE a == Current
           x == act[a]
           y == act'[a]
<1>1. a \in ActionIds /\ x \in ActionRecords /\ act \in [ActionIds -> ActionRecords]
  BY CurrentOwned DEF CoreInv, ListsTyped
<1> HIDE DEF a
<1>2. \A b \in ActionIds \ {a} : act'[b] = act[b]
  BY <1>1 DEF a
<1>3. \/ y = [x EXCEPT !.state = s, !.step = k]
      \/ y = [x EXCEPT !.step = k] /\ x.state = s
      \/ y = [x EXCEPT !.state = s] /\ x.step = k
      \/ y = x /\ x.state = s /\ x.step = k
  BY <1>1 DEF a
<1>4. act' = [act EXCEPT ![a] = y]
  BY <1>1 DEF a
<1> HIDE DEF x, y
<1>5. /\ y \in ActionRecords /\ Same(x, y) /\ y.state = s /\ y.step = k
      /\ y.completed = x.completed /\ y.opened = x.opened /\ y.old = x.old
      /\ y.before = x.before /\ y.item = x.item /\ y.container = x.container
  <2>1. CASE y = [x EXCEPT !.state = s, !.step = k]
    BY <1>1, <2>1 DEF ActionRecords, Same
  <2>2. CASE y = [x EXCEPT !.step = k] /\ x.state = s
    BY <1>1, <2>2 DEF ActionRecords, Same
  <2>3. CASE y = [x EXCEPT !.state = s] /\ x.step = k
    BY <1>1, <2>3 DEF ActionRecords, Same
  <2>4. CASE y = x /\ x.state = s /\ x.step = k
    BY <1>1, <2>4 DEF ActionRecords, Same
  <2> QED
    BY <1>3, <2>1, <2>2, <2>3, <2>4
<1>6. act' \in [ActionIds -> ActionRecords]
  BY <1>1, <1>4, <1>5
<1> QED
  BY <1>2, <1>5, <1>6 DEF a, x, y

\* A file is asked for.
LEMMA OpenKeeps ==
  ASSUME CoreInv, NEW a \in ActionIds, NEW kind \in Loads, Runs(a, kind, 1), act[a].file \in Files,
         act' = [act EXCEPT ![a].state = "Waiting"], requests' = Append(requests, a), rtTasks' = rtTasks,
         NextAction, UNCHANGED <<valueVars, clipVars, assetVars>>
  PROVE  InPlace /\ Keeps
<1> DEFINE x == act[a]
           y == act'[a]
<1>1. /\ actions # <<>> /\ a = Current /\ idx \in Nat \ {0}
      /\ x.state = "Executing" /\ x.kind = kind /\ x.step = 1
  BY RunsCurrent
<1>2. x \in ActionRecords /\ Fits(x) /\ UnderWay(x) /\ rtTasks = <<>> /\ requests = <<>>
  BY <1>1, CurrentOwned, NothingSent
<1>3. /\ act' \in [ActionIds -> ActionRecords] /\ \A b \in ActionIds \ {a} : act'[b] = act[b]
      /\ Same(x, y) /\ y.state = "Waiting" /\ y.step = 1 /\ y.opened = x.opened
      /\ y.old = x.old /\ y.before = x.before /\ y.container = x.container /\ y.item = x.item
  BY <1>1, StateSet
<1>4. InPlace
  BY <1>1, <1>3 DEF InPlace, NextAction
<1>5. Current' = a /\ actions' # <<>>
  BY <1>1, <1>4, InPlaceOthers
<1> HIDE DEF x, y
<1>6. ~Sent(y) /\ ~Ran(y) /\ ~Ran(x) /\ ~Sent(x)
  BY <1>1, <1>3 DEF Ran, Sent, SendStep, Loads, Same
<1>7. UnderWay(y)
  BY <1>1, <1>2, <1>3, <1>6 DEF UnderWay, Same, SendStep, Loads, Replays, Fits
<1>8. TasksUnderWay'
  <2>1. rtTasks' = <<>> /\ requests' = <<a>> /\ y.opened = "no"
    BY <1>1, <1>2, <1>3 DEF UnderWay
  <2>2. y.kind \in Loads /\ y.file \in Files
    BY <1>1, <1>3 DEF Same, x
  <2> QED
    BY <1>3, <1>5, <1>6, <2>1, <2>2 DEF TasksUnderWay, Sent, y
<1>9. x = act[Current] /\ y = act'[Current] /\ x.kind \notin Undoables /\ x.kind # "RemoveClip"
  BY <1>1 DEF x, y, Loads, Undoables
<1>10. x.kind = "LoadAsClip" /\ y.step \in {3, 4} => x.step \in {3, 4}
  BY <1>3
<1>11. y.old = x.old /\ y.before = x.before /\ y.container = x.container /\ y.item = x.item
  BY <1>3
<1>12. x.state \in {"Executing", "Waiting"}
  BY <1>1
<1>13. Keeps
  BY <1>4, <1>6, <1>7, <1>8, <1>9, <1>10, <1>11, <1>12, QuietKeeps
<1> QED
  BY <1>4, <1>13

\* A file that is open already needs no opening.
LEMMA OpenClipFileKeeps ==
  ASSUME CoreInv, NEW a \in ActionIds, OpenClipFile(a)
  PROVE  InPlace /\ Keeps
<1> DEFINE x == act[a]
           y == act'[a]
<1>1. Runs(a, "LoadAsClip", 1) /\ NextAction /\ UNCHANGED <<valueVars, clipVars, assetVars>>
  BY DEF OpenClipFile
<1>2. CASE x.file # Take
  <2>1. x.file \in Files
    BY <1>1, <1>2, RunsCurrent, CurrentOwned DEF Fits
  <2> QED
    BY <1>1, <1>2, <2>1, OpenKeeps DEF OpenClipFile, Loads
<1>3. CASE x.file = Take
  <2>1. /\ actions # <<>> /\ a = Current /\ idx \in Nat \ {0}
        /\ x.state = "Executing" /\ x.kind = "LoadAsClip" /\ x.step = 1
    BY <1>1, RunsCurrent
  <2>2. x \in ActionRecords /\ Fits(x) /\ UnderWay(x) /\ rtTasks = <<>> /\ requests = <<>>
    BY <2>1, CurrentOwned, NothingSent
  <2>3. act' = [act EXCEPT ![a].step = 2] /\ UNCHANGED queueVars
    BY <1>3 DEF OpenClipFile, GoTo
  <2>4. /\ act' \in [ActionIds -> ActionRecords] /\ \A b \in ActionIds \ {a} : act'[b] = act[b]
        /\ Same(x, y) /\ y.state = "Executing" /\ y.step = 2 /\ y.opened = x.opened
        /\ y.old = x.old /\ y.before = x.before /\ y.container = x.container /\ y.item = x.item
    BY <2>1, <2>3, ProgressSet
  <2>5. InPlace
    BY <1>1, <2>1, <2>4 DEF InPlace, NextAction
  <2>6. Current' = a /\ actions' # <<>>
    BY <2>1, <2>5, InPlaceOthers
  <2> HIDE DEF x, y
  <2>7. ~Sent(y) /\ ~Ran(y) /\ ~Ran(x) /\ ~Sent(x)
    BY <2>1, <2>4 DEF Ran, Sent, SendStep, Same
  <2>8. UnderWay(y)
    BY <2>1, <2>2, <2>4, <2>7 DEF UnderWay, Same, SendStep, Loads, Replays, Fits
  <2>9. TasksUnderWay'
    BY <2>2, <2>3, <2>6, <2>7 DEF TasksUnderWay, Sent, y, queueVars
  <2>10. x = act[Current] /\ y = act'[Current] /\ x.kind \notin Undoables
    BY <2>1 DEF x, y, Undoables
  <2>11. Keeps
    BY <1>1, <2>1, <2>4, <2>5, <2>7, <2>8, <2>9, <2>10, QuietKeeps
  <2> QED
    BY <2>5, <2>11
<1> QED
  BY <1>2, <1>3

\* The file of a sampler is always opened.
LEMMA OpenAssetKeeps ==
  ASSUME CoreInv, NEW a \in ActionIds, OpenAsset(a)
  PROVE  InPlace /\ Keeps
<1>1. Runs(a, "LoadAsset", 1)
  BY DEF OpenAsset
<1>2. act[a].file \in Files
  BY <1>1, RunsCurrent, CurrentOwned DEF Fits
<1> QED
  BY <1>1, <1>2, OpenKeeps DEF OpenAsset, Loads

\* Waiting ends when the file is open or the task is done.
LEMMA CheckWaitingKeeps ==
  ASSUME CoreInv, NEW a \in ActionIds, CheckWaitingCondition(a)
  PROVE  InPlace /\ Keeps
<1> DEFINE x == act[a]
           y == act'[a]
           file == x.kind \in Loads /\ x.step = 1
<1>1. /\ At(a) /\ x.state = "Waiting" /\ NextAction
      /\ UNCHANGED <<valueVars, clipVars, assetVars, queueVars>>
  BY DEF CheckWaitingCondition
<1>2. actions # <<>> /\ a = Current /\ idx \in Nat \ {0}
  BY <1>1, AtCurrent
<1>3. x \in ActionRecords /\ Fits(x) /\ UnderWay(x)
  BY <1>2, CurrentOwned
<1>4. ~file => Sent(x) /\ x.step + 1 \in 1..4 /\ x.step = SendStep(x.kind)
  BY <1>1, <1>3 DEF UnderWay, Sent, SendStep
<1>5. PICK s \in {"Executing", "Waiting", "Finished", "Abort"}, k \in 1..4 :
        /\ \/ act' = [act EXCEPT ![a].state = s, ![a].step = k]
           \/ act' = [act EXCEPT ![a].step = k] /\ x.state = s
           \/ act' = [act EXCEPT ![a].state = s] /\ x.step = k
           \/ act' = act /\ x.state = s /\ x.step = k
        /\ \/ file /\ x.opened = "yes" /\ s = "Executing" /\ k = 2
           \/ file /\ x.opened = "failed" /\ s = "Abort" /\ k = 1
           \/ ~file /\ x.completed /\ s = "Executing" /\ k = x.step + 1
           \/ s = "Waiting" /\ k = x.step
  <2>1. CASE file /\ x.opened = "yes"
    <3>1. act' = [act EXCEPT ![a].state = "Executing", ![a].step = 2]
      BY <2>1 DEF CheckWaitingCondition, Loads
    <3> QED
      BY <2>1, <3>1
  <2>2. CASE file /\ x.opened = "failed"
    <3>1. act' = [act EXCEPT ![a].state = "Abort"]
      BY <2>2 DEF CheckWaitingCondition, Loads
    <3> QED
      BY <2>2, <3>1
  <2>3. CASE ~file /\ x.completed
    <3>1. act' = [act EXCEPT ![a].state = "Executing", ![a].step = x.step + 1]
      BY <2>3 DEF CheckWaitingCondition, Loads
    <3> QED
      BY <1>4, <2>3, <3>1
  <2>4. CASE (file /\ x.opened \notin {"yes", "failed"}) \/ (~file /\ ~x.completed)
    <3>1. act' = act
      BY <2>4 DEF CheckWaitingCondition, Loads
    <3>2. x.step \in 1..4
      BY <1>3 DEF ActionRecords
    <3> QED
      BY <1>1, <3>1, <3>2
  <2> QED
    BY <2>1, <2>2, <2>3, <2>4
<1>6. /\ act' \in [ActionIds -> ActionRecords] /\ \A b \in ActionIds \ {a} : act'[b] = act[b]
      /\ Same(x, y) /\ y.state = s /\ y.step = k /\ y.opened = x.opened /\ y.completed = x.completed
      /\ y.old = x.old /\ y.before = x.before /\ y.container = x.container /\ y.item = x.item
  BY <1>2, <1>5, ProgressSet
<1>7. InPlace
  BY <1>1, <1>2, <1>6 DEF InPlace, NextAction
<1>8. Current' = a /\ actions' # <<>>
  BY <1>2, <1>7, InPlaceOthers
<1> HIDE DEF x, y
<1>9. (Ran(y) <=> Ran(x)) /\ (Sent(y) => Sent(x)) /\ (Sent(x) /\ ~x.completed => Sent(y))
  BY <1>1, <1>3, <1>4, <1>5, <1>6 DEF Ran, Sent, SendStep, Same, Loads
<1>10. UnderWay(y)
  BY <1>1, <1>3, <1>4, <1>5, <1>6, <1>9 DEF UnderWay, Same, SendStep, Loads, Replays, Fits
<1>11. TasksUnderWay'
  <2>1. rtTasks' = rtTasks /\ requests' = requests
    BY <1>1 DEF queueVars
  <2>2. Sent(y) /\ ~y.completed <=> Sent(x) /\ ~x.completed
    BY <1>6, <1>9
  <2>3. requests # <<>> => /\ y.kind \in Loads /\ y.step = 1 /\ y.state = "Waiting" /\ y.opened = "no"
                           /\ y.file \in Files
    BY <1>2, <1>5, <1>6 DEF CoreInv, TasksUnderWay, Same, x
  <2> QED
    BY <1>2, <1>8, <2>1, <2>2, <2>3 DEF CoreInv, TasksUnderWay, Sent, x, y
<1>12. x = act[Current] /\ y = act'[Current]
  BY <1>2 DEF x, y
<1>13. x.kind = "LoadAsClip" /\ y.step \in {3, 4} => x.step \in {3, 4}
  BY <1>4, <1>5, <1>6 DEF SendStep
<1>14. x.kind \in Undoables => (Fresh(y) \/ y.state = "Abort" <=> Fresh(x)) /\ y.state # "Finished"
  BY <1>1, <1>4, <1>5, <1>6 DEF Fresh, Undoables, Loads, SendStep
<1>15. Keeps
  BY <1>1, <1>6, <1>7, <1>9, <1>10, <1>11, <1>12, <1>13, <1>14, QuietKeeps
<1> QED
  BY <1>7, <1>15

(* ---------------------- clips and assets that are loaded ----------------- *)

\* What remains to be shown of the history for an edit that undo does not know.
LEMMA LoadHistory ==
  ASSUME CoreInv, InPlace, HistoryInv, Observe, Document' = Document,
         act[Current].kind \notin Undoables,
         \A c \in 1..Len(clips') : ~clips'[c].muted
  PROVE  HistoryInv' /\ UNCHANGED <<restDoc, restPast>>
<1> DEFINE x == act[Current]
           y == act'[Current]
<1>1. /\ actions # <<>> /\ x \in ActionRecords /\ Fits(x) /\ UnderWay(x)
      /\ Current' = Current /\ actions' # <<>> /\ Same(x, y) /\ restDoc' = restDoc
  BY CurrentOwned, InPlaceOthers DEF InPlace, Observe, historyVars
<1>2. x.direction = "Forward"
  BY <1>1 DEF Fits, UnderWay, ActionRecords, Kinds, Loads, Replays
<1>3. Document = restDoc
  BY <1>1, <1>2 DEF HistoryInv, ForwardUnderWay
<1>4. ForwardUnderWay(act[Current])'
  BY <1>1, <1>3 DEF ForwardUnderWay, Same
<1>5. Heard(y)
  BY <1>1 DEF Heard, Same, Undoables
<1> QED
  BY <1>1, <1>2, <1>4, <1>5, HistoryStays

\* The clip is put in the store, where it has the number that the action notes.
LEMMA CreateClipKeeps ==
  ASSUME CoreInv, NEW a \in ActionIds, CreateClip(a)
  PROVE  InPlace /\ Keeps
<1> DEFINE x == act[a]
           y == act'[a]
           n == Len(clips) + 1
<1>1. /\ actions # <<>> /\ a = Current /\ idx \in Nat \ {0}
      /\ x.state = "Executing" /\ x.kind = "LoadAsClip" /\ x.step = 2 /\ NextAction
      /\ clips' = Append(clips, NewClip(x.value))
      /\ act' = [act EXCEPT ![a].item = n, ![a].step = 3]
      /\ UNCHANGED <<valueVars, clipViews, box, inUse, rtBox, shown, torn, removed, assetVars, queueVars>>
  BY RunsCurrent DEF CreateClip
<1>2. /\ x \in ActionRecords /\ Fits(x) /\ UnderWay(x) /\ rtTasks = <<>> /\ requests = <<>>
      /\ act \in [ActionIds -> ActionRecords] /\ clips \in Seq(ClipRecords)
      /\ NewClip(Default) \in ClipRecords /\ x.value = Default
  BY <1>1, CurrentOwned, NothingSent, EditsAssumption DEF CoreInv, ListsTyped, DataTyped, Fits, NewClip, ClipRecords
<1>3. /\ clips' \in Seq(ClipRecords) /\ Len(clips') = n /\ Len(clips) \in Nat
      /\ clips'[n] = NewClip(Default) /\ \A c \in ClipIds : clips'[c] = clips[c]
  BY <1>1, <1>2, AppendElements, LenProperties DEF ClipIds
<1> HIDE DEF n
<1>4. /\ act' \in [ActionIds -> ActionRecords] /\ \A b \in ActionIds \ {a} : act'[b] = act[b]
      /\ Same(x, y) /\ y.state = "Executing" /\ y.step = 3 /\ y.item = n /\ y.container = x.container
  <2>1. n \in Nat
    BY <1>3 DEF n
  <2>2. y = [x EXCEPT !.item = n, !.step = 3] /\ \A b \in ActionIds \ {a} : act'[b] = act[b]
    BY <1>1, <1>2
  <2>3. act' = [act EXCEPT ![a] = y]
    BY <1>1, <1>2
  <2>4. x \in ActionRecords /\ x.state = "Executing"
    BY <1>1, <1>2
  <2> HIDE DEF x, y
  <2>5. /\ y \in ActionRecords /\ Same(x, y) /\ y.state = "Executing" /\ y.step = 3 /\ y.item = n
        /\ y.container = x.container
    <3>1. y = [x EXCEPT !.item = n, !.step = 3]
      BY <2>2
    <3>2. y \in ActionRecords
      <4>1. \A k \in 1..4 : [x EXCEPT !.item = n, !.step = k] \in ActionRecords
        BY <2>1, <2>4 DEF ActionRecords
      <4> QED
        BY <3>1, <4>1

    <3>3. /\ Same(x, y) /\ y.state = "Executing" /\ y.step = 3 /\ y.item = n /\ y.container = x.container
      BY <2>4, <3>1 DEF ActionRecords, Same
    <3> QED
      BY <3>2, <3>3

  <2> QED
    BY <1>2, <2>2, <2>3, <2>5
<1>5. InPlace
  BY <1>1, <1>4 DEF InPlace, NextAction
<1>6. Current' = a /\ actions' # <<>>

  BY <1>1, <1>5, InPlaceOthers
<1> HIDE DEF x, y
<1>7. x = act[Current] /\ y = act'[Current] /\ y = act'[Current']
  BY <1>1, <1>6 DEF x, y
<1>8. ~Sent(y) /\ ~Ran(y) /\ ~Ran(x) /\ ~Sent(x)
  BY <1>1, <1>4 DEF Ran, Sent, SendStep, Same
<1>9. CoreInv'
  <2>1. UnderWay(y)
    BY <1>1, <1>2, <1>4, <1>8 DEF UnderWay, Same, SendStep, Loads, Replays
  <2>2. TasksUnderWay'
    BY <1>1, <1>2, <1>7, <1>8 DEF TasksUnderWay, Sent, queueVars
  <2>3. DataTyped' /\ Len(clips) <= Len(clips')
    <3>1. \A c \in ClipIds : c \in ClipIds'
      BY <1>3 DEF ClipIds, n
    <3> QED
      BY <1>1, <1>3, <3>1 DEF CoreInv, DataTyped, valueVars, assetVars, n
  <2>4. y.item \in 1..Len(clips')
    BY <1>3, <1>4 DEF n
  <2> QED
    BY <1>1, <1>5, <1>7, <2>1, <2>2, <2>3, <2>4, InPlaceCore
<1>10. ASSUME ValuesShown
       PROVE  ValuesShown'
  <2>1. \A kind : ~Unshown(kind)' /\ ~Unshown(kind)
    BY <1>7, <1>8 DEF Unshown, Ran, Sent
  <2>2. \A c \in DOMAIN clipViews : clips'[c] = clips[c]
    BY <1>3 DEF CoreInv, DataTyped
  <2> QED
    BY <1>1, <1>10, <2>1, <2>2 DEF ValuesShown, valueVars, assetVars
<1>11. ClipsPlayed => ClipsPlayed'
  BY <1>1, <1>4, <1>5, <1>7, <1>8, ClipsStay
<1>12. ASSUME HistoryInv, Observe
       PROVE  HistoryInv' /\ UNCHANGED <<restDoc, restPast>>
  <2>1. Document' = Document
    <3>1. unit \in UnitValues /\ view \in ViewValues
      BY DEF CoreInv, DataTyped
    <3> QED
      BY <1>1, <1>2, <3>1, ClipAdded, DocumentIs DEF valueVars
  <2>2. \A c \in 1..Len(clips') : ~clips'[c].muted
    BY <1>3, <1>12 DEF HistoryInv, ClipIds, NewClip, n
  <2>3. x.kind \notin Undoables
    BY <1>1 DEF Undoables
  <2> QED
    BY <1>5, <1>7, <1>12, <2>1, <2>2, <2>3, LoadHistory
<1> QED
  BY <1>5, <1>9, <1>10, <1>11, <1>12 DEF Keeps

\* A step that changes nothing but the position in the list.
LEMMA IdleKeeps ==
  ASSUME CoreInv, actions # <<>>, NextAction, UNCHANGED <<valueVars, clipVars, assetVars, act, queueVars>>
  PROVE  InPlace /\ Keeps
<1>1. /\ UNCHANGED <<unit, view, clips, clipViews, box, inUse, rtBox, shown, torn, removed, asset, assetView>>
      /\ UNCHANGED <<act, actions, undoList, redoList, emits, rtTasks, requests>> /\ idx' = idx + 1
  BY DEF NextAction, valueVars, clipVars, assetVars, queueVars
<1>2. InPlace
  BY <1>1 DEF InPlace, CoreInv, ListsTyped, Same
<1>3. CoreInv'
  <2>1. ListsTyped' /\ DataTyped'
    BY <1>1 DEF CoreInv, ListsTyped, DataTyped, ClipIds
  <2>2. OneUnderWay'
    BY <1>1 DEF CoreInv, OneUnderWay, Current, Stored, Fits, UnderWay, Ran, Sent, ClipIds
  <2>3. TasksUnderWay'
    BY <1>1 DEF CoreInv, TasksUnderWay, Current, Sent
  <2> QED
    BY <2>1, <2>2, <2>3 DEF CoreInv
<1>4. ValuesShown => ValuesShown'
  BY <1>1 DEF ValuesShown, Unshown, Current, Ran, Sent, Aim
<1>5. ClipsPlayed => ClipsPlayed'
  BY <1>1 DEF ClipsPlayed, ShownPlayed, Loading, Unshown, Current, Ran, Sent, Modifiable
<1>6. ASSUME HistoryInv, Observe
      PROVE  HistoryInv' /\ UNCHANGED <<restDoc, restPast>>
  <2>1. restDoc' = restDoc /\ restPast' = restPast
    BY <1>1, <1>6 DEF Observe, historyVars
  <2> QED
    BY <1>1, <1>6, <2>1 DEF HistoryInv, ClipIds, Owned, Heard, Current, PastOf, LeadsBack, TakesBack,
                            ForwardUnderWay, BackwardUnderWay, Document, Ran, Sent, Fresh
<1> QED
  BY <1>2, <1>3, <1>4, <1>5, <1>6 DEF Keeps

\* An action that is done is passed over.
LEMMA SkipKeeps ==
  ASSUME CoreInv, NEW a \in ActionIds, Skip(a)
  PROVE  InPlace /\ Keeps
<1>1. actions # <<>>
  BY DEF Skip, At, CoreInv, ListsTyped
<1> QED
  BY <1>1, IdleKeeps DEF Skip

\* A task is sent, and the container that it names noted.
LEMMA SendNotes ==
  ASSUME CoreInv, actions # <<>>, act[Current].state = "Executing", NEW b \in {1, 2},
         \/ SendTask(Current, [act EXCEPT ![Current].container = b])
         \/ SendTask(Current, act) /\ act[Current].container = b
  PROVE  /\ act' \in [ActionIds -> ActionRecords]
         /\ \A c \in ActionIds \ {Current} : act'[c] = act[c]
         /\ Same(act[Current], act'[Current])
         /\ act'[Current].state = "Waiting" /\ ~act'[Current].completed
         /\ act'[Current].step = act[Current].step /\ act'[Current].item = act[Current].item
         /\ act'[Current].container = b
         /\ act'[Current].old = act[Current].old /\ act'[Current].before = act[Current].before
         /\ rtTasks' = <<Current>> /\ requests' = <<>>
<1> DEFINE a == Current
           x == act[a]
           y == act'[a]
<1>1. /\ a \in ActionIds /\ x \in ActionRecords /\ act \in [ActionIds -> ActionRecords]
      /\ rtTasks = <<>> /\ requests = <<>>
  BY CurrentOwned, NothingSent DEF CoreInv, ListsTyped
<1>2. rtTasks' = <<a>> /\ requests' = <<>>
  BY <1>1 DEF SendTask
<1>3. \/ act' = [act EXCEPT ![a].container = b, ![a].state = "Waiting", ![a].completed = FALSE]
      \/ act' = [act EXCEPT ![a].state = "Waiting", ![a].completed = FALSE] /\ x.container = b
  BY DEF SendTask
<1> HIDE DEF a
<1>4. /\ \/ y = [x EXCEPT !.container = b, !.state = "Waiting", !.completed = FALSE]
         \/ y = [x EXCEPT !.state = "Waiting", !.completed = FALSE] /\ x.container = b
      /\ \A c \in ActionIds \ {a} : act'[c] = act[c]
      /\ act' = [act EXCEPT ![a] = y]
  BY <1>1, <1>3
<1> HIDE DEF x, y
<1>5. /\ y \in ActionRecords /\ Same(x, y) /\ y.state = "Waiting" /\ ~y.completed /\ y.step = x.step
      /\ y.item = x.item /\ y.container = b /\ y.old = x.old /\ y.before = x.before
  <2>1. CASE y = [x EXCEPT !.container = b, !.state = "Waiting", !.completed = FALSE]
    BY <1>1, <2>1 DEF ActionRecords, Same
  <2>2. CASE y = [x EXCEPT !.state = "Waiting", !.completed = FALSE] /\ x.container = b
    BY <1>1, <2>2 DEF ActionRecords, Same
  <2> QED
    BY <1>4, <2>1, <2>2
<1> QED
  BY <1>1, <1>2, <1>4, <1>5 DEF a, x, y

\* One of the two containers is the one that can be modified.
LEMMA Containers ==
  ASSUME NEW u
  PROVE  /\ Modifiable(u) \in {1, 2} /\ 3 - Modifiable(u) \in {1, 2} /\ 3 - Modifiable(u) # Modifiable(u)
         /\ 3 - (3 - Modifiable(u)) = Modifiable(u)
BY DEF Modifiable

\* The container is filled with the clips that are played and the new one.
LEMMA ContainerFilled ==
  ASSUME CoreInv, NEW u \in Units \cup Gone, NEW more \in Seq(Nat),
         box' = [box EXCEPT ![u][Modifiable(u)] = more]
  PROVE  /\ box' \in [Units \cup Gone -> [{1, 2} -> Seq(Nat)]]
         /\ box'[u][Modifiable(u)] = more
         /\ \A w \in Units \cup Gone : box'[w][3 - Modifiable(w)] = box[w][3 - Modifiable(w)]
<1> DEFINE B == Seq(Nat)
           b == Modifiable(u)
<1>1. box \in [Units \cup Gone -> [{1, 2} -> B]] /\ more \in B
  BY DEF CoreInv, DataTyped
<1>2. b \in {1, 2} /\ \A w : 3 - Modifiable(w) \in {1, 2}
  BY Containers
<1>3. 3 - Modifiable(u) # b
  BY Containers
<1> HIDE DEF B, b
<1>4. /\ box' \in [Units \cup Gone -> [{1, 2} -> B]] /\ box'[u][b] = more
      /\ \A w \in Units \cup Gone, i \in {1, 2} : ~(w = u /\ i = b) => box'[w][i] = box[w][i]
  BY <1>1, <1>2 DEF b
<1>5. \A w \in Units \cup Gone : box'[w][3 - Modifiable(w)] = box[w][3 - Modifiable(w)]
  BY <1>2, <1>3, <1>4
<1> QED
  BY <1>4, <1>5 DEF B, b

\* The clips shown and the new one are put in the container that is not played, and
\* the unit is told to change over.
LEMMA AddToContainerKeeps ==
  ASSUME CoreInv, NEW a \in ActionIds, AddToContainer(a)
  PROVE  InPlace /\ Keeps
<1> DEFINE x == act[a]
           y == act'[a]
           u == x.unit
           b == Modifiable(u)
           more == Append(box[u][3 - b], x.item)
<1>1. /\ actions # <<>> /\ a = Current /\ idx \in Nat \ {0}
      /\ x.state = "Executing" /\ x.kind = "LoadAsClip" /\ x.step = 3 /\ NextAction
      /\ box' = [box EXCEPT ![u][b] = more] /\ torn' = Tears(u, b)
      /\ IF u \in Units THEN SendTask(a, [act EXCEPT ![a].container = b]) ELSE Abort(a)
      /\ UNCHANGED <<valueVars, clips, clipViews, inUse, rtBox, shown, removed, assetVars>>
  BY RunsCurrent DEF AddToContainer
<1>2. /\ x \in ActionRecords /\ Fits(x) /\ UnderWay(x) /\ rtTasks = <<>> /\ requests = <<>>
      /\ u \in Units \cup Gone /\ x.item \in ClipIds /\ x.item \in Nat /\ b \in {1, 2}
  BY <1>1, CurrentOwned, NothingSent, Containers DEF Fits, Loads, ActionRecords
<1>3. box \in [Units \cup Gone -> [{1, 2} -> Seq(Nat)]]
  BY DEF CoreInv, DataTyped
<1>4. box[u][3 - b] \in Seq(Nat)
  BY <1>2, <1>3, Containers
<1>5. more \in Seq(Nat)
  BY <1>2, <1>4, AppendElements
<1>6. /\ box' \in [Units \cup Gone -> [{1, 2} -> Seq(Nat)]] /\ box'[u][b] = more
      /\ \A w \in Units \cup Gone : box'[w][3 - Modifiable(w)] = box[w][3 - Modifiable(w)]
  BY <1>1, <1>2, <1>5, ContainerFilled
<1>7. /\ act' \in [ActionIds -> ActionRecords] /\ \A c \in ActionIds \ {a} : act'[c] = act[c]
      /\ Same(x, y) /\ y.step = 3 /\ y.item = x.item
      /\ y.state \in {"Waiting", "Abort"}
      /\ u \in Units => y.state = "Waiting" /\ ~y.completed /\ y.container = b /\ rtTasks' = <<a>> /\ requests' = <<>>
      /\ u \notin Units => y.state = "Abort" /\ rtTasks' = <<>> /\ requests' = <<>>
  <2>1. CASE u \in Units
    BY <1>1, <1>2, <2>1, SendNotes
  <2>2. CASE u \notin Units
    BY <1>1, <1>2, <2>2, StateSet DEF Abort, queueVars
  <2> QED
    BY <2>1, <2>2
<1>8. InPlace
  BY <1>1, <1>7 DEF InPlace, NextAction
<1>9. Current' = a /\ actions' # <<>>
  BY <1>1, <1>8, InPlaceOthers
<1> HIDE DEF x, y, u, b, more
<1>10. x = act[Current] /\ y = act'[Current] /\ y = act'[Current'] /\ u = x.unit
  BY <1>1, <1>9 DEF x, y, u
<1>11. /\ ~Ran(y) /\ ~Ran(x) /\ ~Sent(x) /\ (Sent(y) <=> u \in Units)
  BY <1>1, <1>7 DEF Ran, Sent, SendStep, Same
<1>12. CoreInv'
  <2>1. UnderWay(y)
    BY <1>1, <1>2, <1>7, <1>10, <1>11 DEF UnderWay, Same, SendStep, Loads, Replays, Fits
  <2>2. TasksUnderWay'
    BY <1>1, <1>7, <1>9, <1>10, <1>11 DEF TasksUnderWay, Sent
  <2>3. DataTyped' /\ Len(clips) <= Len(clips')
    BY <1>1, <1>6 DEF CoreInv, DataTyped, valueVars, assetVars, ClipIds, Tears
  <2>4. y.item \in 1..Len(clips')
    BY <1>1, <1>2, <1>7 DEF ClipIds
  <2> QED
    BY <1>1, <1>8, <1>10, <2>1, <2>2, <2>3, <2>4, InPlaceCore
<1>13. ValuesShown => ValuesShown'
  BY <1>1, <1>8, <1>10, <1>11, ValuesStay DEF valueVars, assetVars
<1>14. ASSUME ~removed, ShownPlayed
       PROVE  ShownPlayed'
  <2>1. ~Loading /\ ~Unshown("LoadAsClip") /\ ~Unshown("LoadAsClip")'
    BY <1>10, <1>11 DEF Loading, Unshown, Ran, Sent
  <2>2. \A w \in Units : rtBox[w] = 3 - Modifiable(w) /\ box[w][3 - Modifiable(w)] = shown[w]
    BY <1>14, <2>1 DEF ShownPlayed
  <2>3. ~torn'
    <3>1. u \in Units => rtBox[u] # b
      BY <2>2, Containers DEF b
    <3> QED
      BY <1>1, <1>14, <3>1 DEF ShownPlayed, Tears
  <2>4. \A c \in ToSet(undoList') \cup ToSet(redoList') : act'[c].kind # "RemoveClip"
    BY <1>8, <1>14, InPlaceOthers DEF ShownPlayed, InPlace
  <2>5. \A w : Modifiable(w)' = Modifiable(w)
    BY <1>1 DEF Modifiable
  <2>6. Loading' => /\ y.container = Modifiable(y.unit)
                    /\ box'[y.unit][Modifiable(y.unit)] = Append(shown[y.unit], y.item)
    <3>1. SUFFICES ASSUME u \in Units
                   PROVE  /\ y.container = Modifiable(u)
                          /\ box'[u][Modifiable(u)] = Append(shown[u], y.item)
      BY <1>7, <1>9, <1>10, <1>11 DEF Loading, Same, Sent, Ran
    <3> QED
      BY <1>6, <1>7, <2>2, <3>1 DEF b, more
  <2>7. \A w \in Units : rtBox'[w] = 3 - Modifiable(w)' /\ box'[w][3 - Modifiable(w)'] = shown'[w]
    BY <1>1, <1>6, <2>2, <2>5
  <2>8. act'[Current'].kind = "LoadAsClip"
    BY <1>1, <1>7, <1>10 DEF Same
  <2> QED
    BY <1>1, <1>10, <2>1, <2>3,
 <2>4, <2>5, <2>6, <2>7, <2>8 DEF ShownPlayed
<1>15. ASSUME HistoryInv, Observe
       PROVE  HistoryInv' /\ UNCHANGED <<restDoc, restPast>>
  <2>1. Document' = Document
    BY <1>1, DocumentTyped DEF valueVars
  <2>2. \A c \in 1..Len(clips') : ~clips'[c].muted
    BY <1>1, <1>15 DEF HistoryInv, ClipIds
  <2>3. x.kind \notin Undoables
    BY <1>1 DEF Undoables
  <2> QED
    BY <1>8, <1>10, <1>15, <2>1, <2>2, <2>3, LoadHistory
<1> QED
  BY <1>1, <1>8, <1>12, <1>13, <1>14, <1>15 DEF Keeps, ClipsPlayed

\* The clip appears in the snapshot, and the container that the unit plays now is no
\* longer the modifiable one.
LEMMA ShowClipKeeps ==
  ASSUME CoreInv, NEW a \in ActionIds, ShowClip(a)
  PROVE  InPlace /\ Keeps
<1> DEFINE x == act[a]
           u == x.unit
           c == x.item
           m == Modifiable(u)
<1>1. /\ actions # <<>> /\ a = Current
      /\ x.state = "Executing" /\ x.kind = "LoadAsClip" /\ x.step = 4 /\ Finish(a) /\ NextAction
      /\ inUse' = [inUse EXCEPT ![u] = ~inUse[u]]
      /\ shown' = [shown EXCEPT ![u] = Append(shown[u], c)]
      /\ clipViews' = [d \in DOMAIN clipViews \cup {c} |-> IF d = c THEN clips[d] ELSE clipViews[d]]
      /\ UNCHANGED <<valueVars, clips, box, rtBox, torn, removed, assetVars>>
  BY RunsCurrent DEF ShowClip
<1>2. /\ x \in ActionRecords /\ Fits(x) /\ UnderWay(x) /\ Ran(x) /\ u \in Units /\ c \in ClipIds /\ c \in Nat
  BY <1>1, CurrentOwned DEF Fits, Ran, SendStep, UnderWay, Loads, ActionRecords
<1>3. /\ inUse \in [Units \cup Gone -> BOOLEAN] /\ shown \in [Units -> Seq(Nat)]
      /\ \A w \in Units : ToSet(shown[w]) \subseteq ClipIds
      /\ DOMAIN clipViews \subseteq ClipIds /\ clipViews \in [DOMAIN clipViews -> ClipRecords]
      /\ \A d \in ClipIds : clips[d] \in ClipRecords
  BY ElementsAtPositions DEF CoreInv, DataTyped, ClipIds
<1> HIDE DEF x, u, c, m
<1>4. /\ Append(shown[u], c) \in Seq(Nat)
      /\ ToSet(Append(shown[u], c)) \subseteq ClipIds
  BY <1>2, <1>3, AppendDistinct
<1>5. /\ inUse' \in [Units \cup Gone -> BOOLEAN] /\ inUse'[u] = ~inUse[u]
      /\ \A w \in Units : w # u => inUse'[w] = inUse[w]
  BY <1>1, <1>2, <1>3
<1>6. /\ shown' \in [Units -> Seq(Nat)] /\ shown'[u] = Append(shown[u], c)
      /\ \A w \in Units : w # u => shown'[w] = shown[w]
  <2> DEFINE S == Seq(Nat)
             more == Append(shown[u], c)
  <2>1. shown \in [Units -> S] /\ more \in S /\ shown' = [shown EXCEPT ![u] = more]
    BY <1>1, <1>3, <1>4
  <2> HIDE DEF S, more
  <2>2. /\ shown' \in [Units -> S] /\ shown'[u] = more
        /\ \A w \in Units : w # u => shown'[w] = shown[w]
    BY <1>2, <2>1
  <2> QED
    BY <2>2 DEF S, more
<1>7. \A w \in Units : ToSet(shown'[w]) \subseteq ClipIds
  BY <1>3, <1>4, <1>6
<1>8. /\ DOMAIN clipViews' = DOMAIN clipViews \cup {c} /\ DOMAIN clipViews' \subseteq ClipIds
      /\ clipViews' \in [DOMAIN clipViews' -> ClipRecords]
      /\ \A d \in DOMAIN clipViews' : clipViews'[d] = IF d = c THEN clips[d] ELSE clipViews[d]
  BY <1>1, <1>2, <1>3
<1>9. DataTyped'
  BY <1>1, <1>5, <1>6, <1>7, <1>8 DEF CoreInv, DataTyped, valueVars, assetVars, ClipIds
<1>10. Document' = Document
  BY <1>1, DocumentTyped DEF valueVars
<1>11. x = act[Current] /\ x.step = SendStep(x.kind) + 1
  BY <1>1 DEF x, SendStep
<1>12. /\ InPlace /\ CoreInv' /\ ~Ran(act'[a]) /\ ~Sent(act'[a])
       /\ HistoryInv /\ Observe => HistoryInv' /\ UNCHANGED <<restDoc, restPast>>
  BY <1>1, <1>9, <1>10, <1>11, FinishKeeps
<1>13. Current' = a /\ actions' # <<>> /\ act'[Current'].kind = "LoadAsClip"
  BY <1>1, <1>11, <1>12, InPlaceOthers DEF InPlace, Same
<1>14. ASSUME ValuesShown
       PROVE  ValuesShown'
  <2>1. \A kind : ~Unshown(kind)'
    BY <1>12, <1>13 DEF Unshown, Ran, Sent
  <2>2. \A kind : kind # "LoadAsClip" => ~Unshown(kind)
    BY <1>1, <1>11 DEF Unshown
  <2>3. \A d \in DOMAIN clipViews' : clipViews'[d].start = clips[d].start
    BY <1>8, <1>14, <2>2 DEF ValuesShown
  <2> QED
    BY <1>1, <1>14, <2>1, <2>2, <2>3 DEF ValuesShown, valueVars, assetVars
<1>15. ASSUME ~removed, ShownPlayed
       PROVE  ShownPlayed'
  <2>1. Loading /\ Unshown("LoadAsClip") /\ ~Loading' /\ ~Unshown("LoadAsClip")'
    BY <1>1, <1>2, <1>11, <1>12, <1>13 DEF Loading, Unshown, Ran, Sent
  <2>2. box[u][m] = Append(shown[u], c) /\ rtBox[u] = m
    BY <1>2, <1>11, <1>15, <2>1 DEF ShownPlayed, u, c, m
  <2>3. \A w \in Units : w # u => rtBox[w] = 3 - Modifiable(w) /\ box[w][3 - Modifiable(w)] = shown[w]
    BY <1>11, <1>15, <2>1 DEF ShownPlayed, u
  <2>4. \A w \in Units : w = u => 3 - Modifiable(w)' = m
    <3> SUFFICES ASSUME NEW w \in Units, w = u
                 PROVE  3 - Modifiable(w)' = m
      OBVIOUS
    <3>1. inUse[w] \in BOOLEAN /\ inUse'[w] = ~inUse[w] /\ m = Modifiable(w)
      BY <1>3, <1>5 DEF m
    <3>2. CASE inUse[w] = TRUE
      <4>1. inUse'[w] = FALSE
        BY <3>1, <3>2
      <4> QED
        BY <3>1, <3>2, <4>1 DEF Modifiable
    <3>3. CASE inUse[w] = FALSE
      <4>1. inUse'[w] = TRUE
        BY <3>1, <3>3
      <4> QED
        BY <3>1, <3>3, <4>1 DEF Modifiable
    <3> QED
      BY <3>1, <3>2, <3>3

  <2>5. \A w \in Units : w # u => Modifiable(w)' = Modifiable(w)
    BY <1>5 DEF Modifiable
  <2>6. \A w \in Units : rtBox'[w] = 3 - Modifiable(w)' /\ box'[w][3 - Modifiable(w)'] = shown'[w]
    <3> SUFFICES ASSUME NEW w \in Units
                 PROVE  rtBox[w] = 3 - Modifiable(w)' /\ box[w][3 - Modifiable(w)'] = shown'[w]
      BY <1>1
    <3>1. CASE w = u
      BY <1>6, <2>2, <2>4, <3>1
    <3>2. CASE w # u
      BY <1>6, <2>3, <2>5, <3>2
    <3> QED
      BY <3>1, <3>2
  <2>7. /\ ~torn'
        /\ \A d \in ToSet(undoList') \cup ToSet(redoList') : act'[d].kind # "RemoveClip"
    BY <1>1, <1>12, <1>15, InPlaceOthers DEF ShownPlayed, InPlace
  <2> QED
    BY <1>13, <2>1, <2>6, <2>7 DEF ShownPlayed
<1> QED
  BY <1>1, <1>12, <1>14, <1>15 DEF Keeps, ClipsPlayed

\* The sampler is sent its file; with no sampler left the action waits for ever.
LEMMA SendAssetKeeps ==
  ASSUME CoreInv, NEW a \in ActionIds, SendAsset(a)
  PROVE  InPlace /\ Keeps
<1> DEFINE x == act[a]
           y == act'[a]
<1>1. /\ actions # <<>> /\ a = Current /\ idx \in Nat \ {0}
      /\ x.state = "Executing" /\ x.kind = "LoadAsset" /\ x.step = 2 /\ NextAction
      /\ IF x.unit \in Units THEN SendTask(a, act) ELSE UNCHANGED <<act, queueVars>>
      /\ UNCHANGED <<valueVars, clipVars, assetVars>>
  BY RunsCurrent DEF SendAsset
<1>2. CASE x.unit \notin Units
  BY <1>1, <1>2, IdleKeeps
<1>3. CASE x.unit \in Units
  <2>1. x \in ActionRecords /\ x.container \in {1, 2}
    BY <1>1, CurrentOwned DEF ActionRecords
  <2>2. /\ act' \in [ActionIds -> ActionRecords] /\ \A b \in ActionIds \ {a} : act'[b] = act[b]
        /\ Same(x, y) /\ y.state = "Waiting" /\ ~y.completed /\ y.step = 2 /\ y.item = x.item
        /\ y.container = x.container /\ y.old = x.old /\ rtTasks' = <<a>> /\ requests' = <<>>
    BY <1>1, <1>3, <2>1, SendNotes
  <2>3. InPlace
    BY <1>1, <2>2 DEF InPlace, NextAction
  <2> HIDE DEF x, y
  <2>4. x = act[Current] /\ y = act'[Current]
    BY <1>1 DEF x, y
  <2>5. CoreInv' /\ Sent(y) /\ ~Ran(y) /\ ~Ran(x) /\ ~Sent(x)
    <3>1. DataTyped' /\ clips' = clips
      BY <1>1 DEF CoreInv, DataTyped, valueVars, clipVars, assetVars, ClipIds
    <3> QED
      BY <1>1, <1>3, <2>2, <2>3, <2>4, <3>1, SentCore DEF SendStep, Replays, Loads
  <2>6. ValuesShown => ValuesShown'
    BY <1>1, <2>3, <2>4, <2>5, ValuesStay DEF valueVars, clipVars, assetVars
  <2>7. ClipsPlayed => ClipsPlayed'
    BY <1>1, <2>3, <2>4, <2>5, ClipsStay DEF clipVars
  <2>8. ASSUME HistoryInv, Observe
        PROVE  HistoryInv' /\ UNCHANGED <<restDoc, restPast>>
    <3>1. Document' = Document
      BY <1>1, DocumentTyped DEF valueVars, clipVars
    <3>2. \A c \in 1..Len(clips') : ~clips'[c].muted
      BY <1>1, <2>8 DEF HistoryInv, ClipIds, clipVars
    <3>3. x.kind \notin Undoables
      BY <1>1 DEF Undoables
    <3> QED
      BY <2>3, <2>4, <2>8, <3>1, <3>2, <3>3, LoadHistory
  <2> QED
    BY <2>3, <2>5, <2>6, <2>7, <2>8 DEF Keeps
<1> QED
  BY <1>2, <1>3

\* The snapshot shows the file that the sampler has now.
LEMMA ShowAssetKeeps ==
  ASSUME CoreInv, NEW a \in ActionIds, ShowAsset(a)
  PROVE  InPlace /\ Keeps
<1> DEFINE x == act[a]
           u == x.unit
<1>1. /\ actions # <<>> /\ a = Current
      /\ x.state = "Executing" /\ x.kind = "LoadAsset" /\ x.step = 3 /\ Finish(a) /\ NextAction
      /\ assetView' = [assetView EXCEPT ![u] = asset[u]]
      /\ UNCHANGED <<valueVars, clipVars, asset>>
  BY RunsCurrent DEF ShowAsset
<1>2. Ran(x) /\ u \in Units
  BY <1>1, CurrentOwned DEF Ran, SendStep, UnderWay, Loads
<1>3. asset \in [Units -> Assets] /\ assetView \in [Units -> Assets]
  BY DEF CoreInv, DataTyped
<1> HIDE DEF x, u
<1>4. /\ assetView' \in [Units -> Assets] /\ assetView'[u] = asset[u]
      /\ \A w \in Units : w # u => assetView'[w] = assetView[w]
  BY <1>1, <1>2, <1>3
<1>5. DataTyped'
  BY <1>1, <1>4 DEF CoreInv, DataTyped, valueVars, clipVars, ClipIds
<1>6. Document' = Document /\ clips' = clips
  BY <1>1, DocumentTyped DEF valueVars, clipVars
<1>7. x = act[Current] /\ x.step = SendStep(x.kind) + 1 /\ u = x.unit
  BY <1>1 DEF x, u, SendStep
<1>8. /\ InPlace /\ CoreInv' /\ ~Ran(act'[a]) /\ ~Sent(act'[a])
      /\ HistoryInv /\ Observe => HistoryInv' /\ UNCHANGED <<restDoc, restPast>>
  BY <1>1, <1>5, <1>6, <1>7, FinishKeeps
<1>9. Current' = a /\ actions' # <<>>
  BY <1>1, <1>8, InPlaceOthers
<1>10. ASSUME ValuesShown
       PROVE  ValuesShown'
  <2>1. \A kind : ~Unshown(kind)'
    BY <1>8, <1>9 DEF Unshown, Ran, Sent
  <2>2. \A kind : kind # "LoadAsset" => ~Unshown(kind)
    BY <1>1, <1>7 DEF Unshown
  <2>3. \A w \in Units : assetView'[w] = asset[w]
    BY <1>4, <1>7, <1>10 DEF ValuesShown
  <2> QED
    BY <1>1, <1>10, <2>1, <2>2, <2>3 DEF ValuesShown, valueVars, clipVars
<1>11. ClipsPlayed => ClipsPlayed'
  BY <1>1, <1>7, <1>8, ClipsStay DEF clipVars
<1> QED
  BY <1>8, <1>10, <1>11 DEF Keeps

(* ---------------------------- clips that are removed --------------------- *)

\* A removal is sent: the action notes the container, and if it goes forward the
\* document that it found.
LEMMA SendRemoves ==
  ASSUME CoreInv, actions # <<>>, act[Current].state = "Executing", NEW b \in {1, 2},
         SendTask(Current, [Remember(Current, act[Current].old) EXCEPT ![Current].container = b])
  PROVE  /\ act' \in [ActionIds -> ActionRecords]
         /\ \A c \in ActionIds \ {Current} : act'[c] = act[c]
         /\ Same(act[Current], act'[Current])
         /\ act'[Current].state = "Waiting" /\ ~act'[Current].completed
         /\ act'[Current].step = act[Current].step /\ act'[Current].item = act[Current].item
         /\ act'[Current].old = act[Current].old
         /\ act'[Current].before = IF act[Current].direction = "Forward" THEN Document ELSE act[Current].before
         /\ rtTasks' = <<Current>> /\ requests' = <<>>
<1> DEFINE a == Current
           x == act[a]
           y == act'[a]
           o == x.old
<1>1. /\ a \in ActionIds /\ x \in ActionRecords /\ act \in [ActionIds -> ActionRecords]
      /\ rtTasks = <<>> /\ requests = <<>> /\ Document \in Documents
      /\ o \in Values \cup ClipRecords
  BY CurrentOwned, NothingSent, DocumentTyped DEF CoreInv, ListsTyped, ActionRecords
<1>2. rtTasks' = <<a>> /\ requests' = <<>>
  BY <1>1 DEF SendTask
<1>3. act' = [[Remember(a, o) EXCEPT ![a].container = b] EXCEPT ![a].state = "Waiting", ![a].completed = FALSE]
  BY DEF SendTask
<1> HIDE DEF a, o
<1>4. CASE x.direction = "Forward"
  <2>1. /\ y = [x EXCEPT !.old = o, !.before = Document, !.container = b, !.state = "Waiting", !.completed = FALSE]
        /\ \A c \in ActionIds \ {a} : act'[c] = act[c]
        /\ act' = [act EXCEPT ![a] = y]
    BY <1>1, <1>3, <1>4 DEF Remember, Forward
  <2>2. x.old = o
    BY DEF o
  <2> HIDE DEF x, y
  <2>3. /\ y \in ActionRecords /\ Same(x, y) /\ y.state = "Waiting" /\ ~y.completed /\ y.step = x.step
        /\ y.item = x.item /\ y.old = o /\ y.before = Document
    BY <1>1, <2>1 DEF ActionRecords, Same
  <2> QED
    BY <1>1, <1>2, <1>4, <2>1, <2>2, <2>3 DEF a, x, y
<1>5. CASE x.direction # "Forward"
  <2>1. /\ y = [x EXCEPT !.container = b, !.state = "Waiting", !.completed = FALSE]
        /\ \A c \in ActionIds \ {a} : act'[c] = act[c]
        /\ act' = [act EXCEPT ![a] = y]
    BY <1>1, <1>3, <1>5 DEF Remember, Forward
  <2> HIDE DEF x, y
  <2>2. /\ y \in ActionRecords /\ Same(x, y) /\ y.state = "Waiting" /\ ~y.completed /\ y.step = x.step
        /\ y.item = x.item /\ y.old = x.old /\ y.before = x.before
    BY <1>1, <2>1 DEF ActionRecords, Same
  <2> QED
    BY <1>1, <1>2, <1>5, <2>1, <2>2 DEF a, x, y
<1> QED
  BY <1>4, <1>5

\* A clip that the unit plays leaves the snapshot and the container that is filled
\* anew; of a clip that it does not play nothing more is done.
LEMMA RemoveClip1Keeps ==
  ASSUME CoreInv, NEW a \in ActionIds, RemoveClip1(a)
  PROVE  InPlace /\ Keeps
<1> DEFINE x == act[a]
           y == act'[a]
           u == x.unit
           b == Modifiable(u)
           c == x.clip
           played == box[u][rtBox[u]]
<1>1. /\ actions # <<>> /\ a = Current /\ idx \in Nat \ {0}
      /\ x.state = "Executing" /\ x.kind = "RemoveClip" /\ x.step = 1 /\ NextAction
      /\ \E rest \in Without(shown[u], c) : shown' = [shown EXCEPT ![u] = rest]
      /\ IF c \in ToSet(played)
         THEN /\ \E rest \in Without(played, c) : box' = [box EXCEPT ![u][b] = rest]
              /\ torn' = Tears(u, b)
              /\ removed' = TRUE
              /\ SendTask(a, [Remember(a, x.old) EXCEPT ![a].container = b])
         ELSE UNCHANGED <<box, torn, removed, act, queueVars>>
      /\ UNCHANGED <<valueVars, clips, clipViews, inUse, rtBox, assetVars>>
  BY RunsCurrent DEF RemoveClip1
<1>2. /\ x \in ActionRecords /\ Fits(x) /\ UnderWay(x) /\ u \in Units /\ b \in {1, 2}
      /\ act \in [ActionIds -> ActionRecords]
  BY <1>1, CurrentOwned, Containers DEF Fits, CoreInv, ListsTyped
<1> HIDE DEF b
<1>3. shown' \in [Units -> Seq(Nat)] /\ \A w \in Units : ToSet(shown'[w]) \subseteq ClipIds
  <2> DEFINE S == Seq(Nat)
  <2>1. shown \in [Units -> S] /\ \A w \in Units : ToSet(shown[w]) \subseteq ClipIds
    BY DEF CoreInv, DataTyped
  <2>2. PICK rest \in Without(shown[u], c) : shown' = [shown EXCEPT ![u] = rest]
    BY <1>1
  <2>3. rest \in S /\ ToSet(rest) \subseteq ToSet(shown[u])
    BY <1>2, <2>1, WithoutElements
  <2> HIDE DEF S, u
  <2>4. shown' \in [Units -> S] /\ \A w \in Units : shown'[w] = IF w = u THEN rest ELSE shown[w]
    BY <1>2, <2>1, <2>2, <2>3
  <2>5. \A w \in Units : ToSet(shown'[w]) \subseteq ClipIds
    BY <1>2, <2>1, <2>3, <2>4
  <2> QED
    BY <2>4, <2>5 DEF S
<1>4. box' \in [Units \cup Gone -> [{1, 2} -> Seq(Nat)]]
  <2>1. CASE c \in ToSet(played)
    <3>1. PICK rest \in Without(played, c) : box' = [box EXCEPT ![u][b] = rest]
      BY <1>1, <2>1
    <3>2. rest \in Seq(Nat)
      <4> DEFINE S == Seq(Nat)
      <4>1. box \in [Units \cup Gone -> [{1, 2} -> S]] /\ rtBox \in [Units -> {1, 2}]
        BY DEF CoreInv, DataTyped
      <4> HIDE DEF S, u
      <4>2. played \in S
        BY <1>2, <4>1
      <4> QED
        BY <3>1, <4>2, WithoutElements DEF S

    <3> QED
      BY <1>2, <3>1, <3>2, ContainerFilled DEF b
  <2>2. CASE c \notin ToSet(played)
    BY <1>1, <2>2 DEF CoreInv, DataTyped
  <2> QED
    BY <2>1, <2>2
<1>5. DataTyped' /\ clips' = clips
  BY <1>1, <1>3, <1>4 DEF CoreInv, DataTyped, valueVars, assetVars, ClipIds, Tears
<1>6. Document' = Document /\ Document \in Documents
  BY <1>1, DocumentTyped DEF valueVars
<1>7. CASE c \in ToSet(played)
  <2>1. /\ act' \in [ActionIds -> ActionRecords] /\ \A d \in ActionIds \ {a} : act'[d] = act[d]
        /\ Same(x, y) /\ y.state = "Waiting" /\ ~y.completed /\ y.step = 1 /\ y.item = x.item /\ y.old = x.old
        /\ y.before = IF x.direction = "Forward" THEN Document ELSE x.before
        /\ rtTasks' = <<a>> /\ requests' = <<>> /\ removed' = TRUE
    BY <1>1, <1>2, <1>7, SendRemoves
  <2>2. InPlace
    BY <1>1, <2>1 DEF InPlace, NextAction
  <2> HIDE DEF x, y
  <2>3. x = act[Current] /\ y = act'[Current]
    BY <1>1 DEF x, y
  <2>4. CoreInv' /\ Sent(y) /\ ~Ran(y) /\ ~Ran(x) /\ ~Sent(x)
    BY <1>1, <1>5, <2>1, <2>2, <2>3, SentCore DEF SendStep, Replays, Loads
  <2>5. ValuesShown => ValuesShown'
    BY <1>1, <2>2, <2>3, <2>4, ValuesStay DEF valueVars, assetVars
  <2>6. ASSUME HistoryInv, Observe
        PROVE  HistoryInv' /\ UNCHANGED <<restDoc, restPast>>
    <3>1. Heard(y) /\ Fresh(x) /\ x.kind \in Undoables
      BY <1>1, <2>1 DEF Heard, Same, Fresh, Undoables
    <3>2. x.direction = "Forward" => TakesBack(y, Document, Document)
      BY <1>1, <1>6, <2>1 DEF TakesBack, Same
    <3> QED
      BY <1>5, <1>6, <2>1, <2>2, <2>3, <2>4, <2>6, <3>1, <3>2, SentHistory
  <2> QED
    BY <2>1, <2>2, <2>4, <2>5, <2>6 DEF Keeps, ClipsPlayed
<1>8. CASE c \notin ToSet(played)
  <2>1. act' = act /\ UNCHANGED <<box, torn, removed, queueVars>>
    BY <1>1, <1>8
  <2>2. InPlace
    BY <1>1, <1>2, <2>1 DEF InPlace, NextAction, Same
  <2>3. Current' = a /\ actions' # <<>>
    BY <1>1, <2>2, InPlaceOthers
  <2>4. CoreInv'
    <3>1. TasksUnderWay'
      BY <1>1, <2>1, <2>3 DEF CoreInv, TasksUnderWay, queueVars, Sent
    <3>2. Len(clips) <= Len(clips')
      BY <1>5 DEF CoreInv, DataTyped
    <3> QED
      BY <1>1, <1>2, <1>5, <2>1, <2>2, <3>1, <3>2, InPlaceCore DEF Fits, ClipIds
  <2>5. ValuesShown => ValuesShown'
    BY <1>1, <2>1, <2>2, ValuesStay DEF valueVars, assetVars
  <2>6. ASSUME ~removed, ShownPlayed
        PROVE  FALSE
    <3>1. c \in ToSet(shown[u]) /\ ~Unshown("LoadAsClip")
      BY <1>1, <2>6 DEF ShownPlayed, Unshown
    <3>2. box[u][rtBox[u]] = shown[u]
      BY <1>2, <2>6, <3>1 DEF ShownPlayed
    <3> QED
      BY <1>8, <3>1, <3>2
  <2>7. ASSUME HistoryInv, Observe
        PROVE  HistoryInv' /\ UNCHANGED <<restDoc, restPast>>
    <3>1. restDoc' = restDoc
      BY <2>3, <2>7 DEF Observe, historyVars
    <3>2. (\A d \in 1..Len(clips') : ~clips'[d].muted) /\ Heard(x)
      BY <1>1, <1>5, <2>7 DEF HistoryInv, ClipIds, Heard
    <3>3. x.direction = "Forward" => ForwardUnderWay(x)
      BY <1>1, <2>7 DEF HistoryInv
    <3>4. x.direction = "Backward" => BackwardUnderWay(x)
      BY <1>1, <2>7 DEF HistoryInv
    <3>5. x.direction = "Forward" => ForwardUnderWay(act[Current])'
      BY <1>1, <1>6, <2>1, <2>3, <3>1, <3>3 DEF ForwardUnderWay, Fresh, TakesBack
    <3>6. x.direction = "Backward" => BackwardUnderWay(act[Current])'
      BY <1>1, <1>6, <2>1, <2>3, <3>1, <3>4 DEF BackwardUnderWay, Ran, Sent, TakesBack
    <3> QED
      BY <1>1, <2>1, <2>2, <2>7, <3>2, <3>5, <3>6, HistoryStays
  <2> QED
    BY <2>1, <2>2, <2>4, <2>5, <2>6, <2>7 DEF Keeps, ClipsPlayed
<1> QED
  BY <1>7, <1>8

\* The removal is finished.
LEMMA RemoveClip2Keeps ==
  ASSUME CoreInv, NEW a \in ActionIds, RemoveClip2(a)
  PROVE  InPlace /\ Keeps
<1> DEFINE x == act[a]
<1>1. /\ actions # <<>> /\ a = Current
      /\ x.state = "Executing" /\ x.kind = "RemoveClip" /\ x.step = 2 /\ Finish(a) /\ NextAction
      /\ UNCHANGED <<valueVars, clipVars, assetVars>>
  BY RunsCurrent DEF RemoveClip2
<1>2. DataTyped' /\ clips' = clips /\ Document' = Document
  BY <1>1, DocumentTyped DEF CoreInv, DataTyped, valueVars, clipVars, assetVars, ClipIds
<1>3. /\ InPlace /\ CoreInv' /\ ~Ran(act'[a]) /\ ~Sent(act'[a])
      /\ HistoryInv /\ Observe => HistoryInv' /\ UNCHANGED <<restDoc, restPast>>
  BY <1>1, <1>2, FinishKeeps DEF SendStep
<1>4. Current' = a /\ actions' # <<>>
  BY <1>1, <1>3, InPlaceOthers
<1>5. ASSUME ValuesShown
      PROVE  ValuesShown'
  <2>1. \A kind : ~Unshown(kind)'
    BY <1>3, <1>4 DEF Unshown, Ran, Sent
  <2>2. \A kind : kind # "RemoveClip" => ~Unshown(kind)
    BY <1>1 DEF Unshown
  <2> QED
    BY <1>1, <1>5, <2>1, <2>2 DEF ValuesShown, valueVars, clipVars, assetVars
<1>6. ASSUME ~removed, ShownPlayed
      PROVE  FALSE
  BY <1>1, <1>6 DEF ShownPlayed
<1>7. removed' = removed
  BY <1>1 DEF clipVars
<1> QED
  BY <1>3, <1>5, <1>6, <1>7 DEF Keeps, ClipsPlayed

(* ------------------------------ tasks and files -------------------------- *)

\* The task that runs is that of the edit under way, which has it done then.
LEMMA TaskRan ==
  ASSUME CoreInv, RunTask
  PROVE  /\ actions # <<>> /\ InPlace /\ Sent(act[Current]) /\ ~Ran(act[Current])
         /\ Sent(act'[Current]) /\ Ran(act'[Current])
         /\ act'[Current].old = act[Current].old /\ act'[Current].before = act[Current].before
         /\ act'[Current].item = act[Current].item /\ act'[Current].container = act[Current].container
         /\ act'[Current].state = "Waiting" /\ act[Current].state = "Waiting"
         /\ Current' = Current /\ actions' # <<>>
         /\ \A kind : ~Unshown(kind)
         /\ \A kind : Unshown(kind)' => kind = act[Current].kind
         /\ act[Current].kind \in {"SetValue", "ModifyClipItem", "LoadAsClip", "RemoveClip", "LoadAsset"}
         /\ act[Current].kind # "ModifyClipItem" => act[Current].unit \in Units
         /\ ExecRT(Current)
         /\ DataTyped' /\ Len(clips) <= Len(clips') => CoreInv'
<1> DEFINE a == Current
           x == act[a]
           y == act'[a]
<1>1. /\ rtTasks # <<>> /\ ExecRT(Head(rtTasks)) /\ rtTasks' = Tail(rtTasks)
      /\ act' = [act EXCEPT ![Head(rtTasks)].completed = TRUE]
      /\ UNCHANGED <<listVars, requests, emits>>
  BY DEF RunTask
<1>2. actions # <<>> /\ Sent(x) /\ ~x.completed /\ rtTasks = <<a>>
  BY <1>1 DEF CoreInv, TasksUnderWay
<1>3. ExecRT(a) /\ rtTasks' = <<>> /\ act' = [act EXCEPT ![a].completed = TRUE]
  BY <1>1, <1>2
<1>4. /\ a \in ActionIds /\ x \in ActionRecords /\ act \in [ActionIds -> ActionRecords]
      /\ Fits(x) /\ UnderWay(x)
  BY <1>2, CurrentOwned DEF CoreInv, ListsTyped
<1> HIDE DEF a
<1>5. /\ y = [x EXCEPT !.completed = TRUE] /\ \A b \in ActionIds \ {a} : act'[b] = act[b]
      /\ act' = [act EXCEPT ![a] = y]
  BY <1>3, <1>4
<1> HIDE DEF x, y
<1>6. /\ y \in ActionRecords /\ Same(x, y) /\ y.state = x.state /\ y.step = x.step /\ y.completed
      /\ y.opened = x.opened /\ y.old = x.old /\ y.before = x.before /\ y.item = x.item
      /\ y.container = x.container
  BY <1>4, <1>5 DEF ActionRecords, Same
<1>7. x = act[Current] /\ y = act'[Current] /\ a = Current
  BY DEF x, y, a
<1>8. InPlace
  BY <1>1, <1>2, <1>4, <1>5, <1>6, <1>7 DEF InPlace, listVars, CoreInv, ListsTyped
<1>9. Current' = Current /\ actions' # <<>>
  BY <1>8, InPlaceOthers
<1>10. /\ x.state = "Waiting" /\ y.state = "Waiting" /\ Sent(y) /\ Ran(y) /\ ~Ran(x)
  BY <1>2, <1>6, <1>7 DEF Ran, Sent, Same
<1>11. /\ x.kind \in {"SetValue", "ModifyClipItem", "LoadAsClip", "RemoveClip", "LoadAsset"}
       /\ x.kind # "ModifyClipItem" => x.unit \in Units
  BY <1>2, <1>4, <1>7, <1>10 DEF UnderWay, Fits, ActionRecords, Kinds, Undoables, Replays, Loads
<1>12. ASSUME DataTyped', Len(clips) <= Len(clips')
       PROVE  CoreInv'
  <2>1. UnderWay(y)
    BY <1>2, <1>4, <1>6, <1>7, <1>10 DEF UnderWay, Same, Loads, Replays
  <2>2. TasksUnderWay'
    <3>1. requests' = requests
      BY <1>1
    <3>2. requests # <<>> => /\ requests = <<a>> /\ y.kind \in Loads /\ y.step = 1 /\ y.state = "Waiting"
                             /\ y.opened = "no" /\ y.file \in Files

      BY <1>6, <1>7 DEF CoreInv, TasksUnderWay, Same
    <3> QED
      BY <1>3, <1>6, <1>7, <1>9, <3>1, <3>2 DEF TasksUnderWay
  <2>3. x.kind = "SetValue" => y.old \in Values
    BY <1>4, <1>6 DEF Fits
  <2>4. x.kind = "ModifyClipItem" => y.old \in ClipRecords
    BY <1>4, <1>6 DEF Fits
  <2>5. x.kind = "LoadAsClip" /\ y.step \in {3, 4} => y.item \in 1..Len(clips')
    <3>1. x.kind = "LoadAsClip" /\ x.step \in {3, 4} => x.item \in 1..Len(clips)
      BY <1>4 DEF Fits, ClipIds
    <3> QED
      BY <1>6, <1>12, <3>1 DEF CoreInv, DataTyped
  <2> QED
    BY <1>7, <1>8, <1>12, <2>1, <2>2, <2>3, <2>4, <2>5, InPlaceCore
<1>13. \A kind : ~Unshown(kind) /\ (Unshown(kind)' => kind = x.kind)
  BY <1>6, <1>7, <1>9, <1>10 DEF Unshown, Same, Ran, Sent
<1> QED
  BY <1>2, <1>3, <1>6, <1>7, <1>8, <1>9, <1>10, <1>11, <1>12, <1>13

\* The task of a value writes it to the unit.
LEMMA RunValueKeeps ==
  ASSUME CoreInv, RunTask, act[Current].kind = "SetValue"
  PROVE  Keeps
<1> DEFINE a == Current
           x == act[a]
           y == act'[a]
           u == x.unit
           t == x.attribute
           v == Target(a)
<1>1. /\ actions # <<>> /\ InPlace /\ Sent(x) /\ ~Ran(x) /\ Sent(y) /\ Ran(y)
      /\ y.old = x.old /\ y.before = x.before /\ y.state = "Waiting" /\ x.state = "Waiting"
      /\ Current' = a /\ actions' # <<>> /\ ExecRT(a) /\ u \in Units
      /\ \A kind : ~Unshown(kind) /\ (Unshown(kind)' => kind = "SetValue")
      /\ DataTyped' /\ Len(clips) <= Len(clips') => CoreInv'
  BY TaskRan
<1>2. x \in ActionRecords /\ Fits(x) /\ UnderWay(x) /\ Same(x, y)
  BY <1>1, CurrentOwned DEF InPlace
<1>3. t \in RtAttributes /\ x.old \in Values /\ v \in Values /\ v = Aim(x) /\ Aim(y) = Aim(x)
  BY <1>1, <1>2 DEF Fits, UnderWay, AllAttributes, Target, Forward, Aim, Same
<1>4. /\ unit' = [unit EXCEPT ![u][t] = v] /\ UNCHANGED <<clips, rtBox, asset>>
      /\ UNCHANGED <<view, clipViews, box, inUse, shown, torn, removed, assetView>>
  BY <1>1 DEF RunTask, ExecRT
<1>5. unit \in UnitValues /\ view \in ViewValues /\ clips \in Seq(ClipRecords) /\ Document \in Documents
  BY DocumentTyped DEF CoreInv, DataTyped
<1> HIDE DEF x, y, a, u, t, v
<1>6. unit' \in UnitValues /\ Document' = With(Document, u, t, v)
  <2>1. Sets(unit, unit', u, t, v)
    BY <1>4 DEF Sets
  <2>2. unit' \in UnitValues /\ DocumentOf(unit', view, clips) = With(DocumentOf(unit, view, clips), u, t, v)
    BY <1>1, <1>3, <1>5, <2>1, ValueSet
  <2> QED
    BY <1>4, <2>2, DocumentIs
<1>7. CoreInv'
  BY <1>1, <1>4, <1>6 DEF CoreInv, DataTyped, ClipIds
<1>8. x = act[Current] /\ y = act'[Current] /\ y = act'[Current'] /\ u = x.unit /\ t = x.attribute /\ y.kind = "SetValue"
  BY <1>1, <1>2 DEF x, y, a, u, t, Same
<1>9. ASSUME ValuesShown
      PROVE  ValuesShown'
  <2>1. \A w \in Units, s \in RtAttributes : view[w][s] = unit[w][s]
    BY <1>1, <1>9 DEF ValuesShown
  <2>2. \A w \in Units, s \in RtAttributes : unit'[w][s] = IF w = u /\ s = t THEN v ELSE unit[w][s]
    BY <1>1, <1>3, <1>4, <1>5 DEF UnitValues
  <2>3. \A w \in Units, s \in RtAttributes : view'[w][s] # unit'[w][s] => w = u /\ s = t
    BY <1>4, <2>1, <2>2
  <2>4. Unshown("SetValue")' /\ y.unit = u /\ y.attribute = t
    BY <1>1, <1>2, <1>8 DEF Unshown, Same, Ran, Sent
  <2>5. unit'[u][t] = Aim(y)
    BY <1>1, <1>3, <2>2
  <2>6. \A c \in DOMAIN clipViews : clipViews[c].start = clips[c].start
    BY <1>1, <1>9 DEF ValuesShown
  <2>7. \A w \in Units : assetView[w] = asset[w]
    BY <1>1, <1>9 DEF ValuesShown
  <2>8. Aim(act[Current])' = Aim(y)
    BY <1>8 DEF Aim
  <2> QED
    BY <1>1, <1>4, <1>8, <2>3, <2>4, <2>5, <2>6, <2>7, <2>8 DEF ValuesShown
<1>10. ClipsPlayed => ClipsPlayed'
  BY <1>1, <1>4, <1>8, ClipsStay
<1>11. ASSUME HistoryInv, Observe
       PROVE  HistoryInv' /\ UNCHANGED <<restDoc, restPast>>
  <2>1. restDoc' = restDoc
    BY <1>1, <1>11 DEF Observe, historyVars
  <2>2. (\A c \in 1..Len(clips') : ~clips'[c].muted) /\ Heard(y)
    BY <1>4, <1>8, <1>11 DEF HistoryInv, ClipIds, Heard
  <2>3. ASSUME x.direction = "Forward"
        PROVE  ForwardUnderWay(act[Current])'
    <3>1. ForwardUnderWay(x)
      BY <1>1, <1>8, <1>11, <2>3 DEF HistoryInv
    <3>2. x.before = restDoc /\ restDoc \in Documents /\ restDoc = With(Document, u, t, x.old)
      BY <1>1, <1>2, <1>8, <3>1 DEF ForwardUnderWay, Fresh, Undoables, TakesBack, Same
    <3>3. With(Document', u, t, x.old) = With(Document, u, t, x.old)
      BY <1>1, <1>3, <1>5, <1>6, WithTwice
    <3>4. TakesBack(y, Document', restDoc)
      BY <1>1, <1>2, <1>8, <3>2, <3>3 DEF TakesBack, Same
    <3> QED
      BY <1>1, <1>8, <2>1, <3>2, <3>4 DEF ForwardUnderWay, Fresh, Undoables, TakesBack
  <2>4. ASSUME x.direction = "Backward"
        PROVE  BackwardUnderWay(act[Current])' /\ y.before = x.before
    <3>1. BackwardUnderWay(x)
      BY <1>1, <1>8, <1>11, <2>4 DEF HistoryInv
    <3>2. Document = restDoc /\ TakesBack(x, restDoc, x.before)
      BY <1>1, <3>1 DEF BackwardUnderWay
    <3>3. v = x.old
      BY <1>3, <2>4 DEF Aim
    <3>4. Document' = x.before
      BY <1>2, <1>6, <1>8, <3>2, <3>3 DEF TakesBack, Same
    <3>5. TakesBack(y, restDoc, x.before)
      BY <1>1, <1>2, <3>2 DEF TakesBack, Same
    <3> QED
      BY <1>1, <1>8, <2>1, <3>4, <3>5 DEF BackwardUnderWay, TakesBack, Ran, Sent
  <2> QED
    BY <1>1, <1>8, <1>11, <2>2, <2>3, <2>4, HistoryStays
<1> QED
  BY <1>7, <1>9, <1>10, <1>11 DEF Keeps

\* The task of a clip edit puts the clip in its place.
LEMMA RunClipKeeps ==
  ASSUME CoreInv, RunTask, act[Current].kind = "ModifyClipItem"
  PROVE  Keeps
<1> DEFINE a == Current
           x == act[a]
           y == act'[a]
           c == x.clip
           v == Target(a)
           r == ClipToSet(a)
<1>1. /\ actions # <<>> /\ InPlace /\ Sent(x) /\ ~Ran(x) /\ Sent(y) /\ Ran(y)
      /\ y.old = x.old /\ y.before = x.before /\ y.state = "Waiting" /\ x.state = "Waiting"
      /\ Current' = a /\ actions' # <<>> /\ ExecRT(a)
      /\ \A kind : ~Unshown(kind) /\ (Unshown(kind)' => kind = "ModifyClipItem")
      /\ DataTyped' /\ Len(clips) <= Len(clips') => CoreInv'
  BY TaskRan
<1>2. x \in ActionRecords /\ Fits(x) /\ UnderWay(x) /\ Same(x, y)
  BY <1>1, CurrentOwned DEF InPlace
<1>3. c \in 1..Len(clips) /\ x.old \in ClipRecords /\ x.value \in ClipRecords
  BY <1>2 DEF Fits, ClipIds
<1>4. v \in ClipRecords /\ v = Aim(x) /\ Aim(y) = Aim(x)
  BY <1>1, <1>2, <1>3 DEF Target, Forward, Aim, Same
<1>5. r \in ClipRecords /\ r.start = v.start /\ r.muted = x.value.muted
  BY <1>3, <1>4 DEF ClipToSet, ClipRecords
<1>6. /\ clips' = [clips EXCEPT ![c] = r] /\ UNCHANGED <<unit, rtBox, asset>>
      /\ UNCHANGED <<view, clipViews, box, inUse, shown, torn, removed, assetView>>
  BY <1>1 DEF RunTask, ExecRT
<1>7. unit \in UnitValues /\ view \in ViewValues /\ clips \in Seq(ClipRecords) /\ Document \in Documents
  BY DocumentTyped DEF CoreInv, DataTyped
<1>8. ~x.value.muted /\ ~v.muted => r = v
  BY <1>3, <1>4 DEF ClipToSet, ClipRecords
<1> HIDE DEF x, y, a, c, v, r
<1>9. /\ clips' \in Seq(ClipRecords) /\ Len(clips') = Len(clips) /\ Document' = WithClip(Document, c, r)
      /\ \A d \in ClipIds : clips'[d] = IF d = c THEN r ELSE clips[d]
  <2>1. Puts(clips, clips', c, r)
    BY <1>6 DEF Puts
  <2>2. /\ clips' \in Seq(ClipRecords) /\ Len(clips') = Len(clips)
        /\ DocumentOf(unit, view, clips') = WithClip(DocumentOf(unit, view, clips), c, r)
    BY <1>3, <1>5, <1>7, <2>1, ClipSet
  <2>3. \A d \in ClipIds : clips'[d] = IF d = c THEN r ELSE clips[d]
    BY <1>3, <1>5, <1>6, <1>7, ReplaceElements DEF ClipIds
  <2> QED
    BY <1>6, <2>2, <2>3, DocumentIs
<1>10. CoreInv'
  <2>1. Len(clips) <= Len(clips')
    BY <1>7, <1>9
  <2> QED
    BY <1>1, <1>6, <1>9, <2>1 DEF CoreInv, DataTyped, ClipIds
<1>11. /\ x = act[Current] /\ y = act'[Current] /\ y = act'[Current'] /\ c = x.clip
       /\ y.kind = "ModifyClipItem" /\ x.kind = "ModifyClipItem" /\ y.clip = c
  BY <1>1, <1>2 DEF x, y, a, c, Same
<1>12. ASSUME ValuesShown
       PROVE  ValuesShown'
  <2>1. \A w \in Units, s \in RtAttributes : view[w][s] = unit[w][s]
    BY <1>1, <1>12 DEF ValuesShown
  <2>2. \A w \in Units : assetView[w] = asset[w]
    BY <1>1, <1>12 DEF ValuesShown
  <2>3. \A d \in DOMAIN clipViews : d # c => clipViews[d].start = clips'[d].start
    <3>1. DOMAIN clipViews \subseteq ClipIds
      BY DEF CoreInv, DataTyped
    <3> QED
      BY <1>1, <1>9, <1>12, <3>1 DEF ValuesShown
  <2>4. Unshown("ModifyClipItem")'
    BY <1>1, <1>11 DEF Unshown, Ran, Sent
  <2>5. clips'[c].start = Aim(y).start
    BY <1>3, <1>4, <1>5, <1>9 DEF ClipIds
  <2>6. Aim(act[Current])' = Aim(y)
    BY <1>11 DEF Aim
  <2>7. ~Unshown("SetValue")' /\ ~Unshown("LoadAsset")'
    BY <1>1
  <2> QED
    BY <1>6, <1>11, <2>1, <2>2, <2>3, <2>4, <2>5, <2>6, <2>7 DEF ValuesShown
<1>13. ClipsPlayed => ClipsPlayed'
  BY <1>1, <1>6, <1>11, ClipsStay
<1>14. ASSUME HistoryInv, Observe
       PROVE  HistoryInv' /\ UNCHANGED <<restDoc, restPast>>
  <2>1. restDoc' = restDoc
    BY <1>1, <1>14 DEF Observe, historyVars
  <2>2. Heard(x) /\ Heard(y) /\ ~x.value.muted /\ ~x.old.muted
    <3>1. Heard(x)
      BY <1>1, <1>11, <1>14, CurrentOwned DEF HistoryInv, Owned
    <3> QED
      BY <1>1, <1>2, <1>11, <3>1 DEF Heard, Same
  <2>3. r = v
    <3>1. ~v.muted
      BY <1>4, <2>2 DEF Aim
    <3> QED
      BY <1>8, <2>2, <3>1
  <2>4. \A d \in 1..Len(clips') : ~clips'[d].muted
    BY <1>5, <1>9, <1>14, <2>2 DEF HistoryInv, ClipIds
  <2>5. ASSUME x.direction = "Forward"
        PROVE  ForwardUnderWay(act[Current])'
    <3>1. ForwardUnderWay(x)
      BY <1>1, <1>11, <1>14, <2>5 DEF HistoryInv
    <3>2. x.before = restDoc /\ restDoc \in Documents /\ restDoc = WithClip(Document, c, x.old)
      BY <1>1, <1>2, <1>11, <3>1 DEF ForwardUnderWay, Fresh, Undoables, TakesBack, Same
    <3>3. WithClip(Document', c, x.old) = WithClip(Document, c, x.old)
      BY <1>3, <1>5, <1>7, <1>9, WithClipTwice
    <3>4. TakesBack(y, Document', restDoc)
      BY <1>1, <1>2, <1>11, <3>2, <3>3 DEF TakesBack, Same
    <3> QED
      BY <1>1, <1>11, <2>1, <3>2, <3>4 DEF ForwardUnderWay, Fresh, Undoables, TakesBack
  <2>6. ASSUME x.direction = "Backward"
        PROVE  BackwardUnderWay(act[Current])' /\ y.before = x.before
    <3>1. BackwardUnderWay(x)
      BY <1>1, <1>11, <1>14, <2>6 DEF HistoryInv
    <3>2. Document = restDoc /\ TakesBack(x, restDoc, x.before)
      BY <1>1, <3>1 DEF BackwardUnderWay
    <3>3. v = x.old
      BY <1>4, <2>6 DEF Aim
    <3>4. Document' = x.before
      BY <1>2, <1>9, <1>11, <2>3, <3>2, <3>3 DEF TakesBack, Same
    <3>5. TakesBack(y, restDoc, x.before)
      BY <1>1, <1>2, <3>2 DEF TakesBack, Same
    <3> QED
      BY <1>1, <1>11, <2>1, <3>4, <3>5 DEF BackwardUnderWay, TakesBack, Ran, Sent
  <2> QED
    BY <1>1, <1>11, <1>14, <2>2, <2>4, <2>5, <2>6, HistoryStays
<1> QED
  BY <1>10, <1>12, <1>13, <1>14 DEF Keeps

\* The task of a clip loaded or removed has the unit play the other container.
LEMMA RunContainerKeeps ==
  ASSUME CoreInv, RunTask, act[Current].kind \in {"LoadAsClip", "RemoveClip"}
  PROVE  Keeps
<1> DEFINE a == Current
           x == act[a]
           y == act'[a]
           u == x.unit
           b == x.container
<1>1. /\ actions # <<>> /\ InPlace /\ Sent(x) /\ ~Ran(x) /\ Sent(y) /\ Ran(y)
      /\ y.old = x.old /\ y.before = x.before /\ y.state = "Waiting" /\ x.state = "Waiting"
      /\ y.item = x.item /\ y.container = b
      /\ Current' = a /\ actions' # <<>> /\ ExecRT(a) /\ u \in Units
      /\ \A kind : ~Unshown(kind) /\ (Unshown(kind)' => kind = x.kind)
      /\ DataTyped' /\ Len(clips) <= Len(clips') => CoreInv'
  BY TaskRan
<1>2. x \in ActionRecords /\ Fits(x) /\ UnderWay(x) /\ Same(x, y) /\ b \in {1, 2}
  BY <1>1, CurrentOwned DEF InPlace, ActionRecords
<1>3. /\ rtBox' = [rtBox EXCEPT ![u] = b] /\ UNCHANGED <<unit, clips, asset>>
      /\ UNCHANGED <<view, clipViews, box, inUse, shown, torn, removed, assetView>>
  BY <1>1 DEF RunTask, ExecRT
<1> HIDE DEF x, y, a, u, b
<1>4. rtBox' \in [Units -> {1, 2}] /\ \A w \in Units : rtBox'[w] = IF w = u THEN b ELSE rtBox[w]
  BY <1>1, <1>2, <1>3 DEF CoreInv, DataTyped
<1>5. CoreInv'
  BY <1>1, <1>3, <1>4 DEF CoreInv, DataTyped, ClipIds
<1>6. /\ x = act[Current] /\ y = act'[Current] /\ y = act'[Current'] /\ u = x.unit /\ b = x.container
      /\ y.kind = x.kind /\ x.kind \in {"LoadAsClip", "RemoveClip"} /\ y.unit = u
  BY <1>1, <1>2 DEF x, y, a, u, b, Same
<1>7. ASSUME ValuesShown
      PROVE  ValuesShown'
  <2>1. ~Unshown("SetValue")' /\ ~Unshown("ModifyClipItem")' /\ ~Unshown("LoadAsset")'
    BY <1>1, <1>6
  <2> QED
    BY <1>1, <1>3, <1>7, <2>1 DEF ValuesShown
<1>8. ASSUME ~removed, ShownPlayed
      PROVE  ShownPlayed'
  <2>1. x.kind = "LoadAsClip"
    BY <1>1, <1>6, <1>8 DEF ShownPlayed
  <2>2. b = Modifiable(u) /\ box[u][Modifiable(u)] = Append(shown[u], x.item)
    BY <1>1, <1>6, <1>8, <2>1 DEF ShownPlayed, Loading
  <2>3. \A w \in Units : rtBox[w] = 3 - Modifiable(w) /\ box[w][3 - Modifiable(w)] = shown[w]
    BY <1>1, <1>8 DEF ShownPlayed
  <2>4. \A w : Modifiable(w)' = Modifiable(w)
    BY <1>3 DEF Modifiable
  <2>5. /\ ~torn' /\ \A d \in ToSet(undoList') \cup ToSet(redoList') : act'[d].kind # "RemoveClip"
    BY <1>1, <1>3, <1>8, InPlaceOthers DEF ShownPlayed, InPlace
  <2>6. Unshown("LoadAsClip")'
    BY <1>1, <1>6, <2>1 DEF Unshown, Ran, Sent
  <2>7. \A w \in Units : IF w = u THEN rtBox'[w] = Modifiable(w)
                                  ELSE rtBox'[w] = 3 - Modifiable(w) /\ box'[w][3 - Modifiable(w)] = shown'[w]
    BY <1>3, <1>4, <2>2, <2>3
  <2>8. y.container = Modifiable(y.unit) /\ box'[y.unit][Modifiable(y.unit)] = Append(shown'[y.unit], y.item)
    BY <1>1, <1>3, <1>6, <2>2
  <2>9. /\ act'[Current'].container = Modifiable(act'[Current'].unit)
        /\ box'[act'[Current'].unit][Modifiable(act'[Current'].unit)]
             = Append(shown'[act'[Current'].unit], act'[Current'].item)
    BY <1>6, <2>8
  <2>10. \A w \in Units : IF Unshown("LoadAsClip")' /\ act'[Current'].unit = w
                          THEN rtBox'[w] = Modifiable(w)
                          ELSE rtBox'[w] = 3 - Modifiable(w) /\ box'[w][3 - Modifiable(w)] = shown'[w]
    BY <1>6, <2>6, <2>7
  <2>11. act'[Current'].kind = "LoadAsClip"
    BY <1>6, <2>1
  <2> QED
    BY <2>4, <2>5, <2>9, <2>10, <2>11 DEF ShownPlayed
<1>9. ASSUME HistoryInv, Observe
      PROVE  HistoryInv' /\ UNCHANGED <<restDoc, restPast>>
  <2>1. /\ restDoc' = restDoc /\ Document' = Document
    BY <1>1, <1>3, <1>9, DocumentTyped DEF Observe, historyVars
  <2>2. (\A c \in 1..Len(clips') : ~clips'[c].muted) /\ Heard(y)
    BY <1>3, <1>6, <1>9 DEF HistoryInv, ClipIds, Heard
  <2>3. CASE x.kind = "LoadAsClip"
    BY <1>1, <1>6, <1>9, <2>1, <2>2, <2>3, LoadHistory DEF Undoables
  <2>4. CASE x.kind = "RemoveClip"
    <3>1. ASSUME x.direction = "Forward"
          PROVE  ForwardUnderWay(act[Current])'
      <4>1. ForwardUnderWay(x)
        BY <1>1, <1>6, <1>9, <3>1 DEF HistoryInv
      <4> QED
        BY <1>1, <1>2, <1>6, <2>1, <2>4, <4>1 DEF ForwardUnderWay, Fresh, Undoables, TakesBack, Same
    <3>2. ASSUME x.direction = "Backward"
          PROVE  BackwardUnderWay(act[Current])' /\ y.before = x.before
      <4>1. BackwardUnderWay(x)
        BY <1>1, <1>6, <1>9, <3>2 DEF HistoryInv
      <4>2. Document = restDoc /\ TakesBack(x, restDoc, x.before) /\ restDoc = x.before
        BY <1>1, <2>4, <4>1 DEF BackwardUnderWay, TakesBack
      <4>3. TakesBack(y, restDoc, x.before)
        BY <1>1, <1>2, <4>2 DEF TakesBack, Same
      <4> QED
        BY <1>1, <1>6, <2>1, <4>2, <4>3 DEF BackwardUnderWay, TakesBack, Ran, Sent
    <3> QED
      BY <1>1, <1>6, <1>9, <2>2, <3>1, <3>2, HistoryStays
  <2> QED
    BY <1>6, <2>3, <2>4
<1> QED
  BY <1>3, <1>5, <1>7, <1>8, <1>9 DEF Keeps, ClipsPlayed

\* The task of an asset gives the sampler its file.
LEMMA RunAssetKeeps ==
  ASSUME CoreInv, RunTask, act[Current].kind = "LoadAsset"
  PROVE  Keeps
<1> DEFINE a == Current
           x == act[a]
           y == act'[a]
           u == x.unit
           f == x.file
<1>1. /\ actions # <<>> /\ InPlace /\ Sent(x) /\ ~Ran(x) /\ Sent(y) /\ Ran(y)
      /\ y.state = "Waiting" /\ x.state = "Waiting" /\ y.item = x.item /\ y.container = x.container
      /\ Current' = a /\ actions' # <<>> /\ ExecRT(a) /\ u \in Units
      /\ \A kind : ~Unshown(kind) /\ (Unshown(kind)' => kind = "LoadAsset")
      /\ DataTyped' /\ Len(clips) <= Len(clips') => CoreInv'
  BY TaskRan
<1>2. x \in ActionRecords /\ Same(x, y) /\ f \in Assets
  BY <1>1, CurrentOwned DEF InPlace, ActionRecords
<1>3. /\ asset' = [asset EXCEPT ![u] = f] /\ UNCHANGED <<unit, clips, rtBox>>
      /\ UNCHANGED <<view, clipViews, box, inUse, shown, torn, removed, assetView>>
  BY <1>1 DEF RunTask, ExecRT
<1> HIDE DEF x, y, a, u, f
<1>4. asset' \in [Units -> Assets] /\ \A w \in Units : w # u => asset'[w] = asset[w]
  BY <1>1, <1>2, <1>3 DEF CoreInv, DataTyped
<1>5. CoreInv'
  BY <1>1, <1>3, <1>4 DEF CoreInv, DataTyped, ClipIds
<1>6. /\ x = act[Current] /\ y = act'[Current] /\ y = act'[Current'] /\ y.kind = "LoadAsset" /\ x.kind = "LoadAsset"
      /\ y.unit = u
  BY <1>1, <1>2 DEF x, y, a, u, Same
<1>7. ASSUME ValuesShown
      PROVE  ValuesShown'
  <2>1. ~Unshown("SetValue")' /\ ~Unshown("ModifyClipItem")' /\ Unshown("LoadAsset")'
    BY <1>1, <1>6 DEF Unshown, Ran, Sent
  <2>2. \A w \in Units : assetView[w] = asset[w]
    BY <1>1, <1>7 DEF ValuesShown
  <2> QED
    BY <1>1, <1>3, <1>4, <1>6, <1>7, <2>1, <2>2 DEF ValuesShown
<1>8. ClipsPlayed => ClipsPlayed'
  BY <1>1, <1>3, <1>6, ClipsStay
<1>9. ASSUME HistoryInv, Observe
      PROVE  HistoryInv' /\ UNCHANGED <<restDoc, restPast>>
  <2>1. Document' = Document
    BY <1>3, DocumentTyped
  <2>2. \A c \in 1..Len(clips') : ~clips'[c].muted
    BY <1>3, <1>9 DEF HistoryInv, ClipIds
  <2> QED
    BY <1>1, <1>6, <1>9, <2>1, <2>2, LoadHistory DEF Undoables
<1> QED
  BY <1>5, <1>7, <1>8, <1>9 DEF Keeps

\* Every task.
LEMMA RunTaskKeeps ==
  ASSUME CoreInv, RunTask
  PROVE  InPlace /\ Keeps
BY TaskRan, RunValueKeeps, RunClipKeeps, RunContainerKeeps, RunAssetKeeps

\* The file worker answers the edit under way, or does not.
LEMMA OpenFileKeeps ==
  ASSUME CoreInv, OpenFile
  PROVE  InPlace /\ Keeps
<1> DEFINE a == Current
           x == act[a]
           y == act'[a]
           o == CASE x.file \in Readable -> "yes"
                  [] x.file \in NoPeaks -> "failed"
                  [] x.file \in Unreadable -> "no"
<1>1. /\ actions # <<>> /\ requests = <<a>> /\ x.kind \in Loads /\ x.step = 1 /\ x.state = "Waiting"
      /\ x.file \in Files
  BY DEF OpenFile, CoreInv, TasksUnderWay
<1>2. o \in {"no", "yes", "failed"}
  BY <1>1 DEF Files
<1>3. Head(requests) = a /\ Tail(requests) = <<>>
  BY <1>1
<1>4. /\ act' = [act EXCEPT ![a].opened = o] /\ requests' = <<>>
      /\ UNCHANGED <<valueVars, clipVars, assetVars, listVars, rtTasks, emits>>
  BY <1>3 DEF OpenFile
<1>5. /\ a \in ActionIds /\ x \in ActionRecords /\ act \in [ActionIds -> ActionRecords]
      /\ Fits(x) /\ UnderWay(x)
  BY <1>1, CurrentOwned DEF CoreInv, ListsTyped
<1> HIDE DEF a, o
<1>6. /\ y = [x EXCEPT !.opened = o] /\ \A b \in ActionIds \ {a} : act'[b] = act[b]
      /\ act' = [act EXCEPT ![a] = y]
  BY <1>4, <1>5
<1> HIDE DEF x, y
<1>7. /\ y \in ActionRecords /\ Same(x, y) /\ y.state = x.state /\ y.step = x.step
      /\ y.completed = x.completed /\ y.old = x.old /\ y.before = x.before /\ y.item = x.item
      /\ y.container = x.container
  BY <1>2, <1>5, <1>6 DEF ActionRecords, Same
<1>8. x = act[Current] /\ y = act'[Current] /\ a = Current
  BY DEF x, y, a
<1>9. InPlace
  BY <1>1, <1>4, <1>5, <1>6, <1>7, <1>8 DEF InPlace, listVars, CoreInv, ListsTyped
<1>10. Current' = Current /\ actions' # <<>>
  BY <1>9, InPlaceOthers
<1>11. ~Sent(x) /\ ~Sent(y) /\ ~Ran(x) /\ ~Ran(y)
  BY <1>1, <1>7 DEF Sent, Ran, SendStep, Same, Loads
<1>12. UnderWay(y)
  BY <1>1, <1>5, <1>7, <1>11 DEF UnderWay, Same, SendStep, Loads, Replays
<1>13. TasksUnderWay'
  <2>1. rtTasks = <<>> /\ rtTasks' = rtTasks
    BY <1>1, <1>4, <1>8, <1>11 DEF CoreInv, TasksUnderWay
  <2> QED
    BY <1>4, <1>8, <1>10, <1>11, <2>1 DEF TasksUnderWay, Sent
<1>14. x.kind \notin Undoables /\ x.state \in {"Executing", "Waiting"}
  BY <1>1 DEF Loads, Undoables
<1>15. x.kind = "LoadAsClip" /\ y.step \in {3, 4} => x.step \in {3, 4}
  BY <1>7
<1>16. Keeps
  BY <1>4, <1>7, <1>8, <1>9, <1>11, <1>12, <1>13, <1>14, <1>15, QuietKeeps DEF Undoables
<1> QED
  BY <1>9, <1>16

(* -------------------------------- undo, redo ----------------------------- *)

\* With nothing to restart an undo or a redo is done.
LEMMA NothingToReplay ==
  ASSUME CoreInv, NEW a \in ActionIds, NEW kind \in Replays, Runs(a, kind, 1),
         act' = [act EXCEPT ![a].state = "Finished"], idx' = idx + 1,
         UNCHANGED <<valueVars, clipVars, assetVars, actions, undoList, redoList, queueVars, emits>>
  PROVE  Keeps
<1> DEFINE x == act[a]
           y == act'[a]
<1>1. /\ actions # <<>> /\ a = Current /\ idx \in Nat \ {0}
      /\ x.state = "Executing" /\ x.kind = kind /\ x.step = 1
  BY RunsCurrent
<1>2. x \in ActionRecords /\ Fits(x) /\ UnderWay(x) /\ rtTasks = <<>> /\ requests = <<>>
  BY <1>1, CurrentOwned, NothingSent
<1>3. /\ act' \in [ActionIds -> ActionRecords] /\ \A b \in ActionIds \ {a} : act'[b] = act[b]
      /\ Same(x, y) /\ y.state = "Finished" /\ y.step = 1 /\ y.opened = x.opened
      /\ y.old = x.old /\ y.before = x.before /\ y.container = x.container /\ y.item = x.item
  BY <1>1, StateSet
<1>4. InPlace
  BY <1>1, <1>3 DEF InPlace
<1>5. Current' = a /\ actions' # <<>>
  BY <1>1, <1>4, InPlaceOthers
<1> HIDE DEF x, y
<1>6. ~Sent(y) /\ ~Ran(y) /\ ~Ran(x) /\ ~Sent(x)
  BY <1>1, <1>3 DEF Ran, Sent, SendStep, Replays, Same
<1>7. UnderWay(y)
  BY <1>1, <1>2, <1>3, <1>6 DEF UnderWay, Same, SendStep, Loads, Replays, Fits
<1>8. TasksUnderWay'
  BY <1>2, <1>5, <1>6 DEF TasksUnderWay, Sent, queueVars, y
<1>9. x = act[Current] /\ y = act'[Current]
  BY <1>1 DEF x, y
<1>10. /\ x.kind \notin Undoables /\ x.state \in {"Executing", "Waiting"} /\ x.kind # "LoadAsClip" /\ x.kind # "RemoveClip"
  BY <1>1 DEF Undoables, Replays
<1>11. y.old = x.old /\ y.before = x.before /\ y.container = x.container /\ y.item = x.item
  BY <1>3
<1> QED
  BY <1>4, <1>6, <1>7, <1>8, <1>9, <1>10, <1>11, QuietKeeps

\* An edit of the undo or the redo list is put behind the undo or redo, which is done.
LEMMA ReplayKeeps ==
  ASSUME CoreInv, NEW a \in ActionIds, NEW kind \in Replays, Runs(a, kind, 1),
         NEW b \in ToSet(undoList) \cup ToSet(redoList), NEW direction \in {"Forward", "Backward"},
         Replay(a, b, direction),
         undoList' \in Seq(ActionIds), redoList' \in Seq(ActionIds),
         IsInjective(undoList'), IsInjective(redoList'),
         ToSet(undoList') \subseteq ToSet(undoList) \ {b}, ToSet(redoList') \subseteq ToSet(redoList) \ {b},
         Len(undoList') + Len(redoList') = Len(undoList) + Len(redoList) - 1,
         Len(undoList') <= UndoLimit, Len(redoList') <= UndoLimit, idx' = idx + 1,
         UNCHANGED <<valueVars, clipVars, assetVars, queueVars, emits>>
  PROVE  /\ CoreInv'
         /\ ValuesShown => ValuesShown'
         /\ ClipsPlayed => ClipsPlayed'
         /\ actions # <<>> /\ act[Current].direction = "Forward" /\ act[Current].kind \notin Undoables
         /\ actions' # <<>> /\ Current' = b /\ Document' = Document /\ clips' = clips
         /\ act'[b].direction = direction /\ act'[b].before = act[b].before /\ act'[b].old = act[b].old
         /\ act'[b].kind \in Undoables /\ Fresh(act'[b]) /\ ~Ran(act'[b])
         /\ act'[b].kind = act[b].kind /\ act'[b].unit = act[b].unit
         /\ act'[b].attribute = act[b].attribute /\ act'[b].clip = act[b].clip
         /\ act'[b].state = "Executing"
         /\ \A c \in (ToSet(undoList) \cup ToSet(redoList)) \ {b} : act'[c] = act[c]
         /\ \A c \in Owned' : c \in Owned /\ (Heard(act[c]) => Heard(act'[c]))
<1> DEFINE x == act[a]
           z == act[b]
<1>1. /\ actions # <<>> /\ a = Current /\ idx \in Nat \ {0}
      /\ x.state = "Executing" /\ x.kind = kind /\ x.step = 1
  BY RunsCurrent
<1>2. /\ x \in ActionRecords /\ UnderWay(x) /\ rtTasks = <<>> /\ requests = <<>>
      /\ x.kind \notin Undoables /\ x.direction = "Forward"
  BY <1>1, CurrentOwned, NothingSent DEF UnderWay, Undoables, Replays
<1>3. /\ b \in ActionIds /\ b # a /\ z \in ActionRecords /\ Stored(z)
      /\ act \in [ActionIds -> ActionRecords]
  <2>1. b \in ActionIds /\ b # a
    BY <1>1, CurrentOwned
  <2> QED
    BY <2>1 DEF CoreInv, ListsTyped, OneUnderWay
<1>4. /\ Len(actions) = 1 /\ ToSet(actions) = {a}
      /\ actions' \in Seq(ActionIds) /\ ToSet(actions') = {a, b} /\ IsInjective(actions')
      /\ Len(actions') = 2 /\ actions'[1] = a /\ actions' # <<>> /\ Last(actions') = b
  <2>1. Len(actions) = 1 /\ actions \in Seq(ActionIds) /\ actions[1] = a /\ IsInjective(actions)
    BY <1>1, <1>2, CurrentOwned DEF CoreInv, OneUnderWay, ListsTyped
  <2>2. ToSet(actions) = {a}
    <3>1. actions = <<a>>
      BY <2>1
    <3> QED
      BY <3>1 DEF ToSet
  <2>3. actions' = Append(actions, b)
    BY DEF Replay
  <2>4. /\ actions' \in Seq(ActionIds) /\ ToSet(actions') = {a, b} /\ IsInjective(actions')
    BY <1>3, <2>1, <2>2, <2>3, AppendDistinct
  <2>5. Len(actions') = 2 /\ actions'[1] = a
    <3>1. 1 \in 1..Len(actions)
      BY <2>1
    <3>2. actions \in Seq(ActionIds) /\ b \in ActionIds
      BY <1>3, <2>1
    <3>3. /\ Len(Append(actions, b)) = Len(actions) + 1
          /\ \A i \in 1..Len(actions) : Append(actions, b)[i] = actions[i]
      BY ONLY <3>2, AppendElements
    <3>4. Append(actions, b)[1] = actions[1]
      BY <3>1, <3>3
    <3> QED
      BY <2>1, <2>3, <3>3, <3>4
  <2>6. actions' # <<>> /\ Last(actions') = b
    BY <1>3, <2>1, <2>3, AppendLast
  <2> QED
    BY <2>1, <2>2, <2>4, <2>5, <2>6
<1>5. act' = [act EXCEPT ![a] = [x EXCEPT !.state = "Finished"],
                         ![b] = [z EXCEPT !.state = "Executing", !.direction = direction, !.step = 1]]
  BY <1>3 DEF Replay
<1>6. /\ act'[a] = [x EXCEPT !.state = "Finished"]
      /\ act'[b] = [z EXCEPT !.state = "Executing", !.direction = direction, !.step = 1]
      /\ \A c \in ActionIds \ {a, b} : act'[c] = act[c]
      /\ act' = [act EXCEPT ![a] = act'[a], ![b] = act'[b]]
  BY <1>3, <1>5
<1> DEFINE y == act'[b]
           w == act'[a]
<1> HIDE DEF x, y, z, w
<1>7. /\ w \in ActionRecords /\ w.state = "Finished" /\ w.kind = x.kind /\ w.value = x.value /\ w.old = x.old
  BY <1>2, <1>6 DEF ActionRecords, w, x
<1>8. y = [z EXCEPT !.state = "Executing", !.direction = direction, !.step = 1]
  BY <1>6 DEF y, z
<1>9. y \in ActionRecords
  <2>1. \A k \in 1..4 : [z EXCEPT !.state = "Executing", !.direction = direction, !.step = k] \in ActionRecords
    BY <1>3 DEF ActionRecords
  <2> QED
    BY <1>8, <2>1
<1>10. /\ y.kind = z.kind /\ y.unit = z.unit /\ y.attribute = z.attribute /\ y.value = z.value
       /\ y.clip = z.clip /\ y.file = z.file /\ y.old = z.old /\ y.before = z.before
       /\ y.state = "Executing" /\ y.direction = direction /\ y.step = 1
  BY <1>3, <1>8 DEF ActionRecords
<1>11. act' \in [ActionIds -> ActionRecords]
  BY <1>3, <1>6, <1>7, <1>9 DEF y, w
<1>12. /\ Current' = b /\ actions' # <<>> /\ y = act'[Current']
  BY <1>4 DEF Current, y
<1>13. /\ y.kind \in Undoables /\ ~Ran(y) /\ ~Sent(y) /\ Fresh(y)
  BY <1>3, <1>10 DEF Stored, Ran, Sent, Fresh, SendStep, Undoables
<1>14. \A c \in (ToSet(undoList) \cup ToSet(redoList)) \ {b} : c \in ActionIds /\ c # a /\ act'[c] = act[c]
  BY <1>1, <1>6, CurrentOwned
<1>15. DataTyped' /\ clips' = clips /\ Document' = Document
  BY DocumentTyped DEF CoreInv, DataTyped, valueVars, clipVars, assetVars, ClipIds
<1>16. OneUnderWay'
  <2>1. IsInjective(actions') /\ ToSet(actions') = {a, b} /\ Len(actions') = 2 /\ actions'[1] = a
    BY <1>4
  <2>2. ToSet(actions') \cap ToSet(undoList') = {} /\ ToSet(actions') \cap ToSet(redoList') = {}
    BY <1>1, <2>1, CurrentOwned
  <2>3. ToSet(undoList') \cap ToSet(redoList') = {}
    BY DEF CoreInv, OneUnderWay
  <2>4. Len(actions') + Len(undoList') + Len(redoList') <= emits'
    <3>1. Len(actions) = 1 /\ Len(undoList) \in Nat /\ Len(redoList) \in Nat /\ emits \in Nat
      BY <1>4 DEF CoreInv, ListsTyped
    <3>2. Len(undoList') \in Nat /\ Len(redoList') \in Nat
      OBVIOUS
    <3>3. 1 + Len(undoList) + Len(redoList) <= emits
      BY <3>1 DEF CoreInv, OneUnderWay
    <3> QED
      BY <2>1, <3>1, <3>2, <3>3
  <2>5. \A c \in ToSet(undoList') \cup ToSet(redoList') : Stored(act[c])'
    <3>1. ClipIds' = ClipIds
      BY <1>15 DEF ClipIds
    <3>2. \A c \in ToSet(undoList') \cup ToSet(redoList') : Stored(act[c]) /\ act'[c] = act[c]
      BY <1>14 DEF CoreInv, OneUnderWay
    <3> QED
      BY <3>1, <3>2 DEF Stored, Fits
  <2>6. Fits(act[Current])'
    <3>1. ClipIds' = ClipIds
      BY <1>15 DEF ClipIds
    <3> QED
      BY <1>3, <1>10, <1>12, <1>13, <3>1 DEF Fits, Stored, Undoables, Loads
  <2>7. UnderWay(act[Current])'
    <3>1. UnderWay(y)
      BY <1>3, <1>10, <1>13 DEF UnderWay, Stored, SendStep, Undoables, Loads, Replays
    <3> QED
      BY <1>12, <3>1 DEF UnderWay, Ran, Sent
  <2>8. w.kind \in Replays /\ w.state = "Finished" /\ w = act'[actions'[1]]
    BY <1>1, <1>7, <2>1 DEF w, x
  <2> QED
    BY <1>12, <1>13, <2>1, <2>2, <2>3, <2>4, <2>5, <2>6, <2>7, <2>8 DEF OneUnderWay

<1>17. CoreInv'
  <2>1. TasksUnderWay'
    BY <1>2, <1>12, <1>13 DEF TasksUnderWay, queueVars, Sent
  <2>2. ListsTyped'
    <3>1. actions' \in Seq(ActionIds)
      BY <1>4
    <3> QED
      BY <1>1, <1>11, <3>1 DEF CoreInv, ListsTyped
  <2> QED
    BY <1>15, <1>16, <2>1, <2>2 DEF CoreInv
<1>18. \A k : (k \notin Replays => ~Unshown(k)) /\ ~Unshown(k)'
  BY <1>1, <1>12, <1>13 DEF Unshown, Ran, Sent, x
<1>19. ValuesShown => ValuesShown'
  <2>1. "SetValue" \notin Replays /\ "ModifyClipItem" \notin Replays /\ "LoadAsset" \notin Replays
    BY DEF Replays
  <2> QED
    BY <1>18, <2>1 DEF ValuesShown, valueVars, clipVars, assetVars
<1>20. ASSUME ~removed, ShownPlayed
       PROVE  ShownPlayed'
  <2>1. y.kind # "RemoveClip" /\ y.kind # "LoadAsClip"
    BY <1>3, <1>10, <1>20 DEF ShownPlayed, Stored, Undoables, z
  <2>2. ~Loading' /\ ~Unshown("LoadAsClip") /\ ~Unshown("LoadAsClip")'
    BY <1>12, <1>18, <2>1 DEF Loading, Replays
  <2>3. \A c \in ToSet(undoList') \cup ToSet(redoList') : act'[c].kind # "RemoveClip"
    BY <1>14, <1>20 DEF ShownPlayed
  <2>4. \A u : Modifiable(u)' = Modifiable(u)
    BY DEF Modifiable, clipVars
  <2>5. \A u \in Units : rtBox'[u] = 3 - Modifiable(u)' /\ box'[u][3 - Modifiable(u)'] = shown'[u]
    BY <1>20, <2>2, <2>4 DEF ShownPlayed, clipVars
  <2>6. ~torn'
    BY <1>20 DEF ShownPlayed, clipVars
  <2> QED
    BY <1>12, <2>1, <2>2, <2>3, <2>5, <2>6 DEF ShownPlayed
<1>21. \A c \in Owned' : c \in Owned /\ (Heard(act[c]) => Heard(act'[c]))
  <2>1. ToSet(actions') = {a, b} /\ ToSet(actions) = {a}
    BY <1>4

  <2>2. \A c \in Owned' : c \in Owned /\ (c = a \/ c = b \/ act'[c] = act[c])
    BY <1>14, <2>1 DEF Owned
  <2>3. Heard(x) => Heard(w)
    BY <1>7 DEF Heard
  <2>4. Heard(z) => Heard(y)
    BY <1>10 DEF Heard
  <2> QED
    BY <2>2, <2>3, <2>4 DEF x, y, z, w
<1>22. ClipsPlayed => ClipsPlayed'
  BY <1>20 DEF ClipsPlayed, clipVars
<1> QED
  BY <1>1, <1>2, <1>10, <1>12, <1>13, <1>14, <1>15, <1>17, <1>19, <1>21, <1>22 DEF x, y, z

\* Undo restarts the newest edit backwards, which has the document at rest to take back.
LEMMA UndoExecKeeps ==
  ASSUME CoreInv, NEW a \in ActionIds, UndoExec(a)
  PROVE  Keeps
<1>1. /\ Runs(a, "Undo", 1) /\ idx' = idx + 1
      /\ UNCHANGED <<valueVars, clipVars, assetVars, redoList, queueVars, emits>>
  BY DEF UndoExec
<1>2. /\ undoList \in Seq(ActionIds) /\ redoList \in Seq(ActionIds)
      /\ IsInjective(undoList) /\ IsInjective(redoList) /\ ToSet(undoList) \cap ToSet(redoList) = {}
  BY DEF CoreInv, ListsTyped, OneUnderWay
<1>3. CASE undoList = <<>>
  BY <1>1, <1>3, NothingToReplay DEF UndoExec, Replays
<1>4. CASE undoList # <<>>
  <2> DEFINE b == Last(undoList)
             front == Front(undoList)
  <2>1. /\ Len(undoList) # 0 /\ b \in ToSet(undoList) /\ front \in Seq(ActionIds) /\ IsInjective(front)
        /\ ToSet(front) = ToSet(undoList) \ {b} /\ Len(front) = Len(undoList) - 1
    BY <1>2, <1>4, EmptySeq, FrontDistinct, FrontLast
  <2>2. Replay(a, b, "Backward") /\ undoList' = front
    BY <1>4 DEF UndoExec
  <2> HIDE DEF b, front
  <2>3. ToSet(redoList) \subseteq ToSet(redoList) \ {b}
    BY <1>2, <2>1
  <2>4. /\ Len(front) + Len(redoList) = Len(undoList) + Len(redoList) - 1
        /\ Len(front) <= UndoLimit /\ Len(redoList) <= UndoLimit
    BY <1>2, <2>1, LenProperties, EditsAssumption DEF CoreInv, ListsTyped
  <2>5. redoList' = redoList /\ b \in ToSet(undoList) \cup ToSet(redoList)
    BY <1>1, <2>1
  <2>6. /\ CoreInv'
        /\ ValuesShown => ValuesShown'
        /\ ClipsPlayed => ClipsPlayed'
        /\ actions # <<>> /\ act[Current].direction = "Forward" /\ act[Current].kind \notin Undoables
        /\ actions' # <<>> /\ Current' = b /\ Document' = Document /\ clips' = clips
        /\ act'[b].direction = "Backward" /\ act'[b].before = act[b].before /\ act'[b].old = act[b].old
        /\ act'[b].kind \in Undoables /\ Fresh(act'[b]) /\ ~Ran(act'[b])
        /\ act'[b].kind = act[b].kind /\ act'[b].unit = act[b].unit
        /\ act'[b].attribute = act[b].attribute /\ act'[b].clip = act[b].clip
        /\ act'[b].state = "Executing"
        /\ \A c \in (ToSet(undoList) \cup ToSet(redoList)) \ {b} : act'[c] = act[c]
        /\ \A c \in Owned' : c \in Owned /\ (Heard(act[c]) => Heard(act'[c]))
    BY <1>1, <1>2, <2>1, <2>2, <2>3, <2>4, <2>5, ReplayKeeps DEF Replays
  <2>7. ASSUME HistoryInv, Observe
        PROVE  HistoryInv' /\ UNCHANGED <<restDoc, restPast>>
    <3>1. restDoc' = restDoc /\ restPast' = restPast
      BY <2>6, <2>7 DEF Observe, historyVars
    <3>2. restPast = PastOf(undoList, act) /\ LeadsBack(undoList, act, restDoc) /\ Document = restDoc
      BY <2>6, <2>7 DEF HistoryInv, ForwardUnderWay
    <3>3. /\ TakesBack(act[b], restDoc, act[b].before) /\ LeadsBack(front, act, act[b].before)
          /\ PastOf(undoList, act) = Append(PastOf(front, act), act[b].before)
      BY <1>2, <2>1, <3>2, ChainShrinks DEF b, front
    <3>4. \A c \in ToSet(front) : act'[c] = act[c]
      BY <2>1, <2>6
    <3>5. PastOf(front, act') = PastOf(front, act) /\ LeadsBack(front, act', act[b].before)
      BY <2>1, <3>3, <3>4, ChainStays
    <3>6. BackwardUnderWay(act[Current])'
      <4>1. TakesBack(act'[b], restDoc, act[b].before)
        BY <2>6, <3>3 DEF TakesBack
      <4> QED
        BY <2>6, <3>1, <3>2, <4>1 DEF BackwardUnderWay, TakesBack, Ran, Sent
    <3>7. restPast' = Append(PastOf(undoList', act'), act'[Current'].before)
      BY <2>2, <2>6, <3>1, <3>2, <3>3, <3>5
    <3>8. LeadsBack(undoList', act', act'[Current'].before)
      BY <2>2, <2>6, <3>5
    <3>9. /\ \A c \in 1..Len(clips') : ~clips'[c].muted
          /\ \A c \in Owned' : Heard(act'[c])
      BY <2>6, <2>7 DEF HistoryInv, ClipIds
    <3> QED
      BY <2>6, <2>7, <3>1, <3>6, <3>7, <3>8, <3>9 DEF HistoryInv, ClipIds, Heard
  <2> QED
    BY <2>6, <2>7 DEF Keeps
<1> QED
  BY <1>3, <1>4

\* Redo restarts the edit undone last from the document at rest.
LEMMA RedoExecKeeps ==
  ASSUME CoreInv, NEW a \in ActionIds, RedoExec(a)
  PROVE  Keeps
<1>1. /\ Runs(a, "Redo", 1) /\ idx' = idx + 1
      /\ UNCHANGED <<valueVars, clipVars, assetVars, undoList, queueVars, emits>>
  BY DEF RedoExec
<1>2. /\ undoList \in Seq(ActionIds) /\ redoList \in Seq(ActionIds)
      /\ IsInjective(undoList) /\ IsInjective(redoList) /\ ToSet(undoList) \cap ToSet(redoList) = {}
  BY DEF CoreInv, ListsTyped, OneUnderWay
<1>3. CASE redoList = <<>>
  BY <1>1, <1>3, NothingToReplay DEF RedoExec, Replays
<1>4. CASE redoList # <<>>
  <2> DEFINE b == Last(redoList)
             front == Front(redoList)
  <2>1. /\ Len(redoList) # 0 /\ b \in ToSet(redoList) /\ front \in Seq(ActionIds) /\ IsInjective(front)
        /\ ToSet(front) = ToSet(redoList) \ {b} /\ Len(front) = Len(redoList) - 1
    BY <1>2, <1>4, EmptySeq, FrontDistinct, FrontLast
  <2>2. Replay(a, b, "Forward") /\ redoList' = front
    BY <1>4 DEF RedoExec
  <2> HIDE DEF b, front
  <2>3. ToSet(undoList) \subseteq ToSet(undoList) \ {b}
    BY <1>2, <2>1
  <2>4. /\ Len(undoList) + Len(front) = Len(undoList) + Len(redoList) - 1
        /\ Len(undoList) <= UndoLimit /\ Len(front) <= UndoLimit
    BY <1>2, <2>1, LenProperties, EditsAssumption DEF CoreInv, ListsTyped
  <2>5. undoList' = undoList /\ b \in ToSet(undoList) \cup ToSet(redoList)
    BY <1>1, <2>1
  <2>6. /\ CoreInv'
        /\ ValuesShown => ValuesShown'
        /\ ClipsPlayed => ClipsPlayed'
        /\ actions # <<>> /\ act[Current].direction = "Forward" /\ act[Current].kind \notin Undoables
        /\ actions' # <<>> /\ Current' = b /\ Document' = Document /\ clips' = clips
        /\ act'[b].direction = "Forward" /\ Fresh(act'[b])
        /\ \A c \in (ToSet(undoList) \cup ToSet(redoList)) \ {b} : act'[c] = act[c]
        /\ \A c \in Owned' : c \in Owned /\ (Heard(act[c]) => Heard(act'[c]))
    BY <1>1, <1>2, <2>1, <2>2, <2>3, <2>4, <2>5, ReplayKeeps DEF Replays
  <2>7. ASSUME HistoryInv, Observe
        PROVE  HistoryInv' /\ UNCHANGED <<restDoc, restPast>>
    <3>1. restDoc' = restDoc /\ restPast' = restPast
      BY <2>6, <2>7 DEF Observe, historyVars
    <3>2. restPast = PastOf(undoList, act) /\ LeadsBack(undoList, act, restDoc) /\ Document = restDoc
      BY <2>6, <2>7 DEF HistoryInv, ForwardUnderWay
    <3>3. \A c \in ToSet(undoList) : act'[c] = act[c]
      BY <2>3, <2>6
    <3>4. PastOf(undoList', act') = PastOf(undoList, act) /\ LeadsBack(undoList', act', restDoc)
      BY <1>2, <2>5, <3>2, <3>3, ChainStays
    <3>5. ForwardUnderWay(act[Current])'
      BY <2>6, <3>1, <3>2 DEF ForwardUnderWay, Fresh
    <3>6. /\ \A c \in 1..Len(clips') : ~clips'[c].muted
          /\ \A c \in Owned' : Heard(act'[c])
      BY <2>6, <2>7 DEF HistoryInv, ClipIds
    <3> QED
      BY <2>6, <2>7, <3>1, <3>2, <3>4, <3>5, <3>6 DEF HistoryInv, ClipIds, Heard
  <2> QED
    BY <2>6, <2>7 DEF Keeps
<1> QED
  BY <1>3, <1>4

(* --------------------------- the end of a pass --------------------------- *)

\* One element more is one element put at the end.
LEMMA ConcatOne ==
  ASSUME NEW S, NEW s \in Seq(S), NEW e \in S
  PROVE  s \o <<e>> = Append(s, e)
<1>1. <<e>> \in Seq(S) /\ Len(<<e>>) = 1 /\ <<e>>[1] = e
  OBVIOUS
<1>2. /\ s \o <<e>> \in Seq(S) /\ Len(s \o <<e>>) = Len(s) + 1
      /\ \A i \in 1..(Len(s) + 1) : (s \o <<e>>)[i] = IF i <= Len(s) THEN s[i] ELSE <<e>>[i - Len(s)]
  BY <1>1, ConcatProperties
<1>3. /\ Append(s, e) \in Seq(S) /\ Len(Append(s, e)) = Len(s) + 1 /\ Append(s, e)[Len(s) + 1] = e
      /\ \A i \in 1..Len(s) : Append(s, e)[i] = s[i]
  BY AppendElements
<1>4. Len(s) \in Nat
  BY LenProperties
<1>5. \A i \in 1..(Len(s) + 1) : (s \o <<e>>)[i] = Append(s, e)[i]
  BY <1>1, <1>2, <1>3, <1>4
<1> QED
  BY <1>2, <1>3, <1>5, SeqEqual

\* Of the action list only the edit under way can be selected, not the undo or redo
\* that has restarted it.
LEMMA Selected ==
  ASSUME CoreInv, actions # <<>>, NEW G, Len(actions) = 2 => act[actions[1]] \notin G,
         NEW rest \in Kept(actions, {i \in DOMAIN actions : act[actions[i]] \in G})
  PROVE  rest = IF act[Current] \in G THEN <<Current>> ELSE <<>>
<1> DEFINE P == {i \in DOMAIN actions : act[actions[i]] \in G}
           n == Len(actions)
<1>1. actions \in Seq(ActionIds) /\ n \in {1, 2} /\ Current = actions[n] /\ DOMAIN actions = 1..n
  BY CurrentOwned, ElementsAtPositions DEF CoreInv, ListsTyped
<1>2. P \subseteq {n}
  BY <1>1
<1>3. CASE act[Current] \in G
  <2>1. P = {n} /\ n \in DOMAIN actions
    BY <1>1, <1>2, <1>3
  <2>2. rest \in Kept(actions, {n})
    BY <2>1
  <2> QED
    BY <1>1, <1>3, <2>1, <2>2, OneKept
<1>4. CASE act[Current] \notin G
  <2>1. P = {}
    BY <1>1, <1>2, <1>4
  <2>2. rest \in Kept(actions, {})
    BY <2>1
  <2> QED
    BY <1>1, <1>4, <2>2, NoneKept
<1> QED
  BY <1>3, <1>4

\* The action goes to the undo list, or to the redo list.
Retires(x, direction) == x.state = "Finished" /\ x.kind \in Undoables /\ x.direction = direction

\* What a pass does with the lists at its end.
LEMMA PassEnds ==
  ASSUME CoreInv, EndPass, NEW x, x = act[Current]
  PROVE  /\ actions # <<>> /\ idx' = 1
         /\ actions' = IF x.state \in {"Executing", "Waiting"} THEN <<Current>> ELSE <<>>
         /\ undoList' = IF Retires(x, "Forward") THEN Newest(Append(undoList, Current)) ELSE undoList
         /\ redoList' = IF Retires(x, "Backward") THEN Newest(Append(redoList, Current)) ELSE redoList
         /\ act' \in [ActionIds -> ActionRecords]
         /\ \A c \in Owned' : act'[c] = act[c]
         /\ UNCHANGED <<valueVars, clipVars, assetVars, queueVars, emits>>
<1> DEFINE Live == {y \in ActionRecords : y.state \in {"Executing", "Waiting"}}
           Done(direction) == {y \in ActionRecords : Retires(y, direction)}
<1>1. /\ actions # <<>> /\ idx' = 1
      /\ UNCHANGED <<valueVars, clipVars, assetVars, queueVars, emits>>
  BY DEF EndPass
<1>2. /\ x \in ActionRecords /\ Current \in ActionIds /\ actions \in Seq(ActionIds)
      /\ undoList \in Seq(ActionIds) /\ redoList \in Seq(ActionIds)
      /\ act \in [ActionIds -> ActionRecords] /\ DOMAIN actions = 1..Len(actions)
      /\ \A i \in DOMAIN actions : act[actions[i]] \in ActionRecords
  BY <1>1, CurrentOwned, ElementsAtPositions DEF CoreInv, ListsTyped
<1>3. Len(actions) = 2 => act[actions[1]].kind \notin Undoables /\ act[actions[1]].state = "Finished"
  BY DEF CoreInv, OneUnderWay, Undoables, Replays
<1>4. /\ {i \in DOMAIN actions : act[actions[i]].state \in {"Executing", "Waiting"}}
           = {i \in DOMAIN actions : act[actions[i]] \in Live}
      /\ \A direction : {i \in DOMAIN actions : /\ act[actions[i]].state = "Finished"
                                                /\ act[actions[i]].kind \in Undoables
                                                /\ act[actions[i]].direction = direction}
           = {i \in DOMAIN actions : act[actions[i]] \in Done(direction)}
  BY <1>2 DEF Retires
<1>5. Len(actions) = 2 => act[actions[1]] \notin Live /\ \A direction : act[actions[1]] \notin Done(direction)
  BY <1>3 DEF Retires
<1>6. actions' \in Kept(actions, {i \in DOMAIN actions : act[actions[i]] \in Live})
  BY <1>4 DEF EndPass
<1>7. PICK more \in Kept(actions, {i \in DOMAIN actions : act[actions[i]] \in Done("Forward")}) :
        undoList' = Newest(undoList \o more)
  BY <1>4 DEF EndPass
<1>8. PICK back \in Kept(actions, {i \in DOMAIN actions : act[actions[i]] \in Done("Backward")}) :
        redoList' = Newest(redoList \o back)
  BY <1>4 DEF EndPass
<1>9. \A direction : (x \in Live <=> x.state \in {"Executing", "Waiting"}) /\ (x \in Done(direction) <=> Retires(x, direction))
  BY <1>2
<1> HIDE DEF Live, Done
<1>10. actions' = IF x \in Live THEN <<Current>> ELSE <<>>
  BY <1>1, <1>5, <1>6, Selected
<1>11. more = IF x \in Done("Forward") THEN <<Current>> ELSE <<>>
  BY <1>1, <1>5, Selected
<1>12. back = IF x \in Done("Backward") THEN <<Current>> ELSE <<>>
  BY <1>1, <1>5, Selected
<1>13. \A s \in Seq(ActionIds) : s \o <<>> = s /\ s \o <<Current>> = Append(s, Current)
  BY <1>2, ConcatEmptySeq, ConcatOne
<1>14. Newest(undoList) = undoList /\ Newest(redoList) = redoList
  BY <1>2, LenProperties, EditsAssumption DEF Newest, CoreInv, ListsTyped
<1>15. undoList' = IF Retires(x, "Forward") THEN Newest(Append(undoList, Current)) ELSE undoList
  BY <1>2, <1>7, <1>9, <1>11, <1>13, <1>14
<1>16. redoList' = IF Retires(x, "Backward") THEN Newest(Append(redoList, Current)) ELSE redoList
  BY <1>2, <1>8, <1>9, <1>12, <1>13, <1>14
<1>17. act' = [c \in ActionIds |-> IF c \in Owned' THEN act[c] ELSE Blank]
  BY DEF EndPass, Owned
<1>18. Blank \in ActionRecords
  <2>1. 1 \in 1..4 /\ 0 \in Nat
    OBVIOUS
  <2> QED
    BY <2>1, EditsAssumption DEF Blank, NewAction, ActionRecords, Kinds, Replays, Assets
<1>19. act' \in [ActionIds -> ActionRecords]
  BY <1>2, <1>17, <1>18
<1>20. Owned' \subseteq ActionIds
  <2>1. \A s \in Seq(ActionIds) : Newest(s) \in Seq(ActionIds)
    BY NewestElements
  <2>2. undoList' \in Seq(ActionIds) /\ redoList' \in Seq(ActionIds)
    <3>1. Append(undoList, Current) \in Seq(ActionIds) /\ Append(redoList, Current) \in Seq(ActionIds)
      BY <1>2, AppendElements
    <3> QED
      BY <1>2, <1>15, <1>16, <2>1, <3>1
  <2>3. actions' \in Seq(ActionIds)
    BY <1>2, <1>10
  <2> QED
    BY <2>2, <2>3, ElementsAtPositions DEF Owned
<1>21. \A c \in Owned' : act'[c] = act[c]
  BY <1>17, <1>20
<1> QED
  BY <1>1, <1>9, <1>10, <1>15, <1>16, <1>19, <1>21

\* An edit that goes on stays on the list.
LEMMA PassGoesOn ==
  ASSUME CoreInv, EndPass, NEW x, x = act[Current], x.state \in {"Executing", "Waiting"}
  PROVE  Keeps
<1>1. /\ actions # <<>> /\ idx' = 1 /\ actions' = <<Current>> /\ undoList' = undoList /\ redoList' = redoList
      /\ act' \in [ActionIds -> ActionRecords]
      /\ \A c \in Owned' : act'[c] = act[c]
      /\ UNCHANGED <<valueVars, clipVars, assetVars, queueVars, emits>>
  <2>1. ~Retires(x, "Forward") /\ ~Retires(x, "Backward")
    BY DEF Retires
  <2> QED
    BY <2>1, PassEnds
<1>2. /\ Current \in ActionIds /\ Current \in ToSet(actions)
      /\ Current \notin ToSet(undoList) /\ Current \notin ToSet(redoList)
      /\ Fits(x) /\ UnderWay(x) /\ Len(actions) \in {1, 2}
  BY <1>1, CurrentOwned
<1>3. /\ actions' \in Seq(ActionIds) /\ ToSet(actions') = {Current} /\ IsInjective(actions') /\ Len(actions') = 1
      /\ actions' # <<>> /\ Current' = Current
  BY <1>1, <1>2 DEF ToSet, IsInjective, Current, Last
<1>4. /\ act'[Current'] = x /\ Owned' \subseteq Owned
      /\ \A c \in ToSet(undoList) \cup ToSet(redoList) : act'[c] = act[c]
  BY <1>1, <1>2, <1>3 DEF Owned
<1>5. /\ DataTyped' /\ clips' = clips /\ Document' = Document /\ ClipIds' = ClipIds
  BY <1>1, DocumentTyped DEF CoreInv, DataTyped, valueVars, clipVars, assetVars, ClipIds
<1> HIDE DEF Current
<1>6. CoreInv'
  <2>1. ListsTyped'
    BY <1>1, <1>3 DEF CoreInv, ListsTyped
  <2>2. OneUnderWay'
    <3>1. Len(actions') + Len(undoList') + Len(redoList') <= emits'
      <4>1. Len(undoList) \in Nat /\ Len(redoList) \in Nat /\ emits \in Nat
        BY DEF CoreInv, ListsTyped
      <4>2. Len(actions) + Len(undoList) + Len(redoList) <= emits
        BY DEF CoreInv, OneUnderWay
      <4> QED
        BY <1>1, <1>2, <1>3, <4>1, <4>2
    <3>2. \A c \in ToSet(undoList') \cup ToSet(redoList') : Stored(act[c])'
      BY <1>1, <1>4, <1>5 DEF CoreInv, OneUnderWay, Stored, Fits
    <3>3. Fits(act[Current])' /\ UnderWay(act[Current])'
      BY <1>2, <1>4, <1>5 DEF Fits, UnderWay, Ran, Sent
    <3> QED
      BY <1>1, <1>2, <1>3, <3>1, <3>2, <3>3 DEF CoreInv, OneUnderWay
  <2>3. TasksUnderWay'
    BY <1>1, <1>3, <1>4 DEF CoreInv, TasksUnderWay, queueVars, Sent
  <2> QED
    BY <1>5, <2>1, <2>2, <2>3 DEF CoreInv
<1>7. \A k : Unshown(k)' <=> Unshown(k)
  BY <1>1, <1>3, <1>4 DEF Unshown, Ran, Sent
<1>8. ValuesShown => ValuesShown'
  BY <1>1, <1>4, <1>7 DEF ValuesShown, valueVars, clipVars, assetVars, Aim
<1>9. ASSUME ~removed, ShownPlayed
      PROVE  ShownPlayed'
  <2>1. Loading' <=> Loading
    BY <1>1, <1>3, <1>4 DEF Loading, Ran, Sent
  <2>2. \A u : Modifiable(u)' = Modifiable(u)
    BY <1>1 DEF Modifiable, clipVars
  <2>3. /\ ~torn' /\ \A c \in ToSet(undoList') \cup ToSet(redoList') : act'[c].kind # "RemoveClip"
        /\ x.kind = "RemoveClip" =>
             x.state = "Executing" /\ x.step = 1 /\ x.clip \in ToSet(shown'[x.unit])
    BY <1>1, <1>4, <1>9 DEF ShownPlayed, clipVars
  <2>4. Loading' => LET u == x.unit
                    IN /\ x.container = Modifiable(u)
                       /\ box'[u][Modifiable(u)] = Append(shown'[u], x.item)
    BY <1>1, <1>9, <2>1 DEF ShownPlayed, clipVars
  <2>5. \A u \in Units :
          IF Unshown("LoadAsClip")' /\ x.unit = u
          THEN rtBox'[u] = Modifiable(u)
          ELSE rtBox'[u] = 3 - Modifiable(u) /\ box'[u][3 - Modifiable(u)] = shown'[u]
    BY <1>1, <1>7, <1>9 DEF ShownPlayed, clipVars
  <2> QED
    BY <1>3, <1>4, <2>2, <2>3, <2>4, <2>5 DEF ShownPlayed
<1>10. ASSUME HistoryInv, Observe
       PROVE  HistoryInv' /\ UNCHANGED <<restDoc, restPast>>
  <2>1. restDoc' = restDoc /\ restPast' = restPast
    BY <1>3, <1>10 DEF Observe, historyVars
  <2>2. undoList \in Seq(ActionIds)
    BY DEF CoreInv, ListsTyped
  <2>3. /\ PastOf(undoList, act') = PastOf(undoList, act)
        /\ \A d : LeadsBack(undoList, act, d) => LeadsBack(undoList, act', d)
    BY <1>4, <2>2, ChainStays
  <2>4. (\A c \in ClipIds' : ~clips'[c].muted) /\ (\A c \in Owned' : Heard(act[c])')
    BY <1>1, <1>4, <1>5, <1>10 DEF HistoryInv, Heard
  <2>5. ForwardUnderWay(x) => ForwardUnderWay(act[Current])'
    BY <1>4, <1>5, <2>1 DEF ForwardUnderWay, Fresh, TakesBack
  <2>6. BackwardUnderWay(x) => BackwardUnderWay(act[Current])'
    BY <1>4, <1>5, <2>1 DEF BackwardUnderWay, Ran, Sent, TakesBack
  <2> QED
    BY <1>1, <1>3, <1>4, <1>10, <2>1, <2>3, <2>4, <2>5, <2>6 DEF HistoryInv
<1> QED
  BY <1>1, <1>6, <1>8, <1>9, <1>10 DEF Keeps, ClipsPlayed, clipVars

\* An edit that is done or aborted leaves the list empty: at rest again.
LEMMA PassEmpties ==
  ASSUME CoreInv, EndPass, NEW x, x = act[Current], x.state \notin {"Executing", "Waiting"}
  PROVE  /\ CoreInv'
         /\ ValuesShown => ValuesShown'
         /\ ClipsPlayed => ClipsPlayed'
         /\ Document' = Document /\ clips' = clips /\ actions' = <<>> /\ actions # <<>>
         /\ Owned' \subseteq Owned
         /\ \A c \in Owned' : act'[c] = act[c]
<1>1. /\ actions # <<>> /\ idx' = 1 /\ actions' = <<>>
      /\ undoList' = IF Retires(x, "Forward") THEN Newest(Append(undoList, Current)) ELSE undoList
      /\ redoList' = IF Retires(x, "Backward") THEN Newest(Append(redoList, Current)) ELSE redoList
      /\ act' \in [ActionIds -> ActionRecords]
      /\ \A c \in Owned' : act'[c] = act[c]
      /\ UNCHANGED <<valueVars, clipVars, assetVars, queueVars, emits>>
  BY PassEnds
<1>2. /\ Current \in ActionIds /\ Current \in ToSet(actions)
      /\ Current \notin ToSet(undoList) /\ Current \notin ToSet(redoList)
      /\ Fits(x) /\ UnderWay(x) /\ Len(actions) \in {1, 2} /\ x \in ActionRecords
      /\ rtTasks = <<>> /\ requests = <<>>
  BY <1>1, CurrentOwned, NothingSent
<1>3. /\ undoList \in Seq(ActionIds) /\ redoList \in Seq(ActionIds)
      /\ IsInjective(undoList) /\ IsInjective(redoList) /\ ToSet(undoList) \cap ToSet(redoList) = {}
      /\ Len(undoList) \in Nat /\ Len(redoList) \in Nat /\ emits \in Nat
      /\ Len(actions) + Len(undoList) + Len(redoList) <= emits
  BY LenProperties DEF CoreInv, ListsTyped, OneUnderWay
<1>4. ~(Retires(x, "Forward") /\ Retires(x, "Backward"))
  BY DEF Retires
<1> HIDE DEF Current
<1>5. \A s \in Seq(ActionIds) :
         IsInjective(s) /\ Current \notin ToSet(s) =>
           /\ Newest(Append(s, Current)) \in Seq(ActionIds) /\ IsInjective(Newest(Append(s, Current)))
           /\ ToSet(Newest(Append(s, Current))) \subseteq ToSet(s) \cup {Current}
           /\ Len(Newest(Append(s, Current))) \in Nat
           /\ Len(Newest(Append(s, Current))) <= Len(s) + 1
           /\ Len(Newest(Append(s, Current))) <= UndoLimit
  <2> SUFFICES ASSUME NEW s \in Seq(ActionIds), IsInjective(s), Current \notin ToSet(s)
               PROVE  /\ Newest(Append(s, Current)) \in Seq(ActionIds) /\ IsInjective(Newest(Append(s, Current)))
                      /\ ToSet(Newest(Append(s, Current))) \subseteq ToSet(s) \cup {Current}
                      /\ Len(Newest(Append(s, Current))) \in Nat
                      /\ Len(Newest(Append(s, Current))) <= Len(s) + 1
                      /\ Len(Newest(Append(s, Current))) <= UndoLimit
    OBVIOUS
  <2> DEFINE t == Append(s, Current)
  <2>1. t \in Seq(ActionIds) /\ IsInjective(t) /\ ToSet(t) = ToSet(s) \cup {Current} /\ Len(t) = Len(s) + 1
    BY <1>2, AppendDistinct, AppendElements
  <2> HIDE DEF t
  <2>2. /\ Newest(t) \in Seq(ActionIds) /\ IsInjective(Newest(t)) /\ ToSet(Newest(t)) \subseteq ToSet(t)
        /\ Len(Newest(t)) \in Nat /\ Len(Newest(t)) <= Len(t)
    BY <2>1, NewestDistinct
  <2>3. Len(Newest(t)) <= UndoLimit
    BY <2>1, NewestElements
  <2> QED
    BY <2>1, <2>2, <2>3 DEF t
<1>6. /\ undoList' \in Seq(ActionIds) /\ IsInjective(undoList')
      /\ ToSet(undoList') \subseteq ToSet(undoList) \cup (IF Retires(x, "Forward") THEN {Current} ELSE {})
      /\ Len(undoList') \in Nat /\ Len(undoList') <= UndoLimit
      /\ Len(undoList') <= Len(undoList) + IF Retires(x, "Forward") THEN 1 ELSE 0
  <2>1. CASE Retires(x, "Forward")
    BY <1>1, <1>2, <1>3, <1>5, <2>1
  <2>2. CASE ~Retires(x, "Forward")
    BY <1>1, <1>3, <2>2 DEF CoreInv, ListsTyped
  <2> QED
    BY <2>1, <2>2
<1>7. /\ redoList' \in Seq(ActionIds) /\ IsInjective(redoList')
      /\ ToSet(redoList') \subseteq ToSet(redoList) \cup (IF Retires(x, "Backward") THEN {Current} ELSE {})
      /\ Len(redoList') \in Nat /\ Len(redoList') <= UndoLimit
      /\ Len(redoList') <= Len(redoList) + IF Retires(x, "Backward") THEN 1 ELSE 0
  <2>1. CASE Retires(x, "Backward")
    BY <1>1, <1>2, <1>3, <1>5, <2>1
  <2>2. CASE ~Retires(x, "Backward")
    BY <1>1, <1>3, <2>2 DEF CoreInv, ListsTyped
  <2> QED
    BY <2>1, <2>2
<1>8. ToSet(actions') = {} /\ Len(actions') = 0
  BY <1>1 DEF ToSet
<1>9. Owned' \subseteq Owned
  BY <1>2, <1>6, <1>7, <1>8 DEF Owned
<1>10. /\ DataTyped' /\ clips' = clips /\ Document' = Document /\ ClipIds' = ClipIds
  BY <1>1, DocumentTyped DEF CoreInv, DataTyped, valueVars, clipVars, assetVars, ClipIds
<1>11. \A c \in ToSet(undoList') \cup ToSet(redoList') :
         /\ act'[c] = act[c]
         /\ c \in ToSet(undoList) \cup ToSet(redoList)
            \/ (c = Current /\ x.state = "Finished" /\ x.kind \in Undoables)
  BY <1>1, <1>6, <1>7 DEF Owned, Retires
<1>12. CoreInv'
  <2>1. ListsTyped'
    BY <1>1, <1>6, <1>7 DEF CoreInv, ListsTyped
  <2>2. OneUnderWay'
    <3>1. Len(actions') + Len(undoList') + Len(redoList') <= emits'
      <4>1. /\ Len(undoList') <= Len(undoList) + (IF Retires(x, "Forward") THEN 1 ELSE 0)
            /\ Len(redoList') <= Len(redoList) + (IF Retires(x, "Backward") THEN 1 ELSE 0)
            /\ Len(undoList') \in Nat /\ Len(redoList') \in Nat
        BY <1>6, <1>7
      <4>2. emits' = emits /\ Len(actions') = 0
        BY <1>1, <1>8
      <4>3. Len(actions) \in Nat /\ Len(actions) >= 1
        BY <1>2
      <4>4. /\ Len(undoList) \in Nat /\ Len(redoList) \in Nat /\ emits \in Nat
            /\ Len(actions) + Len(undoList) + Len(redoList) <= emits
        BY <1>3
      <4>5. CASE Retires(x, "Forward")
        <5>1. Len(undoList') <= Len(undoList) + 1 /\ Len(redoList') <= Len(redoList)
          BY <1>3, <1>4, <4>1, <4>5
        <5> QED
          BY ONLY <4>1, <4>2, <4>3, <4>4, <5>1
      <4>6. CASE ~Retires(x, "Forward")
        <5>1. Len(undoList') <= Len(undoList) /\ Len(redoList') <= Len(redoList) + 1
          BY <1>3, <4>1, <4>6
        <5> QED
          BY ONLY <4>1, <4>2, <4>3, <4>4, <5>1
      <4> QED
        BY <4>5, <4>6
    <3>2. \A c \in ToSet(undoList') \cup ToSet(redoList') : Stored(act[c])'
      <4>1. x.state = "Finished" /\ x.kind \in Undoables => Stored(x)
        BY <1>2 DEF Stored, UnderWay
      <4>2. \A c \in ToSet(undoList') \cup ToSet(redoList') : Stored(act[c]) /\ act'[c] = act[c]
        BY <1>11, <4>1 DEF CoreInv, OneUnderWay
      <4> QED
        BY <1>10, <4>2 DEF Stored, Fits
    <3>3. ToSet(undoList') \cap ToSet(redoList') = {}
      BY <1>2, <1>3, <1>4, <1>6, <1>7
    <3>4. IsInjective(actions')
      BY <1>1 DEF IsInjective
    <3>5. ToSet(actions') \cap ToSet(undoList') = {} /\ ToSet(actions') \cap ToSet(redoList') = {}
      BY <1>8
    <3>6. IsInjective(undoList') /\ IsInjective(redoList')
      BY <1>6, <1>7
    <3>7. Len(actions') <= 2 /\ Len(actions') # 2
      BY <1>8
    <3>8. actions' = <<>>
      BY <1>1
    <3> QED
      BY <3>1, <3>2, <3>3, <3>4, <3>5, <3>6, <3>7, <3>8 DEF OneUnderWay
  <2>3. TasksUnderWay'
    BY <1>1, <1>2 DEF TasksUnderWay, queueVars
  <2> QED
    BY <1>10, <2>1, <2>2, <2>3 DEF CoreInv
<1>13. \A k : ~Unshown(k)' /\ ~Unshown(k)
  BY <1>1 DEF Unshown, Ran, Sent
<1>14. ValuesShown => ValuesShown'
  BY <1>1, <1>13 DEF ValuesShown, valueVars, clipVars, assetVars
<1>15. ASSUME ~removed, ShownPlayed
       PROVE  ShownPlayed'
  <2>1. ~Loading'
    BY <1>1 DEF Loading
  <2>2. \A u : Modifiable(u)' = Modifiable(u)
    BY <1>1 DEF Modifiable, clipVars
  <2>3. x.kind # "RemoveClip"
    BY <1>1, <1>15 DEF ShownPlayed
  <2>4. ~torn' /\ \A c \in ToSet(undoList') \cup ToSet(redoList') : act'[c].kind # "RemoveClip"
    BY <1>1, <1>11, <1>15, <2>3 DEF ShownPlayed, clipVars
  <2>5. \A u \in Units : rtBox'[u] = 3 - Modifiable(u) /\ box'[u][3 - Modifiable(u)] = shown'[u]
    BY <1>1, <1>13, <1>15 DEF ShownPlayed, clipVars
  <2> QED
    BY <1>1, <1>13, <2>1, <2>2, <2>4, <2>5 DEF ShownPlayed
<1> QED
  BY <1>1, <1>9, <1>10, <1>12, <1>14, <1>15 DEF ClipsPlayed, clipVars

\* At rest again an edit is put on the stack of documents, an undo has taken the
\* newest from it, and anything else has changed nothing.
LEMMA PassHistory ==
  ASSUME CoreInv, EndPass, NEW x, x = act[Current], x.state \notin {"Executing", "Waiting"},
         HistoryInv, Observe
  PROVE  HistoryInv' /\ (Stack!Next \/ UNCHANGED <<restDoc, restPast>>)
<1>1. /\ actions # <<>> /\ actions' = <<>>
      /\ undoList' = IF Retires(x, "Forward") THEN Newest(Append(undoList, Current)) ELSE undoList
      /\ act' \in [ActionIds -> ActionRecords]
      /\ Document' = Document /\ clips' = clips
      /\ Owned' \subseteq Owned /\ \A c \in Owned' : act'[c] = act[c]
  BY PassEnds, PassEmpties
<1>2. CoreInv'
  BY PassEmpties
<1>3. /\ Current \in ActionIds /\ Fits(x) /\ UnderWay(x) /\ x \in ActionRecords
  BY <1>1, CurrentOwned
<1>4. /\ undoList \in Seq(ActionIds) /\ undoList' \in Seq(ActionIds) /\ act \in [ActionIds -> ActionRecords]
  BY <1>2 DEF CoreInv, ListsTyped
<1>5. Document \in Documents
  BY DocumentTyped
<1> HIDE DEF Current
<1>6. /\ restDoc' = Document
      /\ restPast' = PastOf(undoList', act')
  <2>1. DOMAIN undoList' = 1..Len(undoList')
    BY <1>4, ElementsAtPositions
  <2> QED
    BY <1>1, <2>1 DEF Observe, PastOf
<1>7. PastOf(undoList', act') = PastOf(undoList', act)
      /\ \A d : LeadsBack(undoList', act, d) => LeadsBack(undoList', act', d)
  <2>1. \A c \in ToSet(undoList') : act'[c] = act[c]
    BY <1>1 DEF Owned
  <2> QED
    BY <1>4, <2>1, ChainStays
<1>8. ASSUME LeadsBack(undoList', act, Document)
      PROVE  HistoryInv'
  <2>1. \A c \in ClipIds' : ~clips'[c].muted
    BY <1>1 DEF HistoryInv, ClipIds
  <2>2. \A c \in Owned' : Heard(act[c])'
    BY <1>1 DEF HistoryInv, Heard
  <2> QED
    BY <1>1, <1>5, <1>6, <1>7, <1>8, <2>1, <2>2 DEF HistoryInv
<1> DEFINE Found == {act[b].before : b \in ActionIds}
<1>9. /\ PastOf(undoList, act) \in Seq(Found) /\ Len(PastOf(undoList, act)) = Len(undoList)
      /\ x.before \in Found
  <2>1. \A b \in ActionIds : act[b].before \in Found
    OBVIOUS
  <2> HIDE DEF Found
  <2> QED
    BY <1>3, <1>4, <2>1, PastElements
<1> HIDE DEF Found
<1>10. CASE Retires(x, "Forward")
  <2>1. x.state = "Finished" /\ x.kind \in Undoables /\ x.direction = "Forward"
    BY <1>10 DEF Retires
  <2>2. /\ restPast = PastOf(undoList, act) /\ LeadsBack(undoList, act, restDoc)
        /\ x.before = restDoc /\ TakesBack(x, Document, restDoc)
    BY <1>1, <2>1 DEF HistoryInv, ForwardUnderWay, Fresh
  <2>3. LeadsBack(undoList, act, act[Current].before) /\ TakesBack(act[Current], Document, act[Current].before)
    BY <2>2
  <2>4. /\ LeadsBack(Append(undoList, Current), act, Document)
        /\ PastOf(Append(undoList, Current), act) = Append(PastOf(undoList, act), act[Current].before)
    BY <1>3, <1>4, <2>3, ChainGrows
  <2>5. undoList' = Newest(Append(undoList, Current))
    BY <1>1, <1>10
  <2>6. Append(undoList, Current) \in Seq(ActionIds) /\ Len(undoList) <= UndoLimit
    BY <1>3, <1>4, AppendElements DEF CoreInv, ListsTyped
  <2>7. LeadsBack(undoList', act, Document)
    BY <2>4, <2>5, <2>6, ChainForgets
  <2>8. restPast' = Append(IF Len(restPast) = UndoLimit THEN Tail(restPast) ELSE restPast, restDoc)
    <3>1. PastOf(undoList', act)
            = Append(IF Len(PastOf(undoList, act)) = UndoLimit THEN Tail(PastOf(undoList, act)) ELSE PastOf(undoList, act),
                     act[Current].before)
      BY <1>3, <1>4, <2>5, <2>6, PastPushed
    <3> QED
      BY <1>6, <1>7, <2>2, <3>1
  <2>9. Stack!Do
    BY <2>8 DEF Stack!Do
  <2> QED
    BY <1>8, <2>7, <2>9 DEF Stack!Next
<1>11. CASE Retires(x, "Backward")
  <2>1. x.state = "Finished" /\ x.kind \in Undoables /\ x.direction = "Backward"
    BY <1>11 DEF Retires
  <2>2. /\ restPast = Append(PastOf(undoList, act), x.before) /\ LeadsBack(undoList, act, x.before)
        /\ Document = x.before
    BY <1>1, <2>1 DEF HistoryInv, BackwardUnderWay
  <2>3. undoList' = undoList
    BY <1>1, <2>1 DEF Retires
  <2>4. Last(restPast) = x.before /\ Front(restPast) = PastOf(undoList, act) /\ restPast # <<>>
    BY <1>9, <2>2, AppendLast
  <2>5. restDoc' = Last(restPast) /\ restPast' = Front(restPast)
    BY <1>6, <1>7, <2>2, <2>3, <2>4
  <2>6. Stack!Undo
    BY <2>4, <2>5 DEF Stack!Undo, Stack!Last, Stack!Front, Last, Front
  <2> QED
    BY <1>8, <2>2, <2>3, <2>6 DEF Stack!Next
<1>12. CASE ~Retires(x, "Forward") /\ ~Retires(x, "Backward")
  <2>1. x.direction = "Forward" /\ (x.kind \notin Undoables \/ x.state = "Abort")
    <3>1. x.state \in {"Finished", "Abort"} /\ x.direction \in {"Forward", "Backward"} /\ x.kind \in Kinds
      BY <1>3 DEF ActionRecords
    <3> QED
      BY <1>3, <1>12, <3>1 DEF Retires, UnderWay, Fits, Kinds, Loads, Replays, Undoables
  <2>2. /\ restPast = PastOf(undoList, act) /\ LeadsBack(undoList, act, restDoc) /\ Document = restDoc
    BY <1>1, <2>1 DEF HistoryInv, ForwardUnderWay
  <2>3. undoList' = undoList
    BY <1>1, <1>12
  <2> QED
    BY <1>6, <1>7, <1>8, <2>2, <2>3
<1> QED
  BY <1>10, <1>11, <1>12

(* -------------------------------- emitting ------------------------------- *)

\* The next edit finds the list empty and is the one under way.
LEMMA EmitActionKeeps ==
  ASSUME OneEditAtATime, CoreInv, NEW kind, NEW u, NEW attribute, NEW value, NEW clip, NEW file, NEW x,
         EmitAction(kind, u, attribute, value, clip, file),
         x = NewAction(kind, u, attribute, value, clip, file),
         x \in ActionRecords, Fits(x),
         kind = "RemoveClip" => clip \in ToSet(shown[u]),
         UndoIsComplete => Heard(x)
  PROVE  Keeps
<1>1. PICK a \in ActionIds \ Owned : act' = [act EXCEPT ![a] = x] /\ actions' = Append(actions, a)
  BY DEF EmitAction
<1>2. /\ emits < MaxEmits /\ Len(actions) < MaxInFlight /\ emits' = emits + 1
      /\ UNCHANGED <<valueVars, clipVars, assetVars, undoList, redoList, idx, queueVars>>
  BY DEF EmitAction
<1>3. actions = <<>> /\ Len(actions) = 0
  <2>1. actions \in Seq(ActionIds) /\ Len(actions) \in Nat
    BY LenProperties DEF CoreInv, ListsTyped
  <2>2. Len(actions) = 0
    BY <1>2, <2>1, EditsAssumption DEF OneEditAtATime
  <2> QED
    BY <2>1, <2>2, EmptySeq
<1>4. actions' = <<a>> /\ Len(actions') = 1 /\ actions' # <<>> /\ actions' \in Seq(ActionIds)
  BY <1>1, <1>3
<1>5. ToSet(actions') = {a} /\ IsInjective(actions')
  BY <1>4 DEF ToSet, IsInjective
<1>6. Current' = a
  BY <1>4 DEF Current, Last
<1>7. /\ act \in [ActionIds -> ActionRecords] /\ act'[a] = x
      /\ act' \in [ActionIds -> ActionRecords]
      /\ \A c \in ActionIds \ {a} : act'[c] = act[c]
  BY <1>1 DEF CoreInv, ListsTyped
<1>8. /\ x.kind = kind /\ x.clip = clip /\ x.unit = u /\ x.step = 1 /\ x.direction = "Forward"
      /\ x.state = "Executing" /\ x.opened = "no" /\ ~x.completed
  BY DEF NewAction
<1>9. /\ ToSet(undoList) \subseteq ActionIds \ {a} /\ ToSet(redoList) \subseteq ActionIds \ {a}
      /\ \A c \in ToSet(undoList) \cup ToSet(redoList) : act'[c] = act[c]
  <2>1. a \notin ToSet(undoList) /\ a \notin ToSet(redoList)
    BY <1>1 DEF Owned
  <2>2. ToSet(undoList) \subseteq ActionIds /\ ToSet(redoList) \subseteq ActionIds
    BY ElementsAtPositions DEF CoreInv, ListsTyped
  <2> QED
    BY <1>7, <2>1, <2>2
<1>10. ~Sent(x) /\ ~Ran(x) /\ Fresh(x)
  BY <1>8 DEF Sent, Ran, Fresh, SendStep
<1> HIDE DEF Current
<1>11. DataTyped' /\ clips' = clips /\ Document' = Document /\ ClipIds' = ClipIds
  BY <1>2, DocumentTyped DEF CoreInv, DataTyped, valueVars, clipVars, assetVars, ClipIds
<1>12. Fits(act[Current])' /\ UnderWay(act[Current])'
  <2>1. UnderWay(x)
    BY <1>8, <1>10 DEF UnderWay, SendStep
  <2> QED
    BY <1>6, <1>7, <1>11, <2>1 DEF Fits, UnderWay, Sent, Ran
<1>13. CoreInv'
  <2>1. ListsTyped'
    BY <1>2, <1>4, <1>7, EditsAssumption DEF CoreInv, ListsTyped
  <2>2. OneUnderWay'
    <3>1. Len(actions') + Len(undoList') + Len(redoList') <= emits'
      <4>1. Len(undoList) \in Nat /\ Len(redoList) \in Nat /\ emits \in Nat
        BY LenProperties DEF CoreInv, ListsTyped
      <4>2. Len(actions) + Len(undoList) + Len(redoList) <= emits
        BY DEF CoreInv, OneUnderWay
      <4>3. Len(undoList') = Len(undoList) /\ Len(redoList') = Len(redoList)
        BY <1>2
      <4>4. Len(actions) = 0 /\ Len(actions') = 1 /\ emits' = emits + 1
        BY <1>2, <1>3, <1>4
      <4> QED
        BY ONLY <4>1, <4>2, <4>3, <4>4
    <3>2. \A c \in ToSet(undoList') \cup ToSet(redoList') : Stored(act[c])'
      <4>1. \A c \in ToSet(undoList) \cup ToSet(redoList) : Stored(act[c]) /\ act'[c] = act[c]
        BY <1>9 DEF CoreInv, OneUnderWay
      <4> QED
        BY <1>2, <1>11, <4>1 DEF Stored, Fits
    <3>3. ToSet(actions') \cap ToSet(undoList') = {} /\ ToSet(actions') \cap ToSet(redoList') = {}
      BY <1>2, <1>5, <1>9
    <3>4. Len(actions') <= 2 /\ Len(actions') # 2
      BY <1>4
    <3>5. /\ IsInjective(undoList') /\ IsInjective(redoList') /\ ToSet(undoList') \cap ToSet(redoList') = {}
      BY <1>2 DEF CoreInv, OneUnderWay
    <3> QED
      BY <1>5, <1>12, <3>1, <3>2, <3>3, <3>4, <3>5 DEF OneUnderWay
  <2>3. TasksUnderWay'
    <3>1. rtTasks = <<>> /\ requests = <<>>
      BY <1>3 DEF CoreInv, TasksUnderWay
    <3>2. rtTasks' = <<>> /\ requests' = <<>>
      BY <1>2, <3>1 DEF queueVars
    <3>3. ~Sent(act[Current])'
      BY <1>6, <1>7, <1>10 DEF Sent
    <3> QED
      BY <3>2, <3>3 DEF TasksUnderWay
  <2> QED
    BY <1>11, <2>1, <2>2, <2>3 DEF CoreInv
<1>14. \A k : ~Unshown(k)' /\ ~Unshown(k)
  BY <1>3, <1>6, <1>7, <1>10 DEF Unshown, Ran, Sent
<1>15. ValuesShown => ValuesShown'
  BY <1>2, <1>14 DEF ValuesShown, valueVars, clipVars, assetVars
<1>16. ASSUME ShownPlayed
       PROVE  ShownPlayed'
  <2>1. ~Loading'
    BY <1>6, <1>7, <1>10 DEF Loading, Ran, Sent
  <2>2. \A w : Modifiable(w)' = Modifiable(w)
    BY <1>2 DEF Modifiable, clipVars
  <2>3. x.kind = "RemoveClip" =>
          x.state = "Executing" /\ x.step = 1 /\ x.clip \in ToSet(shown'[x.unit])
    BY <1>2, <1>8 DEF clipVars
  <2>4. ~torn' /\ \A c \in ToSet(undoList') \cup ToSet(redoList') : act'[c].kind # "RemoveClip"
    BY <1>2, <1>9, <1>16 DEF ShownPlayed, clipVars
  <2>5. \A w \in Units : rtBox'[w] = 3 - Modifiable(w) /\ box'[w][3 - Modifiable(w)] = shown'[w]
    BY <1>2, <1>14, <1>16 DEF ShownPlayed, clipVars
  <2> QED
    BY <1>6, <1>7, <1>14, <2>1, <2>2, <2>3, <2>4, <2>5 DEF ShownPlayed
<1>17. ASSUME UndoIsComplete, HistoryInv, Observe
       PROVE  HistoryInv' /\ UNCHANGED <<restDoc, restPast>>
  <2>1. restDoc' = restDoc /\ restPast' = restPast
    BY <1>4, <1>17 DEF Observe, historyVars
  <2>2. undoList \in Seq(ActionIds) /\ undoList' = undoList
    BY <1>2 DEF CoreInv, ListsTyped
  <2>3. /\ PastOf(undoList, act') = PastOf(undoList, act)
        /\ \A d : LeadsBack(undoList, act, d) => LeadsBack(undoList, act', d)
    BY <1>9, <2>2, ChainStays
  <2>4. \A c \in ClipIds' : ~clips'[c].muted
    BY <1>11, <1>17 DEF HistoryInv, ClipIds
  <2>5. \A c \in Owned' : Heard(act[c])'
    <3>1. \A c \in Owned' : c = a \/ (c \in Owned /\ act'[c] = act[c])
      BY <1>2, <1>5, <1>9 DEF Owned
    <3> QED
      BY <1>7, <1>17, <3>1 DEF HistoryInv, Heard
  <2>6. /\ restPast = PastOf(undoList, act) /\ LeadsBack(undoList, act, restDoc) /\ Document = restDoc
        /\ restDoc \in Documents
    BY <1>3, <1>17 DEF HistoryInv
  <2>7. act'[Current'].direction = "Forward" /\ Fresh(act[Current])'
    BY <1>6, <1>7, <1>8, <1>10 DEF Fresh
  <2>8. ForwardUnderWay(act[Current])'
    BY <1>11, <2>1, <2>6, <2>7 DEF ForwardUnderWay, Fresh
  <2> QED
    BY <1>4, <2>1, <2>2, <2>3, <2>4, <2>5, <2>6, <2>7, <2>8 DEF HistoryInv
<1> QED
  BY <1>2, <1>13, <1>15, <1>16, <1>17 DEF Keeps, ClipsPlayed, clipVars

\* So does whatever the interface emits.
LEMMA EmitKeeps ==
  ASSUME OneEditAtATime, CoreInv, Emit
  PROVE  Keeps
<1>1. /\ Default \in Values /\ NoFile \in Assets /\ Default \in Values \cup ClipRecords
      /\ 0 \in Units \cup Gone \cup {0} /\ "none" \in AllAttributes \cup {"none"} /\ 0 \in Nat
  BY EditsAssumption DEF Assets
<1>2. \A u \in Units : ToSet(shown[u]) \subseteq ClipIds
  BY DEF CoreInv, DataTyped
<1>3. ClipIds \subseteq Nat
  BY DEF ClipIds
<1>4. \A kind \in Kinds, u \in Units \cup Gone \cup {0}, attribute \in AllAttributes \cup {"none"},
         value \in Values \cup ClipRecords, clip \in Nat, file \in Assets :
        NewAction(kind, u, attribute, value, clip, file) \in ActionRecords
  BY DEF NewAction, ActionRecords
<1>5. CASE EmitSetValue
  <2>1. PICK u \in Units \cup Gone, t \in Attributes, v \in Values : EmitAction("SetValue", u, t, v, 0, NoFile)
    BY <1>5 DEF EmitSetValue
  <2> DEFINE x == NewAction("SetValue", u, t, v, 0, NoFile)
  <2>2. t \in AllAttributes
    BY EditsAssumption
  <2>3. x \in ActionRecords
    BY <1>1, <1>4, <2>2 DEF Kinds, Undoables
  <2>4. Fits(x) /\ Heard(x)
    BY <2>2 DEF NewAction, Fits, Loads, Heard
  <2> HIDE DEF x
  <2>5. x = NewAction("SetValue", u, t, v, 0, NoFile)
    BY DEF x
  <2> QED
    BY <2>1, <2>3, <2>4, <2>5, EmitActionKeeps
<1>6. CASE EmitModifyClip
  <2>1. PICK u \in Units, v \in Values, m \in Mutes :
          \E c \in ToSet(shown[u]) :
            EmitAction("ModifyClipItem", u, "none", [start |-> v, muted |-> m], c, NoFile)
    BY <1>6 DEF EmitModifyClip
  <2>2. PICK c \in ToSet(shown[u]) :
          EmitAction("ModifyClipItem", u, "none", [start |-> v, muted |-> m], c, NoFile)
    BY <2>1
  <2> DEFINE r == [start |-> v, muted |-> m]
             x == NewAction("ModifyClipItem", u, "none", r, c, NoFile)
  <2>3. r \in ClipRecords /\ r.muted = m
    BY EditsAssumption DEF ClipRecords
  <2>4. c \in ClipIds /\ c \in Nat
    BY <1>2, <1>3
  <2>5. EmitAction("ModifyClipItem", u, "none", r, c, NoFile)
    BY <2>2
  <2> HIDE DEF r
  <2>6. x \in ActionRecords
    BY <1>1, <1>4, <2>3, <2>4 DEF Kinds, Undoables
  <2>7. Fits(x) /\ (UndoIsComplete => Heard(x))
    BY <2>3, <2>4 DEF NewAction, Fits, Loads, Heard, UndoIsComplete
  <2> HIDE DEF x
  <2>8. x = NewAction("ModifyClipItem", u, "none", r, c, NoFile)
    BY DEF x
  <2> QED
    BY <2>5, <2>6, <2>7, <2>8, EmitActionKeeps
<1>7. CASE EmitRemoveClip
  <2>1. PICK u \in Units : \E c \in ToSet(shown[u]) : EmitAction("RemoveClip", u, "none", Default, c, NoFile)
    BY <1>7 DEF EmitRemoveClip
  <2>2. PICK c \in ToSet(shown[u]) : EmitAction("RemoveClip", u, "none", Default, c, NoFile)
    BY <2>1
  <2> DEFINE x == NewAction("RemoveClip", u, "none", Default, c, NoFile)
  <2>3. c \in ClipIds /\ c \in Nat
    BY <1>2, <1>3
  <2>4. x \in ActionRecords
    BY <1>1, <1>4, <2>3 DEF Kinds, Undoables
  <2>5. Fits(x) /\ Heard(x)
    BY DEF NewAction, Fits, Loads, Heard
  <2> HIDE DEF x
  <2>6. x = NewAction("RemoveClip", u, "none", Default, c, NoFile)
    BY DEF x
  <2> QED
    BY <2>2, <2>4, <2>5, <2>6, EmitActionKeeps
<1>8. CASE EmitLoadAsClip
  <2>1. PICK u \in Units \cup Gone, f \in Files \cup {Take} : EmitAction("LoadAsClip", u, "none", Default, 0, f)
    BY <1>8 DEF EmitLoadAsClip
  <2> DEFINE x == NewAction("LoadAsClip", u, "none", Default, 0, f)
  <2>2. x \in ActionRecords
    BY <1>1, <1>4 DEF Kinds, Assets
  <2>3. Fits(x) /\ Heard(x)
    BY DEF NewAction, Fits, Loads, Heard
  <2> HIDE DEF x
  <2>4. x = NewAction("LoadAsClip", u, "none", Default, 0, f)
    BY DEF x
  <2> QED
    BY <2>1, <2>2, <2>3, <2>4, EmitActionKeeps
<1>9. CASE EmitLoadAsset
  <2>1. PICK u \in Units \cup Gone, f \in Files : EmitAction("LoadAsset", u, "none", Default, 0, f)
    BY <1>9 DEF EmitLoadAsset
  <2> DEFINE x == NewAction("LoadAsset", u, "none", Default, 0, f)
  <2>2. x \in ActionRecords
    BY <1>1, <1>4 DEF Kinds, Assets
  <2>3. Fits(x) /\ Heard(x)
    BY DEF NewAction, Fits, Loads, Heard
  <2> HIDE DEF x
  <2>4. x = NewAction("LoadAsset", u, "none", Default, 0, f)
    BY DEF x
  <2> QED
    BY <2>1, <2>2, <2>3, <2>4, EmitActionKeeps
<1>10. CASE EmitReplay
  <2>1. PICK kind \in Replays : EmitAction(kind, 0, "none", Default, 0, NoFile)
    BY <1>10 DEF EmitReplay, Replays
  <2> DEFINE x == NewAction(kind, 0, "none", Default, 0, NoFile)
  <2>2. kind \in Kinds /\ kind # "RemoveClip"
    BY DEF Kinds, Replays
  <2>3. x \in ActionRecords
    BY <1>1, <1>4, <2>2
  <2>4. Fits(x) /\ Heard(x)
    BY DEF NewAction, Fits, Loads, Heard, Replays
  <2> HIDE DEF x
  <2>5. x = NewAction(kind, 0, "none", Default, 0, NoFile)
    BY DEF x
  <2> QED
    BY <2>1, <2>2, <2>3, <2>4, <2>5, EmitActionKeeps
<1> QED
  BY <1>5, <1>6, <1>7, <1>8, <1>9, <1>10 DEF Emit

(* ------------------------------- every step ------------------------------ *)

\* The invariants of the values and clips together.
SerialInv == CoreInv /\ ValuesShown /\ ClipsPlayed

\* They hold at the start, with nothing to undo.
LEMMA InitSerial ==
  ASSUME Init
  PROVE  SerialInv /\ HistoryInv
<1>1. /\ unit = [u \in Units |-> [t \in RtAttributes |-> Default]]
      /\ view = [u \in Units |-> [t \in AllAttributes |-> Default]]
      /\ clips = <<>> /\ clipViews = [c \in {} |-> NewClip(Default)]
      /\ box = [u \in Units \cup Gone |-> [b \in {1, 2} |-> <<>>]]
      /\ inUse = [u \in Units \cup Gone |-> FALSE]
      /\ rtBox = [u \in Units |-> 2]
      /\ shown = [u \in Units |-> <<>>]
      /\ asset = [u \in Units |-> NoFile] /\ assetView = asset
      /\ torn = FALSE /\ removed = FALSE
  BY DEF Init
<1>2. /\ act = [a \in ActionIds |-> Blank]
      /\ actions = <<>> /\ undoList = <<>> /\ redoList = <<>> /\ idx = 1
      /\ rtTasks = <<>> /\ requests = <<>> /\ emits = 0
      /\ restDoc = Document /\ restPast = <<>>
  BY DEF Init
<1>3. Default \in Values /\ NoFile \in Assets /\ MaxEmits \in Nat
  BY EditsAssumption DEF Assets
<1>4. /\ ToSet(actions) = {} /\ ToSet(undoList) = {} /\ ToSet(redoList) = {}
      /\ Len(actions) = 0 /\ Len(undoList) = 0 /\ Len(redoList) = 0
  BY <1>2 DEF ToSet
<1>5. ListsTyped
  <2>1. Blank \in ActionRecords
    BY <1>3 DEF Blank, NewAction, ActionRecords, Kinds
  <2> QED
    BY <1>2, <1>3, <1>4, <2>1, EditsAssumption DEF ListsTyped
<1>6. DataTyped
  <2>1. unit \in UnitValues /\ view \in ViewValues
    BY <1>1, <1>3 DEF UnitValues, ViewValues
  <2>2. clips \in Seq(ClipRecords) /\ clipViews \in [DOMAIN clipViews -> ClipRecords] /\ DOMAIN clipViews = {}
    BY <1>1
  <2>3. box \in [Units \cup Gone -> [{1, 2} -> Seq(Nat)]]
    BY <1>1
  <2>4. \A u \in Units : shown[u] = <<>> /\ ToSet(shown[u]) = {}
    BY <1>1 DEF ToSet
  <2>5. /\ inUse \in [Units \cup Gone -> BOOLEAN] /\ rtBox \in [Units -> {1, 2}]
        /\ shown \in [Units -> Seq(Nat)]
        /\ asset \in [Units -> Assets] /\ assetView \in [Units -> Assets]
    BY <1>1, <1>3
  <2> QED
    BY <1>1, <2>1, <2>2, <2>3, <2>4, <2>5 DEF DataTyped
<1>7. OneUnderWay
  BY <1>2, <1>4 DEF OneUnderWay, IsInjective
<1>8. CoreInv
  BY <1>2, <1>5, <1>6, <1>7 DEF CoreInv, TasksUnderWay
<1>9. \A kind : ~Unshown(kind)
  BY <1>2 DEF Unshown
<1>10. ValuesShown
  <2>1. \A u \in Units, t \in RtAttributes : view[u][t] = unit[u][t]
    BY <1>1 DEF AllAttributes
  <2>2. DOMAIN clipViews = {} /\ assetView = asset
    BY <1>1
  <2> QED
    BY <1>9, <2>1, <2>2 DEF ValuesShown
<1>11. ShownPlayed
  <2>1. \A u \in Units : Modifiable(u) = 1 /\ rtBox[u] = 2 /\ box[u][2] = <<>> /\ shown[u] = <<>>
    BY <1>1 DEF Modifiable
  <2> QED
    BY <1>1, <1>2, <1>4, <1>9, <2>1 DEF ShownPlayed, Loading
<1>12. HistoryInv
  <2>1. restDoc \in Documents
    BY <1>2, <1>8, DocumentTyped
  <2>2. ClipIds = {} /\ Owned = {}
    BY <1>1, <1>4 DEF ClipIds, Owned
  <2>3. LeadsBack(undoList, act, restDoc)
    BY <1>4 DEF LeadsBack
  <2>4. PastOf(undoList, act) = <<>>
    <3> DEFINE S == {act[a].before : a \in ActionIds}
    <3>1. undoList \in Seq(ActionIds) /\ \A a \in ActionIds : act[a].before \in S
      BY <1>2
    <3> HIDE DEF S
    <3>2. PastOf(undoList, act) \in Seq(S) /\ Len(PastOf(undoList, act)) = Len(undoList)
      BY <3>1, PastElements
    <3> QED
      BY <1>4, <3>2, EmptySeq
  <2> QED
    BY <1>2, <2>1, <2>2, <2>3, <2>4 DEF HistoryInv
<1> QED
  BY <1>8, <1>10, <1>11, <1>12 DEF SerialInv, ClipsPlayed

\* Nor does stuttering change anything.
LEMMA StutterSerial ==
  ASSUME UNCHANGED vars
  PROVE  /\ SerialInv => SerialInv'
         /\ HistoryInv => HistoryInv'
         /\ UNCHANGED <<restDoc, restPast>>
<1>1. UNCHANGED <<valueVars, clipVars, assetVars, act, listVars, queueVars, emits, historyVars>>
  BY DEF vars
<1>2. UNCHANGED <<unit, view, clips, clipViews, box, inUse, rtBox, shown, torn, removed, asset, assetView,
                  act, actions, undoList, redoList, idx, rtTasks, requests, emits, restDoc, restPast>>
  BY <1>1 DEF valueVars, clipVars, assetVars, listVars, queueVars, historyVars
<1>3. Document' = Document
  BY <1>2 DEF Document
<1>4. CoreInv => CoreInv'
  <2>1. DataTyped => DataTyped'
    BY <1>2 DEF DataTyped, ClipIds
  <2>2. OneUnderWay => OneUnderWay'
    BY <1>2 DEF OneUnderWay, Stored, Fits, UnderWay, Sent, Ran, Current, ClipIds
  <2>3. TasksUnderWay => TasksUnderWay'
    BY <1>2 DEF TasksUnderWay, Sent, Current
  <2>4. ListsTyped => ListsTyped'
    BY <1>2 DEF ListsTyped
  <2> QED
    BY <2>1, <2>2, <2>3, <2>4 DEF CoreInv
<1>5. ValuesShown => ValuesShown'
  BY <1>2 DEF ValuesShown, Unshown, Ran, Sent, Aim, Current
<1>6. ClipsPlayed => ClipsPlayed'
  BY <1>2 DEF ClipsPlayed, ShownPlayed, Loading, Unshown, Ran, Sent, Modifiable, Current
<1>7. HistoryInv => HistoryInv'
  <2>1. Current' = Current
    BY <1>2 DEF Current
  <2>2. /\ ForwardUnderWay(act[Current]) => ForwardUnderWay(act[Current])'
        /\ BackwardUnderWay(act[Current]) => BackwardUnderWay(act[Current])'
    BY <1>2, <1>3, <2>1 DEF ForwardUnderWay, BackwardUnderWay, Fresh, Ran, Sent, TakesBack
  <2> QED
    BY <1>2, <1>3, <2>1, <2>2 DEF HistoryInv, Heard, Owned, ClipIds
<1> QED
  BY <1>2, <1>4, <1>5, <1>6, <1>7 DEF SerialInv

\* Every step is one of an edit, of a pass, of the other threads or of the interface.
LEMMA NextSerial ==
  ASSUME OneEditAtATime, SerialInv, Next
  PROVE  /\ SerialInv'
         /\ UndoIsComplete /\ HistoryInv =>
              HistoryInv' /\ (Stack!Next \/ UNCHANGED <<restDoc, restPast>>)
<1>1. CoreInv /\ ValuesShown /\ ClipsPlayed /\ Observe
  BY DEF SerialInv, Next
<1>2. ASSUME Keeps
      PROVE  /\ SerialInv'
             /\ UndoIsComplete /\ HistoryInv =>
                  HistoryInv' /\ (Stack!Next \/ UNCHANGED <<restDoc, restPast>>)
  BY <1>1, <1>2 DEF Keeps, SerialInv
<1>3. ASSUME NEW a \in ActionIds, Step(a)
      PROVE  Keeps
  <2>1. CASE SetParameter(a) \/ ToggleMidiThru(a) \/ ToggleOmniHwInput(a)
    BY <1>1, <2>1, RtValueKeeps
  <2>2. CASE SetName(a) \/ SetColor(a)
    BY <1>1, <2>2, ViewValueKeeps
  <2>3. CASE ModifyClip1(a) \/ ModifyClip2(a)
    BY <1>1, <2>3, ModifyClip1Keeps, ModifyClip2Keeps
  <2>4. CASE OpenClipFile(a) \/ CreateClip(a) \/ AddToContainer(a) \/ ShowClip(a)
    BY <1>1, <2>4, OpenClipFileKeeps, CreateClipKeeps, AddToContainerKeeps, ShowClipKeeps
  <2>5. CASE RemoveClip1(a) \/ RemoveClip2(a)
    BY <1>1, <2>5, RemoveClip1Keeps, RemoveClip2Keeps
  <2>6. CASE OpenAsset(a) \/ SendAsset(a) \/ ShowAsset(a)
    BY <1>1, <2>6, OpenAssetKeeps, SendAssetKeeps, ShowAssetKeeps
  <2>7. CASE CheckWaitingCondition(a) \/ Skip(a)
    BY <1>1, <2>7, CheckWaitingKeeps, SkipKeeps
  <2>8. CASE UndoExec(a) \/ RedoExec(a)
    BY <1>1, <2>8, UndoExecKeeps, RedoExecKeeps
  <2> QED
    BY <1>3, <2>1, <2>2, <2>3, <2>4, <2>5, <2>6, <2>7, <2>8 DEF Step
<1>4. CASE EndPass
  <2> DEFINE x == act[Current]
  <2> HIDE DEF x
  <2>1. x = act[Current]
    BY DEF x
  <2>2. CASE x.state \in {"Executing", "Waiting"}
    <3>1. Keeps
      BY <1>1, <1>4, <2>1, <2>2, PassGoesOn
    <3> QED
      BY <1>2, <3>1
  <2>3. CASE x.state \notin {"Executing", "Waiting"}
    <3>1. SerialInv'
      BY <1>1, <1>4, <2>1, <2>3, PassEmpties DEF SerialInv
    <3>2. HistoryInv => HistoryInv' /\ (Stack!Next \/ UNCHANGED <<restDoc, restPast>>)
      BY <1>1, <1>4, <2>1, <2>3, PassHistory
    <3> QED
      BY <3>1, <3>2
  <2> QED
    BY <2>2, <2>3
<1>5. RunTask \/ OpenFile \/ Emit => Keeps
  BY <1>1, RunTaskKeeps, OpenFileKeeps, EmitKeeps
<1> QED
  BY <1>2, <1>3, <1>4, <1>5 DEF Next

(* ------------------------------- theorems -------------------------------- *)

\* With one edit at a time the invariants hold in every state.
LEMMA SerialInvariance ==
  ASSUME OneEditAtATime
  PROVE  Spec => []SerialInv
<1>1. Init => SerialInv
  BY InitSerial
<1>2. SerialInv /\ [Next]_vars => SerialInv'
  BY NextSerial, StutterSerial
<1> QED
  BY <1>1, <1>2, PTL DEF Spec

\* With one edit at a time the snapshot shows, whenever nothing is going on, the values,
\* clips and assets in use: after any edits, undos and redos of any units.
THEOREM ViewsShowTheUnitsAlways ==
  ASSUME OneEditAtATime
  PROVE  Spec => []ViewsShowTheUnits
<1>1. SerialInv => ViewsShowTheUnits
  <2> SUFFICES ASSUME CoreInv, ValuesShown, AtRest
               PROVE  ViewsShowTheUnits
    BY DEF SerialInv, ViewsShowTheUnits
  <2>1. \A kind : ~Unshown(kind)
    BY DEF Unshown, AtRest
  <2>2. assetView = asset
    <3>1. \A u \in Units : assetView[u] = asset[u]
      BY <2>1 DEF ValuesShown
    <3>2. assetView \in [Units -> Assets] /\ asset \in [Units -> Assets]
      BY DEF CoreInv, DataTyped
    <3> QED
      BY <3>1, <3>2
  <2> QED
    BY <2>1, <2>2 DEF ViewsShowTheUnits, ValuesShown
<1> QED
  BY <1>1, SerialInvariance, PTL

\* With one edit at a time a unit plays the clips that it shows, in their order, until
\* a clip is removed, and the container that it plays from is not written.
THEOREM ShownClipsPlayAlways ==
  ASSUME OneEditAtATime
  PROVE  Spec => []ShownClipsPlay
<1>1. SerialInv => ShownClipsPlay
  <2> SUFFICES ASSUME ShownPlayed
               PROVE  ~torn /\ (AtRest => \A u \in Units : box[u][rtBox[u]] = shown[u])
    BY DEF SerialInv, ClipsPlayed, ShownClipsPlay
  <2> QED
    BY DEF ShownPlayed, AtRest, Unshown
<1> QED
  BY <1>1, SerialInvariance, PTL

\* With one edit at a time the edits implement the undo stack: an edit that finishes
\* puts the document it found on the stack, an undo that finishes brings back the
\* document on top, all else stutters.
THEOREM UndoRevertsAlways ==
  ASSUME OneEditAtATime, UndoIsComplete
  PROVE  Spec => UndoReverts
<1>1. Init => SerialInv /\ HistoryInv /\ Stack!Init
  BY InitSerial DEF Init, Stack!Init
<1>2. SerialInv /\ HistoryInv /\ [Next]_vars
      => SerialInv' /\ HistoryInv' /\ [Stack!Next]_<<restDoc, restPast>>
  BY NextSerial, StutterSerial
<1> QED
  BY <1>1, <1>2, PTL DEF Spec, UndoReverts, Stack!Spec
=============================================================================
