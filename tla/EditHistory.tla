---------------------------- MODULE EditHistory ----------------------------
(***************************************************************************)
(* The control engine as an undo stack.  History variables observe the     *)
(* project each time the action list runs empty; seen so, one undoable     *)
(* edit at a time, the engine implements UndoStack.                        *)
(***************************************************************************)
EXTENDS ControlEngine

VARIABLES
  before,    \* per action, the document its last forward execution found
  restDoc,   \* the document when the engine last had nothing to do
  restPast   \* and the documents its undo list would bring back

historyVars == <<before, restDoc, restPast>>

\* The units by ID: the redo of a creation constructs a new object.
Document == [ids |-> Ids(units), routes |-> routes]

StartsForward(a) ==
  act[a].kind \in Undoables /\ Runs(a, act[a].kind, "Forward", 1)

HistoryInit ==
  /\ Init
  /\ before = [a \in ActionIds |-> Document]
  /\ restDoc = Document
  /\ restPast = <<>>

Observe ==
  /\ before' = [a \in ActionIds |-> IF StartsForward(a) THEN Document ELSE before[a]]
  /\ IF actions' = <<>>
     THEN /\ restDoc' = Document'
          /\ restPast' = [i \in DOMAIN undoList' |-> before'[undoList'[i]]]
     ELSE UNCHANGED <<restDoc, restPast>>

HistoryNext == Next /\ Observe

HistorySpec ==
  /\ HistoryInit
  /\ [][HistoryNext]_<<vars, historyVars>>
  /\ WF_<<vars, historyVars>>(ControlStep /\ Observe)
  /\ WF_<<vars, historyVars>>(RtStep /\ Observe)

\* The setting in which the engine is an undo stack: the next edit comes when the
\* action list is empty, the ring has room for one task, every route asks for a new
\* plan, the loaded routes end in loaded units, no route leads from a unit to itself
\* (a deletion would save it twice), and nothing is redone (a deletion would save its
\* routes once more).
OneEditAtATime ==
  /\ MaxInFlight <= 1
  /\ QueueCapacity > 0
  /\ "Redo" \notin Edits
  /\ FALSE \notin SwapPlans
  /\ \A r \in InitialRoutes : Endpoints(r) \subseteq 1..InitialUnits
  /\ \A r \in Routes : r.source = r.target => r.source = EXT

Stack == INSTANCE UndoStack WITH doc <- restDoc, past <- restPast, Limit <- UndoLimit

\* Each finished edit can be undone, newest first, up to the length of the undo
\* list, and undoing it restores the units and the routes exactly as it found them.
UndoRestores == Stack!Spec
=============================================================================
