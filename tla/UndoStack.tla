----------------------------- MODULE UndoStack -----------------------------
(***************************************************************************)
(* What undo promises, whatever the commands are: a document, and the      *)
(* documents that the last Limit edits replaced.  The newest of these      *)
(* comes back with an undo (UndoManager in inc/core/UndoRedo.h).  A redo   *)
(* is one more edit.                                                       *)
(***************************************************************************)
EXTENDS Naturals, Sequences, SequencesExt

CONSTANT Limit   \* edits that can be undone, at least one

VARIABLES
  doc,    \* the document
  past    \* the documents before each of the last edits, oldest first

Init == past = <<>>

\* An edit turns the document into any other.
Do == past' = Append(IF Len(past) = Limit THEN Tail(past) ELSE past, doc)

Undo ==
  /\ past # <<>>
  /\ doc' = Last(past)
  /\ past' = Front(past)

Next == Do \/ Undo

Spec == Init /\ [][Next]_<<doc, past>>
=============================================================================
