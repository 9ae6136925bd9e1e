---------------------------- MODULE BoundedFifo ----------------------------
(***************************************************************************)
(* What a ring promises its two sides: a queue of at most Room items that  *)
(* refuses an item exactly when it is full, has none exactly when it is    *)
(* empty, and gives the items out in order, each once.                     *)
(***************************************************************************)
EXTENDS Naturals, Sequences

CONSTANTS Item, NoItem, Room

VARIABLES
  queue,      \* the items put and not yet taken
  accepted,   \* the answer to the last put
  taken       \* the answer to the last take: an item, or NoItem

Init == queue = <<>> /\ accepted = TRUE /\ taken = NoItem

Put(x) ==
  /\ Len(queue) < Room
  /\ queue' = Append(queue, x) /\ accepted' = TRUE
  /\ UNCHANGED taken

Refuse == Len(queue) = Room /\ accepted' = FALSE /\ UNCHANGED <<queue, taken>>

Take ==
  /\ Len(queue) > 0
  /\ queue' = Tail(queue) /\ taken' = Head(queue)
  /\ UNCHANGED accepted

\* The head is thrown away unread, or after it was looked at.
Drop ==
  /\ Len(queue) > 0
  /\ queue' = Tail(queue)
  /\ UNCHANGED <<accepted, taken>>

\* The head is looked at and stays.
Look ==
  /\ Len(queue) > 0
  /\ taken' = Head(queue)
  /\ UNCHANGED <<queue, accepted>>

Empty == Len(queue) = 0 /\ taken' = NoItem /\ UNCHANGED <<queue, accepted>>

Next == (\E x \in Item : Put(x)) \/ Refuse \/ Take \/ Drop \/ Look \/ Empty

Spec == Init /\ [][Next]_<<queue, accepted, taken>>
=============================================================================
