----------------------------- MODULE SPSCQueue -----------------------------
(***************************************************************************)
(* The ring between two threads (inc/core/primitives/SPSCQueue.h): one     *)
(* producer that pushes, one consumer that pops, or peeks and then pops or *)
(* commits.  Each side has its index, publishes it after it touched the    *)
(* slot, and reads the index the other side published.                     *)
(*                                                                         *)
(* _head and _headAtomic are one variable: the producer alone writes both, *)
(* one after the other.  So are _tail and _tailAtomic.  A slot is written  *)
(* in two steps, Torn in between, for an item may be longer than a word.   *)
(***************************************************************************)
EXTENDS Naturals, Sequences

CONSTANTS
  Item,
  NoItem,      \* what a slot holds before its first item
  Torn,        \* and what it holds while an item is copied into it
  Capacity     \* slots; the ring holds one item less

ASSUME SlotsAssumption == NoItem \notin Item /\ Torn \notin Item /\ NoItem # Torn

ASSUME CapacityAssumption == Capacity \in Nat /\ Capacity > 1

VARIABLES
  head, tail, buffer,
  pushing,     \* where the producer is in push
  toPush,      \* the item it pushes
  popping,     \* where the consumer is in pop or peek
  copied,      \* the item it copied out of the slot
  accepted,    \* the answer to the last push
  taken        \* the answer to the last pop or peek

vars == <<head, tail, buffer, pushing, toPush, popping, copied, accepted, taken>>

Slots == 0..(Capacity - 1)

\* (i + 1) & mask
After(i) == IF i = Capacity - 1 THEN 0 ELSE i + 1

Init ==
  /\ head = 0 /\ tail = 0
  /\ buffer = [i \in Slots |-> NoItem]
  /\ pushing = "idle" /\ toPush = NoItem
  /\ popping = "idle" /\ copied = NoItem
  /\ accepted = TRUE /\ taken = NoItem

(* -------------------------------- the producer --------------------------- *)

PushCheck(x) ==
  /\ pushing = "idle"
  /\ IF After(head) = tail
     THEN accepted' = FALSE /\ UNCHANGED <<pushing, toPush>>
     ELSE pushing' = "room" /\ toPush' = x /\ UNCHANGED accepted
  /\ UNCHANGED <<head, tail, buffer, popping, copied, taken>>

PushBegin ==
  /\ pushing = "room"
  /\ pushing' = "copy"
  /\ buffer' = [buffer EXCEPT ![head] = Torn]
  /\ UNCHANGED <<head, tail, toPush, popping, copied, accepted, taken>>

PushEnd ==
  /\ pushing = "copy"
  /\ pushing' = "store"
  /\ buffer' = [buffer EXCEPT ![head] = toPush]
  /\ UNCHANGED <<head, tail, toPush, popping, copied, accepted, taken>>

PushStore ==
  /\ pushing = "store"
  /\ pushing' = "idle"
  /\ head' = After(head)
  /\ accepted' = TRUE
  /\ UNCHANGED <<tail, buffer, toPush, popping, copied, taken>>

(* -------------------------------- the consumer --------------------------- *)

\* The check of pop, which goes on to copy, and of peek, which returns a pointer.
\* A consumer that has peeked may call either again.
Check(then) ==
  /\ popping \in {"idle", "peeked"}
  /\ IF tail = head
     THEN popping' = "idle" /\ taken' = NoItem
     ELSE popping' = then /\ UNCHANGED taken
  /\ UNCHANGED <<head, tail, buffer, pushing, toPush, copied, accepted>>

PopCheck == Check("copy")

PeekCheck == Check("peeked")

\* Mutant: the index is advanced before the slot is read.
MutPopCopy ==
  /\ popping = "copy"
  /\ popping' = "store"
  /\ copied' = buffer[After(tail)]
  /\ UNCHANGED <<head, tail, buffer, pushing, toPush, accepted, taken>>

PopCopy ==
  /\ popping = "copy"
  /\ popping' = "store"
  /\ copied' = buffer[tail]
  /\ UNCHANGED <<head, tail, buffer, pushing, toPush, accepted, taken>>

PopStore ==
  /\ popping = "store"
  /\ popping' = "idle"
  /\ tail' = After(tail)
  /\ taken' = copied
  /\ UNCHANGED <<head, buffer, pushing, toPush, copied, accepted>>

\* The item is read through the pointer that peek gave, as often as one likes.
PeekRead ==
  /\ popping = "peeked"
  /\ taken' = buffer[tail]
  /\ UNCHANGED <<head, tail, buffer, pushing, toPush, popping, copied, accepted>>

CommitPop ==
  /\ popping = "peeked"
  /\ popping' = "idle"
  /\ tail' = After(tail)
  /\ UNCHANGED <<head, buffer, pushing, toPush, copied, accepted, taken>>

Produce == (\E x \in Item : PushCheck(x)) \/ PushBegin \/ PushEnd \/ PushStore

Consume == PopCheck \/ PeekCheck \/ PopCopy \/ PopStore \/ PeekRead \/ CommitPop

Next == Produce \/ Consume

Spec == Init /\ [][Next]_vars

(* ------------------------------- properties ------------------------------ *)

\* No slot is written while it is read: the slot a push fills is never the one a pop
\* copies or a peeked pointer points to, also when the ring is full but for one item,
\* or wraps.
NoSlotIsShared ==
  pushing \in {"room", "copy", "store"} /\ popping \in {"copy", "store", "peeked"} => head # tail

\* The items between the indices, oldest first.
Size == IF head >= tail THEN head - tail ELSE head + Capacity - tail

Slot(i) == IF tail + i < Capacity THEN tail + i ELSE tail + i - Capacity

Contents == [i \in 1..Size |-> buffer[Slot(i - 1)]]

Fifo == INSTANCE BoundedFifo WITH queue <- Contents, Room <- Capacity - 1

\* The ring is a first-in first-out queue: nothing is lost, doubled, torn or
\* reordered, and push refuses only when Capacity - 1 items wait.
IsFifo == Fifo!Spec
=============================================================================
