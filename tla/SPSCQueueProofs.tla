-------------------------- MODULE SPSCQueueProofs --------------------------
(***************************************************************************)
(* The ring is safe and is a first-in first-out queue, for every set of    *)
(* items and every capacity.                                               *)
(***************************************************************************)
EXTENDS SPSCQueue, SequenceTheorems, TLAPS

Cell == Item \cup {NoItem, Torn}

Types ==
  /\ head \in Slots /\ tail \in Slots
  /\ buffer \in [Slots -> Cell]
  /\ pushing \in {"idle", "room", "copy", "store"}
  /\ popping \in {"idle", "copy", "store", "peeked"}
  /\ pushing # "idle" => toPush \in Item

\* From its check on, the producer has room: the consumer can only make more.
ProducerHasRoom == pushing # "idle" => After(head) # tail

\* Before it publishes the slot, the item is in it.
SlotIsFilled == pushing = "store" => buffer[head] = toPush

\* From its check on, the consumer has an item: the producer can only add more.
ConsumerHasItem == popping # "idle" => tail # head

\* What was copied is what the slot still holds.
CopyIsExact == popping = "store" => copied = buffer[tail]

Inv == Types /\ ProducerHasRoom /\ SlotIsFilled /\ ConsumerHasItem /\ CopyIsExact

(* --------------------------- the two indices ----------------------------- *)

\* The next slot is a slot, and another one.
LEMMA AfterInSlots ==
  ASSUME NEW i \in Slots
  PROVE  After(i) \in Slots /\ After(i) # i
BY CapacityAssumption DEF Slots, After

\* The number of items between the indices and the slots they are in.
LEMMA SizeBounds ==
  ASSUME head \in Slots, tail \in Slots
  PROVE  /\ Size \in 0..(Capacity - 1)
         /\ Size = 0 <=> head = tail
         /\ Size = Capacity - 1 <=> After(head) = tail
         /\ \A i \in 0..(Capacity - 1) : /\ Slot(i) \in Slots
                                        /\ (Slot(i) = head <=> i = Size)
         /\ Slot(0) = tail
BY CapacityAssumption DEF Slots, After, Size, Slot

\* Publishing an item makes the ring one longer, at its end.
LEMMA HeadMoves ==
  ASSUME head \in Slots, tail \in Slots, After(head) # tail, head' = After(head), tail' = tail
  PROVE  /\ Size' = Size + 1
         /\ \A i \in 0..(Capacity - 1) : Slot(i)' = Slot(i)
BY CapacityAssumption DEF Slots, After, Size, Slot

\* Publishing a removal makes it one shorter, at its front.
LEMMA TailMoves ==
  ASSUME head \in Slots, tail \in Slots, head # tail, tail' = After(tail), head' = head
  PROVE  /\ Size' = Size - 1
         /\ \A i \in 0..(Capacity - 2) : Slot(i)' = Slot(i + 1)
BY CapacityAssumption DEF Slots, After, Size, Slot

(* ------------------------------ the contents ----------------------------- *)

\* The contents are a sequence as long as the distance of the indices.
ContentsAreTheSlots ==
  /\ Contents \in Seq(Cell)
  /\ Len(Contents) = Size
  /\ \A i \in 1..Size : Contents[i] = buffer[Slot(i - 1)]

\* With typed variables they are that sequence.
LEMMA ContentsIsSeq == Types => ContentsAreTheSlots
<1> SUFFICES ASSUME Types
             PROVE  ContentsAreTheSlots
  OBVIOUS
<1>1. Size \in Nat /\ Size <= Capacity - 1
  BY SizeBounds, CapacityAssumption DEF Types
<1>2. \A i \in 1..Size : i - 1 \in 0..(Capacity - 1)
  BY <1>1, CapacityAssumption
<1>3. \A i \in 1..Size : Slot(i - 1) \in Slots
  BY <1>2, SizeBounds DEF Types
<1>4. \A i \in 1..Size : buffer[Slot(i - 1)] \in Cell
  BY <1>3 DEF Types
<1>5. Contents = [i \in 1..Size |-> buffer[Slot(i - 1)]]
  BY DEF Contents
<1>6. Contents \in Seq(Cell) /\ Len(Contents) = Size
  BY <1>1, <1>4, <1>5, IsASeq
<1> QED
  BY <1>5, <1>6 DEF ContentsAreTheSlots

\* Writing to the free slot at the head changes no item of the ring.
LEMMA WriteAtHead ==
  ASSUME Types, ProducerHasRoom, pushing # "idle", NEW c \in Cell,
         buffer' = [buffer EXCEPT ![head] = c], UNCHANGED <<head, tail>>
  PROVE  Contents' = Contents
<1>1. Size' = Size /\ \A i \in Nat : Slot(i)' = Slot(i)
  BY DEF Size, Slot
<1>2. Size \in Nat /\ Size <= Capacity - 1
  BY SizeBounds, CapacityAssumption DEF Types
<1>3. ASSUME NEW i \in 1..Size PROVE buffer'[Slot(i - 1)'] = buffer[Slot(i - 1)]
  <2>1. i - 1 \in 0..(Capacity - 1) /\ i - 1 # Size /\ i - 1 \in Nat
    BY <1>2, CapacityAssumption
  <2>2. Slot(i - 1) \in Slots /\ Slot(i - 1) # head
    BY <2>1, SizeBounds DEF Types
  <2>3. Slot(i - 1)' = Slot(i - 1)
    BY <2>1 DEF Slot
  <2> QED
    BY <2>2, <2>3 DEF Types
<1> QED
  BY <1>1, <1>3, Zenon DEF Contents

(* ---------------------------- the invariant ------------------------------ *)

LEMMA InvInit == Init => Inv
BY CapacityAssumption DEF Init, Inv, Types, Cell, Slots, ProducerHasRoom, SlotIsFilled, ConsumerHasItem,
   CopyIsExact

\* The steps of the producer: it writes no slot that the consumer reads.
LEMMA ProduceInv ==
  ASSUME Inv, Produce
  PROVE  Inv'
<1> USE DEF Inv, ProducerHasRoom, SlotIsFilled, ConsumerHasItem, CopyIsExact
<1>1. CASE \E x \in Item : PushCheck(x)
  <2>1. PICK x \in Item : PushCheck(x)
    BY <1>1
  <2>2. CASE After(head) = tail
    BY <2>1, <2>2 DEF PushCheck, Types, After
  <2>3. CASE After(head) # tail
    BY <2>1, <2>3 DEF PushCheck, Types, After
  <2> QED
    BY <2>2, <2>3
<1>2. CASE PushBegin
  <2>1. buffer' \in [Slots -> Cell]
    BY <1>2 DEF PushBegin, Types, Cell
  <2>2. popping = "store" => buffer'[tail] = buffer[tail]
    BY <1>2 DEF PushBegin, Types
  <2> QED
    BY <1>2, <2>1, <2>2 DEF PushBegin, Types, After
<1>3. CASE PushEnd
  <2>1. buffer' \in [Slots -> Cell]
    BY <1>3 DEF PushEnd, Types, Cell
  <2>2. popping = "store" => buffer'[tail] = buffer[tail]
    BY <1>3 DEF PushEnd, Types
  <2>3. buffer'[head] = toPush
    BY <1>3 DEF PushEnd, Types
  <2> QED
    BY <1>3, <2>1, <2>2, <2>3 DEF PushEnd, Types, After
<1>4. CASE PushStore
  <2>1. head' \in Slots /\ head' # tail
    BY <1>4, AfterInSlots DEF PushStore, Types
  <2> QED
    BY <1>4, <2>1 DEF PushStore, Types
<1> QED
  BY <1>1, <1>2, <1>3, <1>4 DEF Produce

\* The steps of the consumer: it moves the tail only towards the head.
LEMMA ConsumeInv ==
  ASSUME Inv, Consume
  PROVE  Inv'
<1> USE DEF Inv, ProducerHasRoom, SlotIsFilled, ConsumerHasItem, CopyIsExact
<1>1. ASSUME NEW then \in {"copy", "peeked"}, Check(then)
      PROVE  Inv'
  <2>1. CASE tail = head
    BY <1>1, <2>1 DEF Check, Types, After
  <2>2. CASE tail # head
    BY <1>1, <2>2 DEF Check, Types, After
  <2> QED
    BY <2>1, <2>2
<1>2. CASE PopCopy
  BY <1>2 DEF PopCopy, Types, After
<1>3. CASE PeekRead
  BY <1>3 DEF PeekRead, Types, After
<1>4. ASSUME PopStore \/ CommitPop
      PROVE  Inv'
  <2>1. tail # head /\ tail' = After(tail) /\ UNCHANGED <<head, buffer, pushing, toPush>> /\ popping' = "idle"
    BY <1>4 DEF PopStore, CommitPop
  <2>2. tail' \in Slots
    BY <2>1, AfterInSlots DEF Types
  <2>3. After(head) # After(tail)
    BY <2>1, CapacityAssumption DEF Types, Slots, After
  <2>4. After(head)' = After(head)
    BY <2>1 DEF After
  <2> QED
    BY <2>1, <2>2, <2>3, <2>4 DEF Types
<1> QED
  BY <1>1, <1>2, <1>3, <1>4 DEF Consume, PopCheck, PeekCheck

LEMMA InvStep == Inv /\ [Next]_vars => Inv'
<1>1. ASSUME Inv, UNCHANGED vars PROVE Inv'
  BY <1>1 DEF Inv, Types, ProducerHasRoom, SlotIsFilled, ConsumerHasItem, CopyIsExact, vars, After
<1> QED
  BY <1>1, ProduceInv, ConsumeInv DEF Next

\* The strengthening holds of every behaviour of the two threads.
THEOREM InvHolds == Spec => []Inv
BY InvInit, InvStep, PTL DEF Spec

\* No slot is written while it is read (push and pop or peek of SPSCQueue.h).
THEOREM NoSlotIsSharedHolds == Spec => []NoSlotIsShared
<1>1. Inv => NoSlotIsShared
  BY DEF Inv, ConsumerHasItem, NoSlotIsShared
<1> QED
  BY <1>1, InvHolds, PTL

(* ----------------------- the ring is a bounded queue --------------------- *)

\* Two sequences as long as each other that agree at every position are the same.
LEMMA SameSequence ==
  ASSUME NEW S, NEW s \in Seq(S), NEW t \in Seq(S), Len(s) = Len(t),
         \A i \in 1..Len(s) : s[i] = t[i]
  PROVE  s = t
BY SeqEqual

\* Publishing an item appends what was copied into the slot.
LEMMA PushStoreIsPut ==
  ASSUME Inv, Inv', PushStore
  PROVE  Fifo!Put(toPush)
<1> USE DEF Inv
<1>1. /\ head \in Slots /\ tail \in Slots /\ After(head) # tail
      /\ head' = After(head) /\ tail' = tail /\ buffer' = buffer
      /\ buffer[head] = toPush /\ toPush \in Item
  BY DEF PushStore, Types, ProducerHasRoom, SlotIsFilled
<1>2. /\ Contents \in Seq(Cell) /\ Len(Contents) = Size
      /\ \A i \in 1..Size : Contents[i] = buffer[Slot(i - 1)]
  BY ContentsIsSeq DEF ContentsAreTheSlots
<1>3. /\ Contents' \in Seq(Cell) /\ Len(Contents') = Size'
      /\ \A i \in 1..Size' : Contents'[i] = buffer[Slot(i - 1)']
  <2>1. ContentsAreTheSlots'
    BY ContentsIsSeq, PTL
  <2> QED
    BY <1>1, <2>1 DEF ContentsAreTheSlots
<1>4. /\ Size \in 0..(Capacity - 1) /\ Size # Capacity - 1
      /\ \A i \in 0..(Capacity - 1) : Slot(i) = head <=> i = Size
  BY <1>1, SizeBounds
<1>5. Size' = Size + 1 /\ \A i \in 0..(Capacity - 1) : Slot(i)' = Slot(i)
  BY <1>1, HeadMoves
<1>6. /\ Append(Contents, toPush) \in Seq(Cell)
      /\ Len(Append(Contents, toPush)) = Size + 1
      /\ \A i \in 1..Size : Append(Contents, toPush)[i] = Contents[i]
      /\ Append(Contents, toPush)[Size + 1] = toPush
  BY <1>1, <1>2, AppendProperties DEF Cell
<1>7. ASSUME NEW i \in 1..(Size + 1)
      PROVE  Contents'[i] = Append(Contents, toPush)[i]
  <2>1. i - 1 \in 0..(Capacity - 1)
    BY <1>4, CapacityAssumption
  <2>2. Contents'[i] = buffer[Slot(i - 1)]
    BY <1>3, <1>5, <2>1
  <2>3. CASE i = Size + 1
    BY <1>1, <1>4, <1>6, <2>1, <2>2, <2>3
  <2>4. CASE i # Size + 1
    BY <1>2, <1>4, <1>6, <2>2, <2>4
  <2> QED
    BY <2>3, <2>4
<1>8. Contents' = Append(Contents, toPush)
  BY <1>3, <1>5, <1>6, <1>7, SameSequence
<1>9. Len(Contents) < Capacity - 1
  BY <1>2, <1>4, CapacityAssumption
<1> QED
  BY <1>8, <1>9 DEF PushStore, Fifo!Put

\* A consumer that has an item finds the oldest one in its slot.
LEMMA HeadIsInItsSlot ==
  ASSUME Inv, head # tail
  PROVE  Len(Contents) > 0 /\ Head(Contents) = buffer[tail]
<1>1. head \in Slots /\ tail \in Slots
  BY DEF Inv, Types
<1>2. /\ Contents \in Seq(Cell) /\ Len(Contents) = Size
      /\ \A i \in 1..Size : Contents[i] = buffer[Slot(i - 1)]
  BY ContentsIsSeq DEF ContentsAreTheSlots, Inv
<1>3. Size \in 0..(Capacity - 1) /\ Size # 0 /\ Slot(0) = tail
  BY <1>1, SizeBounds
<1>4. 1 \in 1..Size /\ 1 - 1 = 0
  BY <1>3, CapacityAssumption
<1>5. Contents[1] = buffer[tail]
  BY <1>2, <1>3, <1>4
<1> QED
  BY <1>2, <1>3, <1>5

\* Publishing a removal takes the oldest item off.
LEMMA TailStoreTakes ==
  ASSUME Inv, Inv', head # tail, tail' = After(tail), UNCHANGED <<head, buffer>>
  PROVE  Len(Contents) > 0 /\ Contents' = Tail(Contents) /\ Head(Contents) = buffer[tail]
<1> USE DEF Inv
<1>1. head \in Slots /\ tail \in Slots
  BY DEF Types
<1>2. /\ Contents \in Seq(Cell) /\ Len(Contents) = Size
      /\ \A i \in 1..Size : Contents[i] = buffer[Slot(i - 1)]
  BY ContentsIsSeq DEF ContentsAreTheSlots
<1>3. /\ Contents' \in Seq(Cell) /\ Len(Contents') = Size'
      /\ \A i \in 1..Size' : Contents'[i] = buffer[Slot(i - 1)']
  <2>1. ContentsAreTheSlots'
    BY ContentsIsSeq, PTL
  <2> QED
    BY <2>1 DEF ContentsAreTheSlots
<1>4. Size \in 0..(Capacity - 1) /\ Size # 0 /\ Slot(0) = tail
  BY <1>1, SizeBounds
<1>5. Size' = Size - 1 /\ \A i \in 0..(Capacity - 2) : Slot(i)' = Slot(i + 1)
  BY <1>1, TailMoves
<1>6. Len(Contents) > 0
  BY <1>2, <1>4
<1>7. /\ Tail(Contents) \in Seq(Cell)
      /\ Len(Tail(Contents)) = Size - 1
      /\ \A i \in 1..(Size - 1) : Tail(Contents)[i] = Contents[i + 1]
  BY <1>2, <1>6, HeadTailProperties
<1>8. ASSUME NEW i \in 1..(Size - 1)
      PROVE  Contents'[i] = Tail(Contents)[i]
  <2>1. i - 1 \in 0..(Capacity - 2) /\ i + 1 \in 1..Size /\ i - 1 + 1 = i + 1 - 1
    BY <1>4, CapacityAssumption
  <2>2. Contents'[i] = buffer[Slot(i - 1 + 1)]
    BY <1>3, <1>5, <2>1
  <2>3. Contents[i + 1] = buffer[Slot(i + 1 - 1)]
    BY <1>2, <2>1
  <2> QED
    BY <1>7, <2>1, <2>2, <2>3
<1>9. Contents' = Tail(Contents)
  BY <1>3, <1>5, <1>7, <1>8, SameSequence
<1> QED
  BY <1>6, <1>9, HeadIsInItsSlot

\* A step that touches neither index nor slot leaves the contents.
LEMMA ContentsUnchanged ==
  ASSUME UNCHANGED <<head, tail, buffer>>
  PROVE  Contents' = Contents
<1>1. Size' = Size /\ \A i : Slot(i)' = Slot(i)
  BY DEF Size, Slot
<1> QED
  BY <1>1 DEF Contents

\* The two threads start with an empty queue.
LEMMA FifoInit == Init => Fifo!Init
<1> SUFFICES ASSUME Init
             PROVE  Fifo!Init
  OBVIOUS
<1>1. Inv
  BY InvInit
<1>2. Size = 0
  BY <1>1, SizeBounds DEF Init, Inv, Types
<1>3. Contents \in Seq(Cell) /\ Len(Contents) = 0
  BY <1>1, <1>2, ContentsIsSeq DEF ContentsAreTheSlots, Inv
<1>4. Contents = <<>>
  BY <1>3, EmptySeq
<1> QED
  BY <1>4 DEF Init, Fifo!Init

\* Every step of the producer puts an item, is refused, or shows nothing.
LEMMA ProduceRefines ==
  ASSUME Inv, Inv', Produce
  PROVE  Fifo!Next \/ UNCHANGED <<Contents, accepted, taken>>
<1>1. CASE \E x \in Item : PushCheck(x)
  <2>1. PICK x \in Item : PushCheck(x)
    BY <1>1
  <2>2. Contents' = Contents
    BY <2>1, ContentsUnchanged DEF PushCheck
  <2>3. CASE After(head) = tail
    <3>1. Size = Capacity - 1
      BY <2>3, SizeBounds DEF Inv, Types
    <3>2. Len(Contents) = Capacity - 1
      BY <3>1, ContentsIsSeq DEF ContentsAreTheSlots, Inv
    <3> QED
      BY <2>1, <2>2, <2>3, <3>2 DEF PushCheck, Fifo!Next, Fifo!Refuse
  <2>4. CASE After(head) # tail
    BY <2>1, <2>2, <2>4 DEF PushCheck
  <2> QED
    BY <2>3, <2>4
<1>2. CASE PushBegin
  <2>1. Contents' = Contents
    BY <1>2, WriteAtHead DEF PushBegin, Inv, Cell
  <2> QED
    BY <1>2, <2>1 DEF PushBegin
<1>3. CASE PushEnd
  <2>1. toPush \in Cell
    BY <1>3 DEF PushEnd, Inv, Types, Cell
  <2>2. Contents' = Contents
    BY <1>3, <2>1, WriteAtHead DEF PushEnd, Inv
  <2> QED
    BY <1>3, <2>2 DEF PushEnd
<1>4. CASE PushStore
  <2>1. toPush \in Item
    BY <1>4 DEF PushStore, Inv, Types
  <2>2. Fifo!Put(toPush)
    BY <1>4, PushStoreIsPut
  <2> QED
    BY <2>1, <2>2 DEF Fifo!Next
<1> QED
  BY <1>1, <1>2, <1>3, <1>4 DEF Produce

\* Every step of the consumer takes, drops or looks at the oldest item, finds none, or
\* shows nothing.
LEMMA ConsumeRefines ==
  ASSUME Inv, Inv', Consume
  PROVE  Fifo!Next \/ UNCHANGED <<Contents, accepted, taken>>
<1>1. ASSUME NEW then, Check(then)
      PROVE  Fifo!Next \/ UNCHANGED <<Contents, accepted, taken>>
  <2>1. Contents' = Contents
    BY <1>1, ContentsUnchanged DEF Check
  <2>2. CASE tail = head
    <3>1. Size = 0
      BY <2>2, SizeBounds DEF Inv, Types
    <3>2. Len(Contents) = 0
      BY <3>1, ContentsIsSeq DEF ContentsAreTheSlots, Inv
    <3> QED
      BY <1>1, <2>1, <2>2, <3>2 DEF Check, Fifo!Next, Fifo!Empty
  <2>3. CASE tail # head
    BY <1>1, <2>1, <2>3 DEF Check
  <2> QED
    BY <2>2, <2>3
<1>2. CASE PopCopy
  <2>1. Contents' = Contents
    BY <1>2, ContentsUnchanged DEF PopCopy
  <2> QED
    BY <1>2, <2>1 DEF PopCopy
<1>3. CASE PopStore
  <2>1. head # tail /\ copied = buffer[tail]
    BY <1>3 DEF PopStore, Inv, ConsumerHasItem, CopyIsExact
  <2>2. Len(Contents) > 0 /\ Contents' = Tail(Contents) /\ Head(Contents) = buffer[tail]
    BY <1>3, <2>1, TailStoreTakes DEF PopStore
  <2>3. Fifo!Take
    BY <1>3, <2>1, <2>2 DEF PopStore, Fifo!Take
  <2> QED
    BY <2>3 DEF Fifo!Next
<1>4. CASE PeekRead
  <2>1. Contents' = Contents
    BY <1>4, ContentsUnchanged DEF PeekRead
  <2>2. head # tail
    BY <1>4 DEF PeekRead, Inv, ConsumerHasItem
  <2>3. Len(Contents) > 0 /\ Head(Contents) = buffer[tail]
    BY <2>2, HeadIsInItsSlot
  <2>4. Fifo!Look
    BY <1>4, <2>1, <2>3 DEF PeekRead, Fifo!Look
  <2> QED
    BY <2>4 DEF Fifo!Next
<1>5. CASE CommitPop
  <2>1. head # tail
    BY <1>5 DEF CommitPop, Inv, ConsumerHasItem
  <2>2. Len(Contents) > 0 /\ Contents' = Tail(Contents)
    BY <1>5, <2>1, TailStoreTakes DEF CommitPop
  <2>3. Fifo!Drop
    BY <1>5, <2>2 DEF CommitPop, Fifo!Drop
  <2> QED
    BY <2>3 DEF Fifo!Next
<1> QED
  BY <1>1, <1>2, <1>3, <1>4, <1>5 DEF Consume, PopCheck, PeekCheck

\* The ring of SPSCQueue.h gives the items out in the order they came, each once and
\* whole, and refuses one only when it is full, however the steps of the two interleave.
THEOREM IsFifoHolds == Spec => IsFifo
<1>1. Inv /\ Inv' /\ [Next]_vars => [Fifo!Next]_<<Contents, accepted, taken>>
  <2>1. ASSUME UNCHANGED vars
        PROVE  UNCHANGED <<Contents, accepted, taken>>
    BY <2>1, ContentsUnchanged DEF vars
  <2> QED
    BY <2>1, ProduceRefines, ConsumeRefines DEF Next
<1> QED
  BY <1>1, FifoInit, InvHolds, PTL DEF Spec, IsFifo, Fifo!Spec
=============================================================================
