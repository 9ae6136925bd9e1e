------------------------- MODULE AudioRecordProofs -------------------------
(***************************************************************************)
(* The properties of AudioRecord for every block and buffer size and every *)
(* latency that a buffer outlasts by a block.                              *)
(*                                                                         *)
(* The buffer in use has what came in up to now, the old buffer lacks the  *)
(* hardware sound that has not come in yet, and it is gone before the next *)
(* buffer is full.                                                         *)
(***************************************************************************)
EXTENDS AudioRecord, TLAPS

\* What one signal leaves in a buffer: n frames, the first at time d.
Run(signal, d, n) == {<<p, signal, d + p>> : p \in 0..(n - 1)}

\* What sumAudioBuffers adds: n frames from position w on, the first from the given time.
Piece(signal, time, w, n) == {<<w + i, signal, time + i>> : i \in 0..(n - 1)}

Contents(late, first, n, m) ==
  Run("internal", first, n) \cup Run("external", first + late, m)

BufferSet == [first : Nat, added : SUBSET (Int \X Signals \X Int)]

Types ==
  /\ latency \in Latencies
  /\ inUse \in BufferSet
  /\ fill \in Nat
  /\ old = <<>> \/ \E o \in BufferSet : old = <<o>>
  /\ waited \in Nat
  /\ dumped \in Seq(BufferSet)
  /\ last \in Seq(BufferSet)
  /\ count \in Nat

\* The buffer is filled block by block and never to the end.
Fills == \E k \in 0..(BufferBlocks - 1) : fill = k * Frames

\* When the next buffer to be dumped began.
Following == IF Len(dumped) = 0 THEN 0 ELSE dumped[Len(dumped)].first + Size

InUseInv ==
  /\ inUse.added = Contents(latency, inUse.first, fill, IF Position < 0 THEN 0 ELSE Position)
  /\ inUse.first = Following + (IF old = <<>> THEN 0 ELSE Size)

OldInv ==
  IF old = <<>>
  THEN waited = 0
  ELSE /\ waited = fill
       /\ fill = 0 \/ fill < latency
       /\ old[1].first = Following
       /\ old[1].added = Contents(latency, Following, Size, Size + Position)

DumpedInv ==
  \A i \in DOMAIN dumped :
    /\ dumped[i].added = Contents(latency, dumped[i].first, Size, Size)
    /\ dumped[i].first = IF i = 1 THEN 0 ELSE dumped[i - 1].first + Size

LastInv == IF stage = "final" THEN last = <<inUse>> ELSE last = <<>>

\* Every block that was recorded counts.
TimeInv == Now = count * Frames

Inv == Types /\ Fills /\ InUseInv /\ OldInv /\ DumpedInv /\ LastInv /\ TimeInv

(* ------------------------------ arithmetic ------------------------------- *)

\* A whole number of blocks below the size of a buffer leaves room for a block.
LEMMA WholeBlocks ==
  ASSUME NEW k \in 0..(BufferBlocks - 1)
  PROVE  /\ k * Frames \in Nat
         /\ k * Frames + Frames = (k + 1) * Frames
         /\ k * Frames + Frames <= Size
         /\ k * Frames + Frames < Size => k + 1 \in 0..(BufferBlocks - 1)
<1>1. Frames \in Nat \ {0} /\ BufferBlocks \in Nat \ {0, 1} /\ k \in Nat
  BY SizeAssumption
<1>2. k * Frames \in Nat /\ k * Frames + Frames = (k + 1) * Frames
  BY <1>1
<1>3. PICK d \in Nat : BufferBlocks = (k + 1) + d
  <2>1. BufferBlocks - (k + 1) \in Nat
    BY <1>1
  <2> QED BY <2>1, <1>1
<1>4. Size = (k + 1) * Frames + d * Frames
  BY <1>1, <1>3 DEF Size
<1>5. d * Frames \in Nat /\ (d = 0 => d * Frames = 0)
  BY <1>1, <1>3
<1>6. d # 0 => k + 1 \in 0..(BufferBlocks - 1)
  BY <1>1, <1>3
<1> QED BY <1>1, <1>2, <1>4, <1>5, <1>6

\* A buffer has room for two blocks, and the latency leaves room for one.
LEMMA Sizes ==
  /\ Frames \in Nat /\ Frames > 0
  /\ Size \in Nat /\ 2 * Frames <= Size
  /\ \A l \in Latencies : l \in Nat /\ l + Frames <= Size
<1>1. Frames \in Nat \ {0} /\ BufferBlocks \in Nat \ {0, 1} /\ Latencies \subseteq 0..(Size - Frames)
  BY SizeAssumption
<1>2. 1 \in 0..(BufferBlocks - 1)
  BY <1>1
<1>3. 1 * Frames + Frames <= Size
  BY <1>2, WholeBlocks
<1>4. Size \in Nat
  BY <1>1 DEF Size
<1> QED BY <1>1, <1>3, <1>4

(* ------------------------- what a buffer holds --------------------------- *)

\* A piece of k frames follows a run of n and makes a run of m.
Follows(d, n, k, time, m) ==
  d \in Int /\ n \in Nat /\ k \in Nat /\ time = d + n /\ m = n + k

\* Frames added right after a run lengthen it.
LEMMA RunGrows ==
  ASSUME NEW signal, NEW d, NEW n, NEW k, NEW time, NEW m, Follows(d, n, k, time, m)
  PROVE  Run(signal, d, n) \cup Piece(signal, time, n, k) = Run(signal, d, m)
<1> USE DEF Follows
<1>1. Run(signal, d, n) \subseteq Run(signal, d, m)
  BY DEF Run
<1>2. ASSUME NEW x \in Piece(signal, time, n, k)
      PROVE  x \in Run(signal, d, m)
  <2>1. PICK i \in 0..(k - 1) : x = <<n + i, signal, d + n + i>>
    BY DEF Piece
  <2>2. n + i \in 0..(n + k - 1) /\ d + (n + i) = d + n + i
    OBVIOUS
  <2> QED BY <2>1, <2>2 DEF Run
<1>3. ASSUME NEW x \in Run(signal, d, m)
      PROVE  x \in Run(signal, d, n) \cup Piece(signal, time, n, k)
  <2>1. PICK p \in 0..(n + k - 1) : x = <<p, signal, d + p>>
    BY DEF Run
  <2>2. CASE p < n
    BY <2>1, <2>2 DEF Run
  <2>3. CASE p >= n
    <3>1. p - n \in 0..(k - 1) /\ n + (p - n) = p /\ d + n + (p - n) = d + p
      BY <2>3
    <3>2. <<n + (p - n), signal, d + n + (p - n)>> \in Piece(signal, time, n, k)
      BY <3>1 DEF Piece
    <3> QED BY <2>1, <3>1, <3>2
  <2> QED BY <2>2, <2>3
<1> QED BY <1>1, <1>2, <1>3

\* Contents is what Holds asks for.
LEMMA ContentsIsHolds ==
  ASSUME NEW b, b.first \in Int, latency \in Int, NEW n \in Nat, NEW m \in Nat,
         b.added = Contents(latency, b.first, n, m)
  PROVE  Holds(b, n, m)
<1>1. {<<p, "external", b.first + p + latency>> : p \in 0..(m - 1)}
        = Run("external", b.first + latency, m)
  <2>1. \A p \in 0..(m - 1) : b.first + p + latency = b.first + latency + p
    OBVIOUS
  <2> QED BY <2>1 DEF Run
<1> QED BY <1>1 DEF Holds, Contents, Run

\* sumAudioBuffers adds a piece and leaves the beginning of the buffer.
LEMMA AddFrames ==
  ASSUME NEW b \in BufferSet, NEW signal \in Signals, NEW r \in Int, NEW w \in Int, NEW n \in Nat,
         Now \in Int
  PROVE  /\ Add(b, signal, r, w, n) \in BufferSet
         /\ Add(b, signal, r, w, n).first = b.first
         /\ Add(b, signal, r, w, n).added = b.added \cup Piece(signal, Now + r, w, n)
<1>1. Piece(signal, Now + r, w, n) \subseteq Int \X Signals \X Int
  BY DEF Piece
<1>2. Add(b, signal, r, w, n) = [b EXCEPT !.added = @ \cup Piece(signal, Now + r, w, n)]
  BY DEF Add, Piece
<1>3. b.first \in Nat /\ b.added \subseteq Int \X Signals \X Int
  BY DEF BufferSet
<1>4. Add(b, signal, r, w, n) =
       [first |-> b.first, added |-> b.added \cup Piece(signal, Now + r, w, n)]
  BY <1>2 DEF BufferSet
<1> QED BY <1>1, <1>3, <1>4 DEF BufferSet

(* ------------------------------- one block ------------------------------- *)

\* The facts about numbers that the rest needs.
LEMMA Numbers ==
  ASSUME Types
  PROVE  /\ Frames \in Nat /\ Frames > 0 /\ Size \in Nat /\ 2 * Frames <= Size
         /\ latency \in Nat /\ latency + Frames <= Size
         /\ fill \in Nat /\ inUse.first \in Nat /\ inUse \in BufferSet
         /\ Now \in Nat /\ Position \in Int
<1>1. inUse.first \in Nat
  BY DEF Types, BufferSet
<1> QED BY <1>1, Sizes DEF Types, Now, Position

\* The buffer in use has both signals up to the end of the block.
LEMMA WrittenNewIs ==
  ASSUME Types,
         inUse.added = Contents(latency, inUse.first, fill, IF Position < 0 THEN 0 ELSE Position)
  PROVE  /\ WrittenNew \in BufferSet
         /\ WrittenNew.first = inUse.first
         /\ WrittenNew.added = Contents(latency, inUse.first, fill + Frames,
                                       IF Position + Frames < 0 THEN 0 ELSE Position + Frames)
<1> DEFINE inner == Add(inUse, "internal", 0, fill, Frames)
           at == IF Position < 0 THEN 0 ELSE Position
           first == inUse.first
<1>1. /\ inner \in BufferSet
      /\ inner.first = first
      /\ inner.added = inUse.added \cup Piece("internal", Now + 0, fill, Frames)
  BY Numbers, AddFrames DEF Signals
<1>2. IntoOld \in Int /\ IntoNew \in Nat /\ at \in Nat
  BY Numbers DEF IntoOld, IntoNew
<1>3. /\ WrittenNew \in BufferSet
      /\ WrittenNew.first = first
      /\ WrittenNew.added = inner.added \cup Piece("external", Now + IntoOld, at, IntoNew)
  <2>1. WrittenNew = Add(inner, "external", IntoOld, at, IntoNew)
    BY DEF WrittenNew
  <2> HIDE DEF inner, at
  <2> QED BY <1>1, <1>2, <2>1, Numbers, AddFrames DEF Signals
<1>4. Run("internal", first, fill) \cup Piece("internal", Now + 0, fill, Frames)
        = Run("internal", first, fill + Frames)
  <2>1. Now + 0 = first + fill
    BY Numbers DEF Now
  <2>2. Follows(first, fill, Frames, Now + 0, fill + Frames)
    BY <2>1, Numbers DEF Follows
  <2> HIDE DEF first
  <2> QED BY <2>2, RunGrows
<1>5. Run("external", first + latency, at) \cup Piece("external", Now + IntoOld, at, IntoNew)
        = Run("external", first + latency, at + IntoNew)
  <2>1. CASE IntoNew = 0
    <3>1. Piece("external", Now + IntoOld, at, IntoNew) = {} /\ at + IntoNew = at
      BY <2>1, <1>2 DEF Piece
    <3> QED BY <3>1
  <2>2. CASE IntoNew # 0
    <3>1. Now + IntoOld = first + latency + at
      BY <2>2, Numbers DEF Now, Position, IntoOld, IntoNew
    <3>2. Follows(first + latency, at, IntoNew, Now + IntoOld, at + IntoNew)
      BY <3>1, <1>2, Numbers DEF Follows
    <3> QED BY <3>2, RunGrows
  <2> QED BY <2>1, <2>2
<1>6. at + IntoNew = IF Position + Frames < 0 THEN 0 ELSE Position + Frames
  BY Numbers DEF IntoOld, IntoNew
<1>7. inUse.added = Run("internal", first, fill) \cup Run("external", first + latency, at)
  BY DEF Contents
<1> HIDE DEF inner, at, first
<1>8. WrittenNew.added = Run("internal", first, fill + Frames) \cup
                         Run("external", first + latency, at + IntoNew)
  BY <1>1, <1>3, <1>4, <1>5, <1>7
<1> QED BY <1>3, <1>6, <1>8 DEF Contents, first

\* The old buffer has the hardware sound up to its end when the latency has passed.
LEMMA WrittenOldIs ==
  ASSUME Types, InUseInv, OldInv, old # <<>>
  PROVE  \E o \in BufferSet :
           /\ WrittenOld = <<o>>
           /\ o.first = Following
           /\ o.added = Contents(latency, Following, Size,
                                IF Position + Frames < 0 THEN Size + Position + Frames ELSE Size)
<1> DEFINE o == old[1]
           new == Add(o, "external", 0, Size + Position, IntoOld)
           first == Following
           all == IF Position + Frames < 0 THEN Size + Position + Frames ELSE Size
<1>1. o \in BufferSet
  BY DEF Types
<1>2. o.first = first /\ o.added = Contents(latency, first, Size, Size + Position)
  BY DEF OldInv
<1>3. inUse.first = first + Size /\ first \in Nat
  BY <1>1, <1>2 DEF InUseInv, BufferSet
<1>4. IntoOld \in Nat /\ Size + Position \in Nat /\ Size + Position + IntoOld = all
  <2>1. fill = 0 \/ fill < latency
    BY DEF OldInv
  <2> QED BY <2>1, Numbers DEF IntoOld, Position
<1>5. /\ new \in BufferSet
      /\ new.first = first
      /\ new.added = o.added \cup Piece("external", Now + 0, Size + Position, IntoOld)
  <2>1. "external" \in Signals /\ Now \in Int
    BY Numbers DEF Signals
  <2> HIDE DEF o, first
  <2> QED BY <1>1, <1>2, <1>4, <2>1, AddFrames
<1>6. Run("external", first + latency, Size + Position) \cup
        Piece("external", Now + 0, Size + Position, IntoOld)
        = Run("external", first + latency, all)
  <2>1. Now + 0 = first + latency + (Size + Position)
    BY <1>3, Numbers DEF Now, Position
  <2>2. Follows(first + latency, Size + Position, IntoOld, Now + 0, all)
    <3> HIDE DEF first, all
    <3> QED BY <2>1, <1>3, <1>4, Numbers DEF Follows
  <2> QED BY <2>2, RunGrows
<1>7. new.added = Contents(latency, first, Size, all)
  <2> HIDE DEF new, first, all, o
  <2> QED BY <1>2, <1>5, <1>6 DEF Contents
<1>8. WrittenOld = <<new>>
  BY DEF WrittenOld
<1> HIDE DEF new, first, all
<1> QED BY <1>5, <1>7, <1>8 DEF first, all

LEMMA FollowingIsNat ==
  ASSUME Types
  PROVE  Following \in Nat
<1>1. dumped \in Seq(BufferSet)
  BY DEF Types
<1>2. CASE Len(dumped) = 0
  BY <1>2 DEF Following
<1>3. CASE Len(dumped) # 0
  <2>1. dumped[Len(dumped)] \in BufferSet
    BY <1>1, <1>3
  <2>2. dumped[Len(dumped)].first \in Nat
    BY <2>1 DEF BufferSet
  <2> QED BY <1>3, <2>2, Sizes DEF Following
<1> QED BY <1>2, <1>3

\* The old buffer is gone before the next one is full.
LEMMA OldIsGone ==
  ASSUME Types, OldInv, Full
  PROVE  old = <<>>
<1>1. old # <<>> => fill = 0 \/ fill < latency
  BY DEF OldInv
<1> QED BY <1>1, Numbers DEF Full

\* A block keeps the types.
LEMMA BlockTypes ==
  ASSUME Types, InUseInv, OldInv, Block
  PROVE  Types'
<1>1. WrittenNew \in BufferSet
  BY WrittenNewIs DEF InUseInv
<1>2. WrittenOld = <<>> \/ \E o \in BufferSet : WrittenOld = <<o>>
  <2>1. CASE old = <<>>
    BY <2>1 DEF WrittenOld
  <2>2. CASE old # <<>>
    BY <2>2, WrittenOldIs
  <2> QED BY <2>1, <2>2
<1> DEFINE oldest == IF Full THEN <<WrittenNew>> ELSE WrittenOld
<1>3. oldest = <<>> \/ \E o \in BufferSet : oldest = <<o>>
  BY <1>1, <1>2
<1>4. oldest \in Seq(BufferSet)
  <2> HIDE DEF oldest
  <2>1. \A o \in BufferSet : <<o>> \in Seq(BufferSet)
    OBVIOUS
  <2>2. <<>> \in Seq(BufferSet)
    OBVIOUS
  <2> QED BY <1>3, <2>1, <2>2
<1>5. /\ old' = IF Complete THEN <<>> ELSE oldest
      /\ dumped' = IF Complete THEN dumped \o oldest ELSE dumped
      /\ waited' = IF Complete THEN 0 ELSE Waited
      /\ inUse' = IF Full THEN NextBuffer ELSE WrittenNew
      /\ fill' = IF Full THEN 0 ELSE fill + Frames
      /\ latency' = latency /\ last' = last /\ count' = count + 1
  BY DEF Block
<1> HIDE DEF oldest
<1>6. old' = <<>> \/ \E o \in BufferSet : old' = <<o>>
  BY <1>3, <1>5
<1>7. dumped' \in Seq(BufferSet)
  BY <1>4, <1>5 DEF Types
<1>8. waited' \in Nat /\ fill' \in Nat
  BY <1>5, Numbers DEF Waited, Types
<1>9. inUse' \in BufferSet
  BY <1>1, <1>5, Numbers DEF NextBuffer, Empty, BufferSet
<1> QED BY <1>5, <1>6, <1>7, <1>8, <1>9 DEF Types

\* A block keeps the number of frames a whole number of blocks.
LEMMA BlockFills ==
  ASSUME Types, Fills, Block
  PROVE  /\ Fills'
         /\ Full => fill + Frames = Size
<1>1. PICK k \in 0..(BufferBlocks - 1) : fill = k * Frames
  BY DEF Fills
<1>2. /\ fill + Frames = (k + 1) * Frames
      /\ fill + Frames <= Size
      /\ fill + Frames < Size => k + 1 \in 0..(BufferBlocks - 1)
  BY <1>1, WholeBlocks
<1>3. fill' = IF Full THEN 0 ELSE fill + Frames
  BY DEF Block
<1>4. 0 \in 0..(BufferBlocks - 1) /\ 0 * Frames = 0
  BY SizeAssumption
<1>5. Full <=> fill + Frames >= Size
  BY DEF Full
<1> HIDE DEF Full
<1>6. Full => fill + Frames = Size
  BY <1>2, <1>5, Numbers
<1>7. CASE Full
  BY <1>3, <1>4, <1>6, <1>7 DEF Fills
<1>8. CASE ~Full
  <2>1. fill + Frames < Size
    BY <1>5, <1>8, Numbers
  <2>2. k + 1 \in 0..(BufferBlocks - 1) /\ fill' = (k + 1) * Frames
    BY <1>2, <1>3, <1>8, <2>1
  <2> QED BY <1>8, <2>2 DEF Fills
<1> QED BY <1>7, <1>8

\* A block takes time forward by its frames, whether it fills the buffer or not.
LEMMA BlockTime ==
  ASSUME Types, InUseInv, TimeInv, Block
  PROVE  TimeInv'
<1>1. (count + 1) * Frames = count * Frames + Frames
  BY Sizes DEF Types
<1>2. WrittenNew.first = inUse.first
  BY WrittenNewIs DEF InUseInv
<1>3. NextBuffer.first = Now + Frames
  BY DEF NextBuffer, Empty
<1>4. /\ inUse' = IF Full THEN NextBuffer ELSE WrittenNew
      /\ fill' = IF Full THEN 0 ELSE fill + Frames
      /\ count' = count + 1
  BY DEF Block
<1> HIDE DEF Full
<1>5. inUse'.first + fill' = Now + Frames
  BY <1>2, <1>3, <1>4, Numbers DEF Now
<1>6. Now' = inUse'.first + fill'
  BY DEF Now
<1>7. count' * Frames = Now + Frames
  BY <1>1, <1>4 DEF TimeInv
<1> QED BY <1>5, <1>6, <1>7, Sizes DEF TimeInv

\* The block that fills the buffer makes it the old one.
LEMMA FullBlock ==
  ASSUME Inv, Block, Full
  PROVE  InUseInv' /\ OldInv' /\ DumpedInv'
<1>1. Types /\ InUseInv /\ OldInv /\ DumpedInv
  BY DEF Inv
<1>2. old = <<>> /\ waited = 0
  BY <1>1, OldIsGone DEF OldInv
<1>3. ~Complete /\ Waited = 0
  BY <1>2 DEF Complete, Waited
<1>4. /\ old' = <<WrittenNew>> /\ dumped' = dumped /\ waited' = 0
      /\ inUse' = NextBuffer /\ fill' = 0 /\ latency' = latency
  BY <1>3 DEF Block
<1>5. fill + Frames = Size
  BY <1>1, BlockFills DEF Inv
<1>6. /\ WrittenNew.first = inUse.first
      /\ WrittenNew.added = Contents(latency, inUse.first, fill + Frames,
                                    IF Position + Frames < 0 THEN 0 ELSE Position + Frames)
  BY <1>1, WrittenNewIs DEF InUseInv
<1>7. Position + Frames = Size - latency /\ Size - latency >= 0
  BY <1>1, <1>5, Numbers DEF Position
<1>8. WrittenNew.added = Contents(latency, inUse.first, Size, Size - latency)
  BY <1>5, <1>6, <1>7, Numbers, <1>1
<1>9. inUse.first = Following /\ Following \in Nat /\ Following' = Following
  <2>1. Following' = Following
    BY <1>4 DEF Following
  <2>2. inUse.first = Following + 0
    BY <1>1, <1>2 DEF InUseInv
  <2>3. Following \in Int
    BY <1>1, FollowingIsNat
  <2> QED BY <2>1, <2>2, <2>3, Numbers, <1>1
<1>10. Position' = -latency /\ Size + (-latency) = Size - latency
  BY <1>1, <1>4, Numbers DEF Position
<1>11. OldInv'
  <2>1. old' # <<>> /\ old'[1] = WrittenNew
    BY <1>4
  <2>2. (Size + Position)' = Size - latency
    BY <1>10 DEF Size
  <2>3. old'[1].added = Contents(latency', Following', Size, (Size + Position)')
    BY <1>4, <1>8, <1>9, <2>1, <2>2
  <2>4. old'[1].first = Following'
    BY <1>6, <1>9, <2>1
  <2> QED BY <1>4, <2>1, <2>3, <2>4 DEF OldInv, Size
<1>12. InUseInv'
  <2>1. inUse'.first = Following' + Size /\ inUse'.added = {}
    BY <1>1, <1>4, <1>5, <1>9, Numbers DEF NextBuffer, Empty, Now
  <2>2. (IF Position < 0 THEN 0 ELSE Position)' = 0
    BY <1>1, <1>10, Numbers
  <2>3. Contents(latency', inUse'.first, 0, 0) = {}
    BY DEF Contents, Run
  <2>4. old' # <<>>
    BY <1>4
  <2> QED BY <1>4, <2>1, <2>2, <2>3, <2>4 DEF InUseInv, Size
<1>13. DumpedInv'
  BY <1>1, <1>4 DEF DumpedInv, Contents, Size
<1> QED BY <1>11, <1>12, <1>13

\* Any other block continues the buffer in use, and the old one if there is one.
LEMMA NotFullBlock ==
  ASSUME Inv, Block, ~Full
  PROVE  InUseInv' /\ OldInv' /\ DumpedInv'
<1>1. Types /\ InUseInv /\ OldInv /\ DumpedInv
  BY DEF Inv
<1>2. /\ old' = IF Complete THEN <<>> ELSE WrittenOld
      /\ dumped' = IF Complete THEN dumped \o WrittenOld ELSE dumped
      /\ waited' = IF Complete THEN 0 ELSE Waited
      /\ inUse' = WrittenNew /\ fill' = fill + Frames /\ latency' = latency
  BY DEF Block
<1>3. /\ inUse'.first = inUse.first
      /\ inUse'.added = Contents(latency', inUse'.first, fill',
                                (IF Position < 0 THEN 0 ELSE Position)')
  <2>1. Position' = Position + Frames
    BY <1>1, <1>2, Numbers DEF Position
  <2> QED BY <1>1, <1>2, <2>1, WrittenNewIs DEF InUseInv
<1>4. Following \in Nat
  BY <1>1, FollowingIsNat
<1>5. CASE old = <<>>
  <2>1. ~Complete /\ WrittenOld = <<>> /\ Waited = 0
    BY <1>1, <1>5 DEF Complete, WrittenOld, Waited, OldInv
  <2>2. old' = <<>> /\ dumped' = dumped /\ waited' = 0
    BY <1>2, <2>1
  <2>3. Following' = Following
    BY <2>2 DEF Following
  <2>4. InUseInv'
    BY <1>1, <1>3, <1>5, <2>2, <2>3 DEF InUseInv
  <2>5. OldInv'
    BY <2>2 DEF OldInv
  <2>6. DumpedInv'
    BY <1>1, <1>2, <2>2 DEF DumpedInv, Size
  <2> QED BY <2>4, <2>5, <2>6
<1>6. CASE old # <<>> /\ ~Complete
  <2>1. PICK o \in BufferSet :
          /\ WrittenOld = <<o>>
          /\ o.first = Following
          /\ o.added = Contents(latency, Following, Size,
                               IF Position + Frames < 0 THEN Size + Position + Frames ELSE Size)
    BY <1>1, <1>6, WrittenOldIs
  <2>2. waited = fill /\ Waited = fill + Frames
    BY <1>1, <1>6 DEF Waited, OldInv
  <2>3. fill + Frames < latency
    BY <1>1, <1>6, <2>2, Numbers DEF Complete
  <2>4. old' = <<o>> /\ dumped' = dumped /\ waited' = fill'
    BY <1>2, <1>6, <2>1, <2>2
  <2>5. Following' = Following
    BY <2>4 DEF Following
  <2>6. /\ Position + Frames < 0
        /\ (Size + Position)' = Size + Position + Frames
    BY <1>1, <1>2, <2>3, Numbers DEF Position, Size
  <2>7. InUseInv'
    <3>1. old' # <<>> /\ inUse.first = Following + Size
      BY <1>1, <1>6, <2>4 DEF InUseInv
    <3> QED BY <1>3, <2>5, <3>1 DEF InUseInv, Size
  <2>8. OldInv'
    <3>1. old' # <<>> /\ old'[1] = o
      BY <2>4
    <3>2. o.added = Contents(latency', Following', Size, (Size + Position)')
      BY <1>2, <2>1, <2>5, <2>6
    <3>3. fill' < latency'
      BY <1>2, <2>3
    <3> QED BY <2>1, <2>4, <2>5, <3>1, <3>2, <3>3 DEF OldInv, Size
  <2>9. DumpedInv'
    BY <1>1, <1>2, <2>4 DEF DumpedInv, Size
  <2> QED BY <2>7, <2>8, <2>9
<1>7. CASE Complete
  <2>1. old # <<>>
    BY <1>7 DEF Complete
  <2>2. PICK o \in BufferSet :
          /\ WrittenOld = <<o>>
          /\ o.first = Following
          /\ o.added = Contents(latency, Following, Size,
                               IF Position + Frames < 0 THEN Size + Position + Frames ELSE Size)
    BY <1>1, <2>1, WrittenOldIs
  <2>3. Position + Frames >= 0
    <3>1. waited = fill /\ Waited = fill + Frames /\ Waited >= latency
      BY <1>1, <1>7, <2>1 DEF Waited, OldInv, Complete
    <3> QED BY <1>1, <3>1, Numbers DEF Position
  <2>4. o.added = Contents(latency, o.first, Size, Size)
    BY <1>1, <2>2, <2>3, Numbers
  <2>5. old' = <<>> /\ dumped' = Append(dumped, o) /\ waited' = 0
    <3>1. dumped \o <<o>> = Append(dumped, o)
      BY <1>1 DEF Types
    <3> QED BY <1>2, <1>7, <2>2, <3>1
  <2>6. /\ Len(dumped') = Len(dumped) + 1 /\ Len(dumped) \in Nat
        /\ dumped'[Len(dumped) + 1] = o
        /\ \A i \in 1..Len(dumped) : dumped'[i] = dumped[i]
        /\ DOMAIN dumped = 1..Len(dumped) /\ DOMAIN dumped' = 1..(Len(dumped) + 1)
    BY <1>1, <2>5 DEF Types
  <2>7. Following' = Following + Size
    <3>1. Len(dumped') # 0 /\ dumped'[Len(dumped')] = o
      BY <2>6
    <3> QED BY <2>2, <3>1 DEF Following, Size
  <2>8. InUseInv'
    <3>1. inUse.first = Following + Size /\ Size \in Nat
      BY <1>1, <2>1, Sizes DEF InUseInv
    <3>2. inUse'.first = Following' + 0
      BY <1>3, <1>4, <2>7, <3>1
    <3> QED BY <1>3, <2>5, <3>2 DEF InUseInv
  <2>9. OldInv'
    BY <2>5 DEF OldInv
  <2>10. DumpedInv'
    <3> SUFFICES ASSUME NEW i \in 1..(Len(dumped) + 1)
                 PROVE  /\ dumped'[i].added = Contents(latency, dumped'[i].first, Size, Size)
                        /\ dumped'[i].first = IF i = 1 THEN 0 ELSE dumped'[i - 1].first + Size
      BY <1>2, <2>6 DEF DumpedInv, Size
    <3>1. CASE i \in 1..Len(dumped)
      <4>1. i # 1 => i - 1 \in 1..Len(dumped)
        BY <2>6, <3>1
      <4> QED BY <1>1, <2>6, <3>1, <4>1 DEF DumpedInv
    <3>2. CASE i = Len(dumped) + 1
      <4>1. i = 1 <=> Len(dumped) = 0
        BY <2>6, <3>2
      <4>2. i # 1 => i - 1 = Len(dumped) /\ dumped'[i - 1] = dumped[Len(dumped)]
        BY <2>6, <3>2, <4>1
      <4> QED BY <2>2, <2>4, <2>6, <3>2, <4>1, <4>2 DEF Following
    <3> QED BY <2>6, <3>1, <3>2
  <2> QED BY <2>8, <2>9, <2>10
<1> QED BY <1>5, <1>6, <1>7

(* ------------------------------- theorems -------------------------------- *)

LEMMA InitInv == Init => Inv
<1> SUFFICES ASSUME Init PROVE Inv
  OBVIOUS
<1> USE DEF Init
<1>1. Types
  BY DEF Types, Empty, BufferSet
<1>2. Fills
  BY SizeAssumption DEF Fills
<1>3. Following = 0
  BY DEF Following
<1>4. InUseInv
  <2>1. (IF Position < 0 THEN 0 ELSE Position) = 0
    BY <1>1, Numbers DEF Position
  <2>2. Contents(latency, 0, 0, 0) = {}
    BY DEF Contents, Run
  <2> QED BY <1>3, <2>1, <2>2 DEF InUseInv, Empty
<1>5. OldInv /\ DumpedInv /\ LastInv /\ TimeInv
  BY Sizes DEF OldInv, DumpedInv, LastInv, TimeInv, Now, Empty
<1> QED BY <1>1, <1>2, <1>4, <1>5 DEF Inv

LEMMA NextInv == Inv /\ [Next]_vars => Inv'
<1> SUFFICES ASSUME Inv, [Next]_vars PROVE Inv'
  OBVIOUS
<1>1. CASE Block
  <2>1. Types' /\ Fills'
    BY <1>1, BlockTypes, BlockFills DEF Inv
  <2>2. InUseInv' /\ OldInv' /\ DumpedInv' /\ TimeInv'
    BY <1>1, FullBlock, NotFullBlock, BlockTime DEF Inv
  <2>3. LastInv'
    BY <1>1 DEF Inv, LastInv, Block
  <2> QED BY <2>1, <2>2, <2>3 DEF Inv
<1>2. CASE Finalize
  <2>1. UNCHANGED <<latency, inUse, fill, old, waited, dumped, count>> /\ last' = <<inUse>> /\ stage' = "final"
    BY <1>2 DEF Finalize
  <2>2. Types'
    BY <2>1 DEF Inv, Types
  <2>3. Fills' /\ InUseInv' /\ OldInv' /\ DumpedInv' /\ LastInv' /\ TimeInv'
    BY <2>1 DEF Inv, Fills, InUseInv, OldInv, DumpedInv, LastInv, TimeInv, Now, Following, Position, Size
  <2> QED BY <2>2, <2>3 DEF Inv
<1>3. CASE UNCHANGED vars
  BY <1>3 DEF Inv, Types, Fills, InUseInv, OldInv, DumpedInv, LastInv, TimeInv, Now, Following,
               Position, Size, vars
<1> QED BY <1>1, <1>2, <1>3 DEF Next

\* The buffers are what the code's counters say, in every reachable state.
THEOREM InvHolds == Spec => []Inv
<1> QED BY InitInv, NextInv, PTL DEF Spec

LEMMA DumpedHolds ==
  ASSUME Inv
  PROVE  DumpedIsAligned /\ DumpedWithoutGap
<1>1. DumpedWithoutGap
  BY DEF Inv, DumpedInv, DumpedWithoutGap
<1>2. ASSUME NEW i \in DOMAIN dumped
      PROVE  Holds(dumped[i], Size, Size)
  <2>1. dumped[i] \in BufferSet /\ dumped[i].added = Contents(latency, dumped[i].first, Size, Size)
    BY <1>2 DEF Inv, Types, DumpedInv
  <2>2. dumped[i].first \in Int /\ latency \in Int /\ Size \in Nat
    BY <2>1, Numbers DEF Inv, BufferSet
  <2> QED BY <2>1, <2>2, ContentsIsHolds
<1> QED BY <1>1, <1>2 DEF DumpedIsAligned

LEMMA LastHolds ==
  ASSUME Inv
  PROVE  LastIsAligned
<1> DEFINE n == IF Position < 0 THEN 0 ELSE Position
<1>1. ASSUME NEW i \in DOMAIN last
      PROVE  Holds(last[i], fill, n)
  <2>1. last[i] = inUse
    BY <1>1 DEF Inv, LastInv
  <2>2. inUse.added = Contents(latency, inUse.first, fill, n)
    BY DEF Inv, InUseInv
  <2>3. inUse.first \in Int /\ latency \in Int /\ fill \in Nat /\ n \in Nat
    BY Numbers DEF Inv
  <2> HIDE DEF n
  <2> QED BY <2>1, <2>2, <2>3, ContentsIsHolds
<1> QED BY <1>1 DEF LastIsAligned

\* The last buffer begins where the dumped ones end or one buffer later, and ends now.
LEMMA EndHolds ==
  ASSUME Inv
  PROVE  LastEndsTheTake
<1>1. Following = DumpedUntil
  BY DEF Following, DumpedUntil, Inv, Types
<1>2. old # <<>> => fill <= latency
  BY Numbers DEF Inv, OldInv
<1>3. ASSUME NEW i \in DOMAIN last
      PROVE  /\ last[i].first + fill = count * Frames
             /\ last[i].first = DumpedUntil + (IF old = <<>> THEN 0 ELSE Size)
  <2>1. last[i] = inUse
    BY <1>3 DEF Inv, LastInv
  <2> QED BY <1>1, <2>1 DEF Inv, InUseInv, TimeInv, Now
<1> QED BY <1>2, <1>3 DEF LastEndsTheTake

LEMMA ContentsInside ==
  ASSUME NEW b, NEW late, NEW d, NEW n \in Nat, NEW m \in Nat, n <= Size, m <= Size, Size \in Nat,
         b.added = Contents(late, d, n, m)
  PROVE  Inside(b)
<1>1. ASSUME NEW w \in b.added
      PROVE  w[1] \in 0..(Size - 1)
  <2>1. CASE w \in Run("internal", d, n)
    BY <2>1 DEF Run
  <2>2. CASE w \in Run("external", d + late, m)
    BY <2>2 DEF Run
  <2> QED BY <1>1, <2>1, <2>2 DEF Contents
<1> QED BY <1>1 DEF Inside

LEMMA WritesHold ==
  ASSUME Inv
  PROVE  WritesStayInside
<1>1. Types /\ InUseInv /\ OldInv /\ Fills
  BY DEF Inv
<1>2. fill <= Size
  <2>1. PICK k \in 0..(BufferBlocks - 1) : fill = k * Frames
    BY <1>1 DEF Fills
  <2> QED BY <1>1, <2>1, WholeBlocks, Numbers
<1>3. Inside(inUse)
  <2> DEFINE n == IF Position < 0 THEN 0 ELSE Position
  <2>1. n \in Nat /\ n <= Size
    BY <1>1, <1>2, Numbers DEF Position
  <2>2. inUse.added = Contents(latency, inUse.first, fill, n)
    BY <1>1 DEF InUseInv
  <2> HIDE DEF n
  <2> QED BY <1>1, <1>2, <2>1, <2>2, Numbers, ContentsInside
<1>4. ASSUME NEW i \in DOMAIN old
      PROVE  Inside(old[i])
  <2>1. i = 1 /\ old # <<>>
    BY <1>1, <1>4 DEF Types
  <2>2. /\ old[1].added = Contents(latency, Following, Size, Size + Position)
        /\ fill = 0 \/ fill < latency
    BY <1>1, <2>1 DEF OldInv
  <2>3. Size + Position \in Nat /\ Size + Position <= Size
    BY <1>1, <2>2, Numbers DEF Position
  <2> QED BY <1>1, <2>1, <2>2, <2>3, Numbers, ContentsInside
<1> QED BY <1>3, <1>4 DEF WritesStayInside

\* Every buffer dumped during a recording has both signals complete and in their place.
THEOREM DumpedIsAlignedHolds == Spec => []DumpedIsAligned
<1> QED BY InvHolds, DumpedHolds, PTL

\* The dumped buffers follow each other without a gap.
THEOREM DumpedWithoutGapHolds == Spec => []DumpedWithoutGap
<1> QED BY InvHolds, DumpedHolds, PTL

\* No frame is written outside a buffer.
THEOREM WritesStayInsideHolds == Spec => []WritesStayInside
<1> QED BY InvHolds, WritesHold, PTL

\* The buffer dumped at the end is in place as far as it goes.
THEOREM LastIsAlignedHolds == Spec => []LastIsAligned
<1> QED BY InvHolds, LastHolds, PTL

\* What goes to disk is the take: in place, without a gap from its beginning, and up to
\* its end, but for the one full buffer that waits out the latency when the recording stops.
THEOREM DumpedIsTheTakeHolds == Spec => []DumpedIsTheTake
<1>1. Inv => DumpedIsTheTake
  BY DumpedHolds, LastHolds, EndHolds DEF DumpedIsTheTake
<1> QED BY <1>1, InvHolds, PTL

=============================================================================
