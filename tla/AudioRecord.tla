---------------------------- MODULE AudioRecord ----------------------------
(***************************************************************************)
(* One recording of a Track::AudioRecord (src/units/Track/Track.cpp), at   *)
(* the level of frames: sound from inside the project is written where the *)
(* recording stands, sound from the hardware, which was played latency     *)
(* frames ago, that much earlier, if need be into the buffer before, which *)
(* is dumped when it is complete.                                          *)
(*                                                                         *)
(* A buffer is the set of what was added to it: position, signal and the   *)
(* time at which the frame came in.  Time starts with the recording.       *)
(***************************************************************************)
EXTENDS Integers, Sequences

CONSTANTS
  Frames,         \* frames in a block
  BufferBlocks,   \* RECORD_BUFFER_MUL, 512: blocks in a record buffer
  Latencies,      \* what there may be to compensate
  MaxBlocks       \* bound: blocks in a recording

Size == BufferBlocks * Frames

\* The buffer outlasts the latency by a block; with no latency by one too.
ASSUME SizeAssumption ==
  /\ Frames \in Nat \ {0}
  /\ BufferBlocks \in Nat \ {0, 1}
  /\ Latencies \subseteq 0..(Size - Frames)
  /\ MaxBlocks \in Nat

VARIABLES
  latency,    \* _latencyToCompensate
  inUse,      \* _bufferInUse: when its first frame came, and what was added
  fill,       \* _currentBufferFill
  old,        \* _oldBuffer: none or one
  waited,     \* _compensatedLatency
  dumped,     \* the buffers dumped while recording, in order
  last,       \* the buffer dumped at the end
  stage,
  count       \* blocks so far

vars == <<latency, inUse, fill, old, waited, dumped, last, stage, count>>

Signals == {"internal", "external"}

Empty(time) == [first |-> time, added |-> {}]

Init ==
  /\ latency \in Latencies
  /\ inUse = Empty(0) /\ fill = 0
  /\ old = <<>> /\ waited = 0
  /\ dumped = <<>> /\ last = <<>>
  /\ stage = "record" /\ count = 0

\* When the block that is being recorded began.
Now == inUse.first + fill

\* sumAudioBuffers of n frames of the block.
Add(buffer, signal, readIdx, writeIdx, n) ==
  [buffer EXCEPT !.added =
     @ \cup {<<writeIdx + i, signal, Now + readIdx + i>> : i \in 0..(n - 1)}]

\* Where the hardware sound goes: before 0 is in the old buffer.
Position == fill - latency

\* writeData, the frames of the block that belong to the old buffer.
IntoOld ==
  IF Position >= 0 THEN 0 ELSE IF Position + Frames > 0 THEN -Position ELSE Frames

\* Those of the buffer in use come after them.
IntoNew == IF Position + Frames < 0 THEN 0 ELSE Frames - IntoOld

WrittenOld ==
  IF old = <<>> THEN <<>> ELSE <<Add(old[1], "external", 0, Size + Position, IntoOld)>>

WrittenNew ==
  Add(Add(inUse, "internal", 0, fill, Frames),
      "external", IntoOld, IF Position < 0 THEN 0 ELSE Position, IntoNew)

\* Mutant: a buffer is full when it overflows.
MutFull == fill + Frames > Size

Full == fill + Frames >= Size

Waited == IF old = <<>> THEN waited ELSE waited + Frames

Complete == old # <<>> /\ Waited >= latency

\* Mutant: the next buffer starts where the last block did.
MutNextBuffer == Empty(Now)

NextBuffer == Empty(Now + Frames)

\* One block: writeData of both signals, then incrementCounter.  A full buffer becomes
\* the old one even when that one has not been dumped.
Block ==
  /\ stage = "record" /\ count < MaxBlocks
  /\ count' = count + 1
  /\ LET oldest == IF Full THEN <<WrittenNew>> ELSE WrittenOld
     IN /\ old' = IF Complete THEN <<>> ELSE oldest
        /\ dumped' = IF Complete THEN dumped \o oldest ELSE dumped
  /\ waited' = IF Complete THEN 0 ELSE Waited
  /\ inUse' = IF Full THEN NextBuffer ELSE WrittenNew
  /\ fill' = IF Full THEN 0 ELSE fill + Frames
  /\ UNCHANGED <<latency, last, stage>>

\* finalize: the buffer in use is dumped as far as it got.
Finalize ==
  /\ stage = "record"
  /\ stage' = "final"
  /\ last' = <<inUse>>
  /\ UNCHANGED <<latency, inUse, fill, old, waited, dumped, count>>

Next == Block \/ Finalize

Spec == Init /\ [][Next]_vars

(* ------------------------------ properties ------------------------------- *)

\* What a buffer holds with n internal and m external frames.
Holds(buffer, n, m) ==
  buffer.added = {<<p, "internal", buffer.first + p>> : p \in 0..(n - 1)} \cup
                 {<<p, "external", buffer.first + p + latency>> : p \in 0..(m - 1)}

\* A dumped buffer is complete and aligned: every position has the internal frame of its
\* time and the hardware frame that was played with it, none twice, nothing else.
DumpedIsAligned == \A i \in DOMAIN dumped : Holds(dumped[i], Size, Size)

\* The dumped buffers follow each other without a gap.
DumpedWithoutGap ==
  \A i \in DOMAIN dumped :
    dumped[i].first = IF i = 1 THEN 0 ELSE dumped[i - 1].first + Size

\* Nothing is written outside a buffer.
Inside(buffer) == \A w \in buffer.added : w[1] \in 0..(Size - 1)

WritesStayInside == Inside(inUse) /\ \A i \in DOMAIN old : Inside(old[i])

\* The buffer dumped at the end is aligned as far as it goes; the hardware sound of the
\* last latency frames has not come in yet.
LastIsAligned ==
  \A i \in DOMAIN last : Holds(last[i], fill, IF Position < 0 THEN 0 ELSE Position)

\* Where the dumped buffers end.
DumpedUntil == IF dumped = <<>> THEN 0 ELSE dumped[Len(dumped)].first + Size

\* The buffer dumped at the end goes up to the last block that was recorded.  It begins where
\* the dumped ones end, unless a full buffer still waits for the hardware sound: that one is
\* never dumped, and then no more than the latency was recorded after it.
LastEndsTheTake ==
  \A i \in DOMAIN last :
    /\ last[i].first + fill = count * Frames
    /\ last[i].first = DumpedUntil + (IF old = <<>> THEN 0 ELSE Size)
    /\ old # <<>> => fill <= latency

\* What goes to disk is the take: in place, without a gap from its beginning, and up to
\* its end, but for a full buffer that waits when the recording stops.
DumpedIsTheTake == DumpedIsAligned /\ DumpedWithoutGap /\ LastIsAligned /\ LastEndsTheTake
=============================================================================
