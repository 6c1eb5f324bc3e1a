----------------------------- MODULE SampleFifo -----------------------------
(***************************************************************************)
(* What the audio buffer of core/asource.cpp promises to the encoder that  *)
(* reads it: the captured frames in order, in chunks that are kept whole   *)
(* or, for want of space only, lost whole.                                 *)
(***************************************************************************)
EXTENDS Naturals, Sequences

CONSTANTS
  Capacity,  \* the frames the buffer holds
  Chunks,    \* how many frames may be captured at a time
  MaxFrames  \* bound of the model: how many frames are captured

VARIABLES
  captured,  \* how many frames have been captured: frames are numbered
  listening, \* whether the encoder takes part
  queue,     \* the frames it has not read yet
  got        \* what it read last

vars == <<captured, listening, queue, got>>

Init == captured = 0 /\ listening = FALSE /\ queue = <<>> /\ got = <<>>

Chunk(n) == [i \in 1..n |-> captured + i]

Capture(n) ==
  /\ captured + n <= MaxFrames
  /\ captured' = captured + n
  /\ \/ listening /\ Len(queue) + n <= Capacity /\ queue' = queue \o Chunk(n)
     \/ (listening => Len(queue) + n > Capacity) /\ UNCHANGED queue
  /\ UNCHANGED <<listening, got>>

Read(n) ==
  /\ listening
  /\ n <= Len(queue)
  /\ got' = SubSeq(queue, 1, n)
  /\ queue' = SubSeq(queue, n + 1, Len(queue))
  /\ UNCHANGED <<captured, listening>>

\* The encoder joins, starts afresh or leaves.
Turn(on) ==
  /\ listening' = on
  /\ queue' = <<>>
  /\ UNCHANGED <<captured, got>>

Next ==
  \/ \E n \in Chunks : Capture(n)
  \/ \E n \in 0..Capacity : Read(n)
  \/ \E on \in BOOLEAN : Turn(on)

Spec == Init /\ [][Next]_vars
=============================================================================
