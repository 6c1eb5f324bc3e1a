---------------------------- MODULE FrameChannel ----------------------------
(***************************************************************************)
(* What a pipe of core/dpipe.cpp promises to the threads at its two ends:  *)
(* the frames stored come out in the order they were stored, and one is    *)
(* thrown away only when it is the eldest and no buffer of the pool is     *)
(* free.                                                                   *)
(***************************************************************************)
EXTENDS Naturals, Sequences

CONSTANTS
  Capacity,   \* the buffers of the pipe
  Users,      \* how many threads may hold a buffer of it
  MaxFrames   \* bound of the model: how many frames are stored

VARIABLES
  stored,     \* how many frames have been stored: frames are numbered
  waiting,    \* the frames stored and not loaded yet, eldest first
  busy,       \* how many buffers the threads have in their hands
  last        \* the last frame loaded

vars == <<stored, waiting, busy, last>>

Init == stored = 0 /\ waiting = <<>> /\ busy = 0 /\ last = 0

AllInUse == Len(waiting) + busy = Capacity

\* A writer takes a free buffer; with none, the eldest frame is thrown away.
Begin ==
  /\ busy < Users
  /\ busy' = busy + 1
  /\ \/ ~AllInUse /\ UNCHANGED waiting
     \/ AllInUse /\ waiting # <<>> /\ waiting' = Tail(waiting)
  /\ UNCHANGED <<stored, last>>

Store ==
  /\ stored < MaxFrames
  /\ busy > 0
  /\ busy' = busy - 1
  /\ stored' = stored + 1
  /\ waiting' = Append(waiting, stored + 1)
  /\ UNCHANGED last

Load ==
  /\ busy < Users
  /\ waiting # <<>>
  /\ busy' = busy + 1
  /\ last' = Head(waiting)
  /\ waiting' = Tail(waiting)
  /\ UNCHANGED stored

Finish ==
  /\ busy > 0
  /\ busy' = busy - 1
  /\ UNCHANGED <<stored, waiting, last>>

Next == Begin \/ Store \/ Load \/ Finish

Spec == Init /\ [][Next]_vars
=============================================================================
