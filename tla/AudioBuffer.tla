---------------------------- MODULE AudioBuffer ----------------------------
(***************************************************************************)
(* The audio path of the server: the capture thread of an asource module   *)
(* fills the buffer that the thread of encoder-audio has registered with   *)
(* core/asource.cpp, and that thread reads it.  A frame of samples is the  *)
(* unit of size here (framesize bytes in the code).                        *)
(*                                                                         *)
(* audio_source_buffer_fill holds ccmutex, the lock of the registered      *)
(* buffers, from before the first of its two steps to after the last.      *)
(***************************************************************************)
EXTENDS Naturals, Sequences

CONSTANTS
  BufSize,   \* the frames the buffer holds, four chunks in the code
  Chunks,    \* how many frames are captured at a time
  Wants,     \* how many the encoder asks for
  MaxFrames  \* bound of the model: how many frames are captured

ASSUME AudioBufferAssumption ==
  /\ BufSize \in Nat \ {0}
  /\ Chunks \subseteq Nat \ {0} /\ Wants \subseteq Nat \ {0}
  /\ MaxFrames \in Nat

VARIABLES
  allocated,   \* the buffer of the encoder exists
  registered,  \* it is in gClients
  buffer,      \* ab->buffer
  bufhead, buftail, bframes,  \* of ab, in frames
  fpc,         \* where the capture thread is in audio_source_buffer_fill
  rpc,         \* where the encoder thread is
  want,        \* how many frames it asks for
  captured,    \* how many frames have been captured
  got          \* the frames of its last read

bufvars == <<buffer, bufhead, buftail, bframes>>
vars == <<allocated, registered, buffer, bufhead, buftail, bframes,
          fpc, rpc, want, captured, got>>

Positions == 0..BufSize-1

Init ==
  /\ allocated = FALSE /\ registered = FALSE
  /\ buffer = [p \in Positions |-> 0]
  /\ bufhead = 0 /\ buftail = 0 /\ bframes = 0
  /\ fpc = "idle" /\ rpc = "none" /\ want = 0
  /\ captured = 0 /\ got = <<>>

(***************************************************************************)
(* audio_source_buffer_fill, of the one buffer that may be registered.     *)
(***************************************************************************)
Headspace == bufhead
Tailspace == BufSize - buftail

\* Mutant: the space at the start is not used.
OverflowsEarly(n) == n > Tailspace

Overflows(n) == n > Headspace + Tailspace

\* What the buffer holds is moved to its start when the end is too short.
Shift(n) == IF n > Tailspace THEN bufhead ELSE 0
Base(n) == buftail - Shift(n)

FillStore(n) ==
  /\ ~Overflows(n)
  /\ buffer' = [p \in Positions |->
       IF p < Base(n) THEN buffer[p + Shift(n)]
       ELSE IF p < Base(n) + n THEN captured + 1 + p - Base(n)
       ELSE buffer[p]]
  /\ bufhead' = bufhead - Shift(n)
  /\ buftail' = Base(n) + n
  /\ bframes' = bframes + n

FillDrop(n) == Overflows(n) /\ UNCHANGED bufvars

Fill(n) ==
  /\ fpc = "idle"
  /\ captured + n <= MaxFrames
  /\ captured' = captured + n
  /\ \/ registered /\ (FillStore(n) \/ FillDrop(n)) /\ fpc' = "signalling"
     \/ ~registered /\ UNCHANGED <<bufvars, fpc>>
  /\ UNCHANGED <<allocated, registered, rpc, want, got>>

\* pthread_cond_signal, after the unlock of bufmutex.
Signal ==
  /\ fpc = "signalling"
  /\ fpc' = "idle"
  /\ rpc' = IF rpc = "waiting" THEN "woken" ELSE rpc
  /\ UNCHANGED <<allocated, registered, bufvars, want, captured, got>>

(***************************************************************************)
(* aencoder_threadproc: makes a buffer, registers and purges it, reads it  *)
(* until it has to stop, unregisters and frees it.                         *)
(***************************************************************************)
\* Mutant: the frames are still counted.
EmptyKeepsCount == bufhead' = 0 /\ buftail' = 0 /\ UNCHANGED bframes

Empty == bufhead' = 0 /\ buftail' = 0 /\ bframes' = 0

BufferInit ==
  /\ rpc = "none"
  /\ allocated' = TRUE
  /\ Empty
  /\ rpc' = "register"
  /\ UNCHANGED <<registered, buffer, fpc, want, captured, got>>

\* Mutant: gClients changes without ccmutex.
AnyTime == TRUE

CcmutexFree == fpc = "idle"

Register ==
  /\ rpc = "register"
  /\ CcmutexFree
  /\ registered' = TRUE
  /\ rpc' = "purge"
  /\ UNCHANGED <<allocated, bufvars, fpc, want, captured, got>>

Purge ==
  /\ rpc = "purge"
  /\ Empty
  /\ rpc' = "idle"
  /\ UNCHANGED <<allocated, registered, buffer, fpc, want, captured, got>>

\* As many of the n frames asked for as there are; a buffer read to its end
\* starts again at 0.
Copied(n) == IF bframes >= n THEN n ELSE bframes

Take(n) ==
  /\ got' = [i \in 1..Copied(n) |-> buffer[bufhead + i - 1]]
  /\ bframes' = bframes - Copied(n)
  /\ bufhead' = IF Copied(n) = bframes THEN 0 ELSE bufhead + Copied(n)
  /\ buftail' = IF Copied(n) = bframes THEN 0 ELSE buftail
  /\ rpc' = "idle" /\ want' = 0
  /\ UNCHANGED <<allocated, registered, buffer, fpc, captured>>

\* audio_source_buffer_read: an empty buffer is waited for, but only once.
ReadNow(n) == rpc = "idle" /\ bframes > 0 /\ Take(n)

ReadWaits(n) ==
  /\ rpc = "idle"
  /\ bframes = 0
  /\ rpc' = "waiting" /\ want' = n
  /\ UNCHANGED <<allocated, registered, bufvars, fpc, captured, got>>

\* The second is over, or the wait ends for no reason.
TimeOut ==
  /\ rpc = "waiting"
  /\ rpc' = "woken"
  /\ UNCHANGED <<allocated, registered, bufvars, fpc, want, captured, got>>

ReadWoken == rpc = "woken" /\ Take(want)

\* The loop ends, before the first purge or after a read.
Unregister ==
  /\ rpc \in {"purge", "idle"}
  /\ CcmutexFree
  /\ registered' = FALSE
  /\ rpc' = "free"
  /\ UNCHANGED <<allocated, bufvars, fpc, want, captured, got>>

BufferDeinit ==
  /\ rpc = "free"
  /\ allocated' = FALSE
  /\ rpc' = "none"
  /\ UNCHANGED <<registered, bufvars, fpc, want, captured, got>>

Reader ==
  \/ BufferInit \/ Register \/ Purge \/ TimeOut \/ ReadWoken
  \/ Unregister \/ BufferDeinit
  \/ \E n \in Wants : ReadNow(n) \/ ReadWaits(n)

Next == (\E n \in Chunks : Fill(n)) \/ Signal \/ Reader

Spec == Init /\ [][Next]_vars
-----------------------------------------------------------------------------
(***************************************************************************)
(* Properties                                                              *)
(***************************************************************************)
\* Every variable stays in its range.
TypeOK ==
  /\ allocated \in BOOLEAN /\ registered \in BOOLEAN
  /\ buffer \in [Positions -> 0..MaxFrames]
  /\ bufhead \in 0..BufSize /\ buftail \in 0..BufSize /\ bframes \in 0..BufSize
  /\ fpc \in {"idle", "signalling"}
  /\ rpc \in {"none", "register", "purge", "idle", "waiting", "woken", "free"}
  /\ want \in Wants \cup {0}
  /\ captured \in 0..MaxFrames
  /\ got \in Seq(0..MaxFrames)

\* What the code promises itself, "we GUARANTEE that bufhead <= buftail"
\* (core/asource.cpp:103), and that its count of frames and its two positions
\* never disagree, whatever fills, drops, moves, reads and purges come together.
Accounted == TypeOK /\ bufhead <= buftail /\ bframes = buftail - bufhead

\* The capture thread never has a buffer in its hands that the encoder freed,
\* and the encoder never frees one that can still be filled.
FillsAllocated == fpc = "signalling" \/ registered => allocated

Samples == INSTANCE SampleFifo
  WITH Capacity <- BufSize, listening <- registered,
       queue <- IF registered THEN [i \in 1..bframes |-> buffer[bufhead + i - 1]]
                ELSE <<>>

\* The encoder reads the captured frames in order, each chunk whole or not at
\* all, and a chunk is lost only for want of space: moving what is buffered to
\* the start of the buffer uses all of it and disturbs none.
SamplesSpec == Samples!Spec
=============================================================================
