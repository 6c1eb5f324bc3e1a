------------------------------- MODULE DPipe -------------------------------
(***************************************************************************)
(* A pipe of core/dpipe.cpp: a fixed pool of frame buffers that travel     *)
(* from the input pool (free) to a writer, which fills one and stores it   *)
(* in the output pool, to a reader, which loads it and puts it back.       *)
(*                                                                         *)
(* Each critical section of io_mutex is one action.  dpipe_store signals   *)
(* the condition AFTER it has left the critical section, so Signal is a    *)
(* step of its own and other threads may run in between.                   *)
(***************************************************************************)
EXTENDS Naturals, Sequences, FiniteSets

CONSTANTS
  Buffers,    \* the frame buffers of the pipe
  NoBuffer,   \* NULL
  Writers,    \* the threads that get and store
  Readers,    \* the threads that load and put
  Timed,      \* the readers that give dpipe_load an abstime
  MaxFrames   \* bound of the model: how many frames are stored

Threads == Writers \cup Readers

ASSUME DPipeAssumption ==
  /\ IsFiniteSet(Buffers) /\ IsFiniteSet(Threads)
  /\ NoBuffer \notin Buffers
  /\ Writers \cap Readers = {}
  /\ Timed \subseteq Readers
  /\ MaxFrames \in Nat

VARIABLES
  in,      \* the buffers of the input pool
  out,     \* the output pool, from out to out_tail
  frame,   \* the frame in each buffer
  held,    \* the buffer each thread has, or NoBuffer
  pc,      \* where each thread is
  stored,  \* how many frames have been stored
  last     \* the last frame loaded

pool == <<in, out, frame, held>>
vars == <<in, out, frame, held, pc, stored, last>>

\* idle: between two calls; writing: has a buffer to fill; signalling: stored
\* it, about to signal; waiting: in pthread_cond_[timed]wait; signalled,
\* timedout and spurious: back from it; reading: has a loaded frame; null: was
\* given NULL by dpipe_get.
WriterPCs == {"idle", "writing", "signalling", "null"}
Awake == {"signalled", "timedout", "spurious"}
ReaderPCs == {"idle", "waiting", "reading"} \cup Awake

Init ==
  /\ in = Buffers /\ out = <<>>
  /\ frame = [b \in Buffers |-> 0]
  /\ held = [t \in Threads |-> NoBuffer]
  /\ pc = [t \in Threads |-> "idle"]
  /\ stored = 0 /\ last = 0

Goto(t, s) == pc' = [pc EXCEPT ![t] = s]
Hold(t, b) == held' = [held EXCEPT ![t] = b]

\* Mutants: the eldest frame stays in the output pool; a frame is stored before
\* the others; a buffer is not freed.
LeaveEldest == UNCHANGED out
EnqueueFirst(b) == out' = <<b>> \o out
FreeLost(b) == UNCHANGED in

Release(t) == Hold(t, NoBuffer)
TakeEldest == out' = Tail(out)
Enqueue(b) == out' = Append(out, b)
Free(b) == in' = in \cup {b}

(***************************************************************************)
(* dpipe_get.  Any free buffer will do (the code takes the one put back    *)
(* last); with none, the eldest frame is given up.                         *)
(***************************************************************************)
GetFree(w) ==
  /\ pc[w] = "idle"
  /\ \E b \in in : in' = in \ {b} /\ Hold(w, b)
  /\ Goto(w, "writing")
  /\ UNCHANGED <<out, frame, stored, last>>

\* Mutant: an old frame is given up though a buffer is free.
GetEldestFirst(w) ==
  /\ pc[w] = "idle"
  /\ out # <<>>
  /\ Hold(w, Head(out)) /\ TakeEldest
  /\ Goto(w, "writing")
  /\ UNCHANGED <<in, frame, stored, last>>

GetEldest(w) ==
  /\ pc[w] = "idle"
  /\ in = {} /\ out # <<>>
  /\ Hold(w, Head(out)) /\ TakeEldest
  /\ Goto(w, "writing")
  /\ UNCHANGED <<in, frame, stored, last>>

GetNull(w) ==
  /\ pc[w] = "idle"
  /\ in = {} /\ out = <<>>
  /\ Goto(w, "null")
  /\ UNCHANGED <<pool, stored, last>>

\* dpipe_store, up to the unlock; f is the frame the writer has put there.
Store(w, f) ==
  /\ pc[w] = "writing"
  /\ frame' = [frame EXCEPT ![held[w]] = f]
  /\ Enqueue(held[w])
  /\ Release(w)
  /\ Goto(w, "signalling")
  /\ stored' = stored + 1
  /\ UNCHANGED <<in, last>>

Waiting == {r \in Readers : pc[r] = "waiting"}

\* Mutant: no signal.
SignalLost(w) ==
  /\ pc[w] = "signalling"
  /\ Goto(w, "idle")
  /\ UNCHANGED <<pool, stored, last>>

\* pthread_cond_signal wakes one waiting thread, if there is one.
Signal(w) ==
  /\ pc[w] = "signalling"
  /\ IF Waiting = {}
     THEN Goto(w, "idle")
     ELSE \E r \in Waiting :
            pc' = [pc EXCEPT ![w] = "idle", ![r] = "signalled"]
  /\ UNCHANGED <<pool, stored, last>>

(***************************************************************************)
(* dpipe_load, at its start or back from the wait, and dpipe_put.          *)
(***************************************************************************)
Looking(r) == pc[r] = "idle" \/ pc[r] \in Awake

Load(r) ==
  /\ Looking(r)
  /\ out # <<>>
  /\ Hold(r, Head(out)) /\ TakeEldest
  /\ last' = frame[Head(out)]
  /\ Goto(r, "reading")
  /\ UNCHANGED <<in, frame, stored>>

\* A reader with an abstime waits once, another again and again.
Wait(r) ==
  /\ out = <<>>
  /\ pc[r] = "idle" \/ (Looking(r) /\ r \notin Timed)
  /\ Goto(r, "waiting")
  /\ UNCHANGED <<pool, stored, last>>

LoadNull(r) ==
  /\ out = <<>>
  /\ pc[r] \in Awake /\ r \in Timed
  /\ Goto(r, "idle")
  /\ UNCHANGED <<pool, stored, last>>

TimeOut(r) ==
  /\ pc[r] = "waiting" /\ r \in Timed
  /\ Goto(r, "timedout")
  /\ UNCHANGED <<pool, stored, last>>

\* POSIX lets a wait end for no reason.
SpuriousWakeup(r) ==
  /\ pc[r] = "waiting"
  /\ Goto(r, "spurious")
  /\ UNCHANGED <<pool, stored, last>>

\* dpipe_load_nowait: no frame, no wait.
LoadNowait(r) ==
  \/ pc[r] = "idle" /\ Load(r)
  \/ pc[r] = "idle" /\ out = <<>> /\ UNCHANGED vars

Put(r) ==
  /\ pc[r] = "reading"
  /\ Free(held[r])
  /\ Release(r)
  /\ Goto(r, "idle")
  /\ UNCHANGED <<out, frame, stored, last>>

Get(w) == GetFree(w) \/ GetEldest(w) \/ GetNull(w)
Read(r) == Load(r) \/ Wait(r) \/ LoadNull(r)

\* The bound of the model: no writer starts a frame that could not be stored.
MayStart == stored + Cardinality({w \in Writers : pc[w] = "writing"}) < MaxFrames

Next ==
  \/ \E w \in Writers : (MayStart /\ Get(w)) \/ Store(w, stored + 1) \/ Signal(w)
  \/ \E r \in Readers : Read(r) \/ TimeOut(r) \/ SpuriousWakeup(r) \/ Put(r)

Spec == Init /\ [][Next]_vars

\* A thread that can take a step of its own, other than start a new frame,
\* takes it in the end; a wait with an abstime ends.
Fairness ==
  /\ \A w \in Writers : WF_vars(Store(w, stored + 1)) /\ WF_vars(Signal(w))
  /\ \A r \in Readers : WF_vars(Read(r)) /\ WF_vars(TimeOut(r)) /\ WF_vars(Put(r))

FairSpec == Spec /\ Fairness
-----------------------------------------------------------------------------
(***************************************************************************)
(* Properties                                                              *)
(***************************************************************************)
\* Every variable stays in its range, and a thread has a buffer exactly while
\* it writes or reads one.
TypeOK ==
  /\ in \in SUBSET Buffers
  /\ out \in Seq(Buffers)
  /\ frame \in [Buffers -> 0..MaxFrames]
  /\ held \in [Threads -> Buffers \cup {NoBuffer}]
  /\ pc \in [Threads -> WriterPCs \cup ReaderPCs]
  /\ \A w \in Writers : pc[w] \in WriterPCs
  /\ \A r \in Readers : pc[r] \in ReaderPCs
  /\ \A t \in Threads : held[t] # NoBuffer <=> pc[t] \in {"writing", "reading"}
  /\ stored \in 0..MaxFrames
  /\ last \in 0..MaxFrames

\* The pool neither leaks nor shares a buffer: each is in exactly one of the
\* input pool, one place of the output pool and the hands of one thread, so no
\* thread writes a frame that another one reads.
Conserved ==
  /\ TypeOK
  /\ \A i \in 1..Len(out) : out[i] \notin in
  /\ \A i, j \in 1..Len(out) : i # j => out[i] # out[j]
  /\ \A t \in Threads : held[t] # NoBuffer =>
       /\ held[t] \notin in
       /\ \A i \in 1..Len(out) : held[t] # out[i]
       /\ \A u \in Threads : u # t => held[u] # held[t]
  /\ \A b \in Buffers :
       b \in in \/ (\E i \in 1..Len(out) : out[i] = b)
                \/ (\E t \in Threads : held[t] = b)

\* The threads that have a buffer.
Holders == {t \in Threads : held[t] # NoBuffer}

\* dpipe_get returns NULL, which no caller looks at, only when other threads
\* have every buffer of the pipe, so never with a buffer for each thread: "This
\* function should always success" (core/dpipe.cpp:150).
NullOnlyWhenAllHeld ==
  [][\A w \in Writers : pc[w] # "null" /\ pc'[w] = "null" =>
       Cardinality(Holders \ {w}) = Cardinality(Buffers)]_vars

\* The threads whose step will make a reader look at the output pool.
Alerts == {t \in Threads : pc[t] \in {"signalling", "signalled"}}

\* No wakeup is lost though the signal comes after the unlock: while a reader
\* waits, each frame of the output pool has an alert of its own on its way.
NoLostWakeup == Waiting # {} => Len(out) <= Cardinality(Alerts)

Channel == INSTANCE FrameChannel
             WITH Capacity <- Cardinality(Buffers), Users <- Cardinality(Threads),
                  waiting <- [i \in 1..Len(out) |-> frame[out[i]]],
                  busy <- Cardinality(Holders)

\* The pipe is a first-in first-out channel that loses a frame only when it is
\* the eldest one and no buffer is free.
ChannelSpec == Channel!Spec

\* A stored frame does not stay in the output pool for ever: some reader loads
\* it, or a writer has overtaken it.
FramesLeave ==
  \A n \in 1..MaxFrames :
    (\E i \in 1..Len(out) : frame[out[i]] = n)
      ~> (\A i \in 1..Len(out) : frame[out[i]] # n)
=============================================================================
