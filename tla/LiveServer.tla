----------------------------- MODULE LiveServer -----------------------------
(***************************************************************************)
(* The video sources of module/server-live555 and the encoder threads they *)
(* start and stop through core/encoder-common.cpp.                         *)
(*                                                                         *)
(* The live555 thread creates, reads and destroys the sources and runs the *)
(* handlers of triggered events.  An encoder thread appends a packet to    *)
(* its channel's queue and then, outside every lock, calls the callback of *)
(* the channel, which reads vLiveSource and triggers an event.  Packets    *)
(* are counted here; module PktQueue has their bytes.                      *)
(***************************************************************************)
EXTENDS Naturals, FiniteSets

CONSTANTS
  Channels,  \* the video channels
  Objects,   \* the addresses a source object may have
  NULL,      \* no object
  None,      \* no event is pending
  QueueSize  \* how many packets the queue of a channel holds

ASSUME LiveServerAssumption ==
  /\ NULL \notin Objects
  /\ None \notin Objects \cup {NULL}
  /\ QueueSize \in Nat \ {0}

VARIABLES
  alive,           \* the source objects, with the channel of each
  awaiting,        \* those a reader downstream waits for
  vLiveSource,     \* the source of each channel, or NULL
  registered,      \* the channels with an event trigger and a callback
  pending,         \* the device of the event triggered for each channel
  encoder_clients, \* who registered with the encoders
  threadLaunched,  \* of encoder-common.cpp
  encoder,         \* where the encoder thread of each channel is
  ourDevice,       \* what its callback read from vLiveSource
  queue,           \* the packets in the queue of each channel
  main             \* what the live555 thread does: [pc, obj, chan]

encvars == <<encoder, ourDevice>>
srcvars == <<alive, awaiting, vLiveSource, registered>>
vars == <<alive, awaiting, vLiveSource, registered, pending, encoder_clients,
          threadLaunched, encoder, ourDevice, queue, main>>

Sources == DOMAIN alive

referenceCount == Cardinality(Sources)

Loop == [pc |-> "loop"]
InLoop == main = Loop

Init ==
  /\ alive = [o \in {} |-> NULL]
  /\ awaiting = {}
  /\ vLiveSource = [c \in Channels |-> NULL]
  /\ registered = {}
  /\ pending = [c \in Channels |-> None]
  /\ encoder_clients = {}
  /\ threadLaunched = FALSE
  /\ encoder = [c \in Channels |-> "none"]
  /\ ourDevice = [c \in Channels |-> NULL]
  /\ queue = [c \in Channels |-> 0]
  /\ main = Loop

(***************************************************************************)
(* GAVideoLiveSource: the constructor.  The first source registers as a    *)
(* client, which launches the encoders; they may run before it goes on.    *)
(* A subsession reuses its first source, so a channel has at most one.     *)
(***************************************************************************)
Free(c) == \A o \in Sources : alive[o] # c

Construct(o, c) ==
  /\ InLoop
  /\ o \notin Sources /\ Free(c)
  /\ main' = [pc |-> "construct", obj |-> o, chan |-> c]
  /\ IF referenceCount = 0
     THEN /\ encoder_clients' = encoder_clients \cup {o}
          /\ IF encoder_clients = {}
             THEN /\ threadLaunched' = TRUE
                  /\ encoder' = [d \in Channels |-> "run"]
             ELSE UNCHANGED <<threadLaunched, encoder>>
     ELSE UNCHANGED <<encoder_clients, threadLaunched, encoder>>
  /\ UNCHANGED <<srcvars, pending, ourDevice, queue>>

Install ==
  /\ main.pc = "construct"
  /\ alive' = [o \in Sources \cup {main.obj} |->
                 IF o = main.obj THEN main.chan ELSE alive[o]]
  /\ vLiveSource' = [vLiveSource EXCEPT ![main.chan] = main.obj]
  /\ registered' = registered \cup {main.chan}
  /\ main' = Loop
  /\ UNCHANGED <<awaiting, pending, encoder_clients, threadLaunched, encvars, queue>>

(***************************************************************************)
(* The destructor: the last source unregisters as a client, which joins    *)
(* the encoder threads and empties the queues, and then takes back the     *)
(* trigger and the callback of its own channel.                            *)
(***************************************************************************)
Destroy(o) ==
  /\ InLoop
  /\ o \in Sources
  /\ alive' = [p \in Sources \ {o} |-> alive[p]]
  /\ awaiting' = awaiting \ {o}
  /\ vLiveSource' = [vLiveSource EXCEPT ![alive[o]] = NULL]
  /\ IF referenceCount > 1
     THEN UNCHANGED <<encoder_clients, threadLaunched, main>>
     ELSE /\ encoder_clients' = encoder_clients \ {o}
          /\ IF encoder_clients \subseteq {o}
             THEN /\ threadLaunched' = FALSE
                  /\ main' = [pc |-> "join", obj |-> o, chan |-> alive[o]]
             ELSE /\ main' = [pc |-> "reclaim", obj |-> o, chan |-> alive[o]]
                  /\ UNCHANGED threadLaunched
  /\ UNCHANGED <<registered, pending, encvars, queue>>

\* Mutant: the queues keep their packets.
KeepQueues == UNCHANGED queue

EmptyQueues == queue' = [c \in Channels |-> 0]

\* vencoder_stop joins the threads; encoder_pktqueue_reset empties the queues.
JoinEncoders ==
  /\ main.pc = "join"
  /\ \A c \in Channels : encoder[c] \in {"none", "exited"}
  /\ encoder' = [c \in Channels |-> "none"]
  /\ EmptyQueues
  /\ main' = [main EXCEPT !.pc = "reclaim"]
  /\ UNCHANGED <<srcvars, pending, encoder_clients, threadLaunched, ourDevice>>

\* Mutant: a pending event survives its trigger.
ReclaimKeepsEvent ==
  /\ main.pc = "reclaim"
  /\ registered' = registered \ {main.chan}
  /\ main' = Loop
  /\ UNCHANGED <<alive, awaiting, vLiveSource, pending, encoder_clients,
                 threadLaunched, encvars, queue>>

\* unregister_callback and deleteEventTrigger, which forgets a pending event.
Reclaim ==
  /\ main.pc = "reclaim"
  /\ registered' = registered \ {main.chan}
  /\ pending' = [pending EXCEPT ![main.chan] = None]
  /\ main' = Loop
  /\ UNCHANGED <<alive, awaiting, vLiveSource, encoder_clients, threadLaunched,
                 encvars, queue>>

(***************************************************************************)
(* doGetNextFrame, and the event handler deliverFrame0: both deliver the   *)
(* first packet to a reader that waits for one.                            *)
(***************************************************************************)
Deliver(o, waiters) ==
  IF o \in waiters /\ queue[alive[o]] > 0
  THEN /\ queue' = [queue EXCEPT ![alive[o]] = @ - 1]
       /\ awaiting' = waiters \ {o}
  ELSE UNCHANGED queue /\ awaiting' = waiters

\* Mutant: the reader waits though there is a packet.
GetNextFrameWaits(o) ==
  /\ InLoop
  /\ o \in Sources \ awaiting
  /\ awaiting' = awaiting \cup {o}
  /\ UNCHANGED <<alive, vLiveSource, registered, pending, encoder_clients,
                 threadLaunched, encvars, queue, main>>

GetNextFrame(o) ==
  /\ InLoop
  /\ o \in Sources \ awaiting
  /\ Deliver(o, awaiting \cup {o})
  /\ UNCHANGED <<alive, vLiveSource, registered, pending, encoder_clients,
                 threadLaunched, encvars, main>>

\* The handler does not look at the device it was given: no source, no server.
HandleEvent(c) ==
  /\ InLoop
  /\ pending[c] # None
  /\ pending' = [pending EXCEPT ![c] = None]
  /\ IF pending[c] \in Sources
     THEN Deliver(pending[c], awaiting) /\ UNCHANGED main
     ELSE main' = [pc |-> "crash"] /\ UNCHANGED <<awaiting, queue>>
  /\ UNCHANGED <<alive, vLiveSource, registered, encoder_clients,
                 threadLaunched, encvars>>

(***************************************************************************)
(* The encoder thread of a channel: the condition of its loop, then a      *)
(* packet sent: encoder_pktqueue_append and the callback.                  *)
(***************************************************************************)
EncoderGoto(c, s) == encoder' = [encoder EXCEPT ![c] = s]

\* Mutant: the loop does not end.
EncoderRunsOn(c) ==
  /\ encoder[c] = "run"
  /\ EncoderGoto(c, "append")
  /\ UNCHANGED <<srcvars, pending, encoder_clients, threadLaunched, ourDevice,
                 queue, main>>

EncoderCheck(c) ==
  /\ encoder[c] = "run"
  /\ EncoderGoto(c, IF threadLaunched THEN "append" ELSE "exited")
  /\ UNCHANGED <<srcvars, pending, encoder_clients, threadLaunched, ourDevice,
                 queue, main>>

HasRoom(c) == queue[c] < QueueSize

\* No packet this time, a queue that is full, or a packet to tell of.
EncoderAppend(c) ==
  /\ encoder[c] = "append"
  /\ \/ EncoderGoto(c, "run") /\ UNCHANGED queue
     \/ /\ HasRoom(c)
        /\ queue' = [queue EXCEPT ![c] = @ + 1]
        /\ EncoderGoto(c, "notify")
  /\ UNCHANGED <<srcvars, pending, encoder_clients, threadLaunched, ourDevice, main>>

\* The encoder reports an error: its thread ends, the others go on.
EncoderFails(c) ==
  /\ encoder[c] = "append"
  /\ EncoderGoto(c, "exited")
  /\ UNCHANGED <<srcvars, pending, encoder_clients, threadLaunched, ourDevice,
                 queue, main>>

\* signalNewVideoFrameData, if it is registered, reads the device ...
ReadDevice(c) ==
  /\ encoder[c] = "notify"
  /\ IF c \in registered
     THEN EncoderGoto(c, "trigger") /\ ourDevice' = [ourDevice EXCEPT ![c] = vLiveSource[c]]
     ELSE EncoderGoto(c, "run") /\ UNCHANGED ourDevice
  /\ UNCHANGED <<srcvars, pending, encoder_clients, threadLaunched, queue, main>>

\* ... and triggers the event with it.  The id of no trigger does nothing.
TriggerEvent(c) ==
  /\ encoder[c] = "trigger"
  /\ pending' = IF c \in registered THEN [pending EXCEPT ![c] = ourDevice[c]] ELSE pending
  /\ ourDevice' = [ourDevice EXCEPT ![c] = NULL]
  /\ EncoderGoto(c, "run")
  /\ UNCHANGED <<srcvars, encoder_clients, threadLaunched, queue, main>>

EncoderStep(c) ==
  EncoderCheck(c) \/ EncoderAppend(c) \/ EncoderFails(c) \/ ReadDevice(c) \/ TriggerEvent(c)

Next ==
  \/ \E o \in Objects, c \in Channels : Construct(o, c)
  \/ \E o \in Objects : Destroy(o) \/ GetNextFrame(o)
  \/ Install \/ JoinEncoders \/ Reclaim
  \/ \E c \in Channels : HandleEvent(c) \/ EncoderStep(c)

Spec == Init /\ [][Next]_vars

\* The threads run; the event loop handles every triggered event and finishes
\* what it begins.  Nobody has to connect, to read or to leave.
FairSpec ==
  /\ Spec
  /\ WF_vars(Install) /\ WF_vars(JoinEncoders) /\ WF_vars(Reclaim)
  /\ \A c \in Channels : SF_vars(HandleEvent(c)) /\ WF_vars(EncoderStep(c))
-----------------------------------------------------------------------------
(***************************************************************************)
(* Properties                                                              *)
(***************************************************************************)
\* Every variable stays in its range.
TypeOK ==
  /\ Sources \subseteq Objects
  /\ alive \in [Sources -> Channels]
  /\ awaiting \subseteq Sources
  /\ vLiveSource \in [Channels -> Objects \cup {NULL}]
  /\ registered \subseteq Channels
  /\ pending \in [Channels -> Objects \cup {NULL, None}]
  /\ encoder_clients \subseteq Objects
  /\ threadLaunched \in BOOLEAN
  /\ encoder \in [Channels ->
       {"none", "run", "append", "notify", "trigger", "exited"}]
  /\ ourDevice \in [Channels -> Objects \cup {NULL}]
  /\ queue \in [Channels -> 0..QueueSize]
  /\ main.pc \in {"loop", "construct", "join", "reclaim", "crash"}

\* No event ever reaches a source that is gone: an encoder thread may read
\* vLiveSource, or trigger the event, while the source is being destroyed, and
\* what it triggered is forgotten before the event loop runs again.
EventsHaveDevice == TypeOK /\ main.pc # "crash"

\* The encoders run exactly while there is a source to read what they encode.
EncodersFollowSources ==
  InLoop => (threadLaunched <=> Sources # {})

\* The encoders end with the last source, and the next session starts with no
\* packet of theirs: whatever an encoder appends while it is being stopped is
\* thrown away with the rest.
QueuesEmptied ==
  /\ EncodersFollowSources
  /\ InLoop /\ ~threadLaunched =>
    \A c \in Channels : encoder[c] = "none" /\ queue[c] = 0

\* No packet waits unseen: while a reader waits for a packet that is there, the
\* event that will deliver it is pending or the encoder is about to trigger it.
NoEventLost ==
  \A o \in awaiting :
    queue[alive[o]] > 0 =>
      \/ pending[alive[o]] = o
      \/ encoder[alive[o]] = "notify"
      \/ encoder[alive[o]] = "trigger" /\ ourDevice[alive[o]] = o

\* Closing the last source returns though it joins the encoder threads.
StopReturns == (main.pc = "join") ~> InLoop

\* A reader that waits for a packet that is there gets it, or its source goes.
PacketsDelivered ==
  \A o \in Objects :
    (o \in awaiting /\ queue[alive[o]] > 0) ~> (o \notin awaiting)
=============================================================================
