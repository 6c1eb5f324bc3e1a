-------------------------- MODULE LiveServerProofs --------------------------
(***************************************************************************)
(* Proofs about the live555 server of one video channel, for any number of *)
(* source objects and any queue size.  The invariant says for each step of *)
(* a source's construction and destruction who is registered, whether the  *)
(* encoders run, and what device they and the event loop may have in hand. *)
(***************************************************************************)
EXTENDS LiveServer, FiniteSetTheorems, TLAPS

\* With more channels the last source to go need not be the one that
\* registered, and only its own trigger is taken back: the theorems are about
\* one channel, as every video source of the repository has.
OneChannel == \A c, d \in Channels : c = d

MainOK ==
  main \in [pc : {"loop"}]
             \cup [pc : {"construct", "join", "reclaim"}, obj : Objects, chan : Channels]

\* A channel has one source at a time, which the event loop alone works with.
OneSource ==
  /\ \A o, p \in Sources : o = p
  /\ main.pc # "loop" => Sources = {}

\* The client of the encoders is the source there is, or will be.
Clients ==
  /\ encoder_clients = (IF main.pc = "construct" THEN {main.obj} ELSE Sources)
  /\ threadLaunched <=> encoder_clients # {}

\* The device of the channel is its source; the trigger outlives it.
Devices ==
  \A c \in Channels :
    /\ \A o \in Sources : vLiveSource[c] = o
    /\ Sources = {} => vLiveSource[c] = NULL
    /\ c \in registered <=> Sources # {} \/ main.pc \in {"join", "reclaim"}

\* The encoder threads exist while they are launched and until they are joined.
Encoders ==
  \A c \in Channels :
    /\ encoder[c] = "none" <=> ~threadLaunched /\ main.pc # "join"
    /\ encoder[c] = "none" => queue[c] = 0
    /\ encoder[c] = "trigger" => c \in registered
    /\ encoder[c] # "trigger" => ourDevice[c] = NULL

\* An event that is pending, or about to be, while the event loop runs is for
\* the source there is.
Events ==
  \A c \in Channels :
    /\ main.pc \in {"loop", "construct"} => pending[c] \in Sources \cup {None}
    /\ main.pc = "loop" /\ encoder[c] = "trigger" => ourDevice[c] \in Sources

IInv ==
  TypeOK /\ MainOK /\ OneSource /\ Clients /\ Devices /\ Encoders /\ Events /\ NoEventLost
-----------------------------------------------------------------------------
\* What the live555 thread may have in hand.
LEMMA MainFields ==
  ASSUME MainOK
  PROVE  /\ main.pc \in {"loop", "construct", "join", "reclaim"}
         /\ main.pc = "loop" <=> main = Loop
         /\ main.pc # "loop" => /\ main.obj \in Objects
                                /\ main.chan \in Channels
                                /\ main = [pc |-> main.pc, obj |-> main.obj, chan |-> main.chan]
BY DEF MainOK, Loop

\* With one channel the first source finds no other, and the last is the only one.
LEMMA References ==
  ASSUME OneChannel, TypeOK, OneSource
  PROVE  /\ \A c \in Channels : Free(c) => Sources = {}
         /\ Sources = {} => referenceCount = 0
         /\ \A o \in Sources : Sources = {o} /\ referenceCount = 1
<1>1. \A c \in Channels : Free(c) => Sources = {}
  BY DEF OneChannel, Free, TypeOK
<1>2. Sources = {} => referenceCount = 0
  BY FS_EmptySet DEF referenceCount
<1>3. ASSUME NEW o \in Sources
      PROVE  Sources = {o} /\ referenceCount = 1
  <2>1. Sources = {o}
    BY DEF OneSource
  <2> QED BY <2>1, FS_Singleton DEF referenceCount
<1> QED BY <1>1, <1>2, <1>3

\* Every step keeps the invariant.
LEMMA Step ==
  ASSUME OneChannel, IInv, [Next]_vars
  PROVE  IInv'
<1>1. ASSUME NEW o \in Objects, NEW c \in Channels, Construct(o, c)
      PROVE  IInv'
  <2>1. Sources = {} /\ referenceCount = 0
    BY <1>1, References DEF IInv, Construct
  <2>2. TypeOK'
    BY LiveServerAssumption, MainFields, <1>1, <2>1 DEF Construct, Free, IInv, OneChannel, TypeOK, MainOK, OneSource, Clients, Devices, Encoders, Events, NoEventLost, InLoop, Loop, Sources, encvars, srcvars
  <2>3. MainOK'
    BY LiveServerAssumption, MainFields, <1>1, <2>1 DEF Construct, Free, IInv, OneChannel, TypeOK, MainOK, OneSource, Clients, Devices, Encoders, Events, NoEventLost, InLoop, Loop, Sources, encvars, srcvars
  <2>4. OneSource' /\ Clients'
    BY LiveServerAssumption, MainFields, <1>1, <2>1 DEF Construct, Free, IInv, OneChannel, TypeOK, MainOK, OneSource, Clients, Devices, Encoders, Events, NoEventLost, InLoop, Loop, Sources, encvars, srcvars
  <2>5. Devices' /\ Encoders'
    BY LiveServerAssumption, MainFields, <1>1, <2>1 DEF Construct, Free, IInv, OneChannel, TypeOK, MainOK, OneSource, Clients, Devices, Encoders, Events, NoEventLost, InLoop, Loop, Sources, encvars, srcvars
  <2>6. Events' /\ NoEventLost'
    BY LiveServerAssumption, MainFields, <1>1, <2>1 DEF Construct, Free, IInv, OneChannel, TypeOK, MainOK, OneSource, Clients, Devices, Encoders, Events, NoEventLost, InLoop, Loop, Sources, encvars, srcvars
  <2> QED BY <2>2, <2>3, <2>4, <2>5, <2>6 DEF IInv
<1>2. CASE Install
  <2>1. TypeOK'
    BY LiveServerAssumption, MainFields, <1>2 DEF Install, IInv, OneChannel, TypeOK, MainOK, OneSource, Clients, Devices, Encoders, Events, NoEventLost, InLoop, Loop, Sources, encvars, srcvars
  <2>2. MainOK' /\ OneSource'
    BY LiveServerAssumption, MainFields, <1>2 DEF Install, IInv, OneChannel, TypeOK, MainOK, OneSource, Clients, Devices, Encoders, Events, NoEventLost, InLoop, Loop, Sources, encvars, srcvars
  <2>3. Clients' /\ Devices'
    BY LiveServerAssumption, MainFields, <1>2 DEF Install, IInv, OneChannel, TypeOK, MainOK, OneSource, Clients, Devices, Encoders, Events, NoEventLost, InLoop, Loop, Sources, encvars, srcvars
  <2>4. Encoders' /\ Events'
    BY LiveServerAssumption, MainFields, <1>2 DEF Install, IInv, OneChannel, TypeOK, MainOK, OneSource, Clients, Devices, Encoders, Events, NoEventLost, InLoop, Loop, Sources, encvars, srcvars
  <2>5. NoEventLost'
    BY LiveServerAssumption, MainFields, <1>2 DEF Install, IInv, OneChannel, TypeOK, MainOK, OneSource, Clients, Devices, Encoders, Events, NoEventLost, InLoop, Loop, Sources, encvars, srcvars
  <2> QED BY <2>1, <2>2, <2>3, <2>4, <2>5 DEF IInv
<1>3. ASSUME NEW o \in Objects, Destroy(o)
      PROVE  IInv'
  <2>1. main = Loop /\ main.pc = "loop"
    BY <1>3 DEF Destroy, InLoop, Loop
  <2>2. Sources = {o} /\ ~(referenceCount > 1)
    BY <1>3, References DEF IInv, Destroy
  <2>3. encoder_clients = {o}
    BY <2>1, <2>2 DEF IInv, Clients
  <2>4. Sources' = {}
    BY <1>3, <2>2 DEF Destroy, Sources
  <2>5. alive' \in [Sources' -> Channels]
    <3>1. alive' = [p \in {} |-> alive[p]]
      BY <1>3, <2>2 DEF Destroy
    <3> QED BY <2>4, <3>1
  <2>6. /\ awaiting' = {} /\ encoder_clients' = {} /\ threadLaunched' = FALSE
        /\ main'.pc = "join"
        /\ registered' = registered /\ pending' = pending /\ encoder' = encoder
        /\ ourDevice' = ourDevice /\ queue' = queue
    BY <1>3, <2>2, <2>3 DEF Destroy, IInv, TypeOK, encvars
  <2>7. vLiveSource' \in [Channels -> Objects \cup {NULL}]
    BY <1>3 DEF Destroy, IInv, TypeOK
  <2>8. TypeOK'
    BY <2>4, <2>5, <2>6, <2>7 DEF IInv, TypeOK
  <2>9. MainOK' /\ OneSource' /\ Clients'
    BY LiveServerAssumption, MainFields, <1>3, <2>1, <2>2, <2>3, <2>4, <2>5 DEF Destroy, IInv, OneChannel, TypeOK, MainOK, OneSource, Clients, Devices, Encoders, Events, NoEventLost, InLoop, Loop, Sources, encvars, srcvars
  <2>10. Devices'
    BY LiveServerAssumption, MainFields, <1>3, <2>1, <2>2, <2>3, <2>4, <2>5 DEF Destroy, IInv, OneChannel, TypeOK, MainOK, OneSource, Clients, Devices, Encoders, Events, NoEventLost, InLoop, Loop, Sources, encvars, srcvars
  <2>11. Encoders' /\ Events'
    BY LiveServerAssumption, MainFields, <1>3, <2>1, <2>2, <2>3, <2>4, <2>5 DEF Destroy, IInv, OneChannel, TypeOK, MainOK, OneSource, Clients, Devices, Encoders, Events, NoEventLost, InLoop, Loop, Sources, encvars, srcvars
  <2>12. NoEventLost'
    BY LiveServerAssumption, MainFields, <1>3, <2>1, <2>2, <2>3, <2>4, <2>5 DEF Destroy, IInv, OneChannel, TypeOK, MainOK, OneSource, Clients, Devices, Encoders, Events, NoEventLost, InLoop, Loop, Sources, encvars, srcvars
  <2> QED BY <2>8, <2>9, <2>10, <2>11, <2>12 DEF IInv
<1>4. ASSUME NEW o \in Objects, GetNextFrame(o)
      PROVE  IInv'
  <2>1. TypeOK'
    BY LiveServerAssumption, MainFields, <1>4 DEF GetNextFrame, Deliver, IInv, OneChannel, TypeOK, MainOK, OneSource, Clients, Devices, Encoders, Events, NoEventLost, InLoop, Loop, Sources, encvars, srcvars
  <2>2. MainOK' /\ OneSource' /\ Clients' /\ Devices' /\ Events'
    BY LiveServerAssumption, MainFields, <1>4 DEF GetNextFrame, Deliver, IInv, OneChannel, TypeOK, MainOK, OneSource, Clients, Devices, Encoders, Events, NoEventLost, InLoop, Loop, Sources, encvars, srcvars
  <2>3. Encoders'
    BY LiveServerAssumption, MainFields, <1>4 DEF GetNextFrame, Deliver, IInv, OneChannel, TypeOK, MainOK, OneSource, Clients, Devices, Encoders, Events, NoEventLost, InLoop, Loop, Sources, encvars, srcvars
  <2>4. NoEventLost'
    BY LiveServerAssumption, MainFields, <1>4 DEF GetNextFrame, Deliver, IInv, OneChannel, TypeOK, MainOK, OneSource, Clients, Devices, Encoders, Events, NoEventLost, InLoop, Loop, Sources, encvars, srcvars
  <2> QED BY <2>1, <2>2, <2>3, <2>4 DEF IInv
<1>5. CASE JoinEncoders
  <2>1. TypeOK'
    BY LiveServerAssumption, MainFields, <1>5 DEF JoinEncoders, EmptyQueues, IInv, OneChannel, TypeOK, MainOK, OneSource, Clients, Devices, Encoders, Events, NoEventLost, InLoop, Loop, Sources, encvars, srcvars
  <2>2. MainOK' /\ OneSource' /\ Clients'
    BY LiveServerAssumption, MainFields, <1>5 DEF JoinEncoders, EmptyQueues, IInv, OneChannel, TypeOK, MainOK, OneSource, Clients, Devices, Encoders, Events, NoEventLost, InLoop, Loop, Sources, encvars, srcvars
  <2>3. Devices'
    BY LiveServerAssumption, MainFields, <1>5 DEF JoinEncoders, EmptyQueues, IInv, OneChannel, TypeOK, MainOK, OneSource, Clients, Devices, Encoders, Events, NoEventLost, InLoop, Loop, Sources, encvars, srcvars
  <2>4. Encoders'
    BY LiveServerAssumption, MainFields, <1>5 DEF JoinEncoders, EmptyQueues, IInv, OneChannel, TypeOK, MainOK, OneSource, Clients, Devices, Encoders, Events, NoEventLost, InLoop, Loop, Sources, encvars, srcvars
  <2>5. Events' /\ NoEventLost'
    BY LiveServerAssumption, MainFields, <1>5 DEF JoinEncoders, EmptyQueues, IInv, OneChannel, TypeOK, MainOK, OneSource, Clients, Devices, Encoders, Events, NoEventLost, InLoop, Loop, Sources, encvars, srcvars
  <2> QED BY <2>1, <2>2, <2>3, <2>4, <2>5 DEF IInv
<1>6. CASE Reclaim
  <2>1. TypeOK'
    BY LiveServerAssumption, MainFields, <1>6 DEF Reclaim, IInv, OneChannel, TypeOK, MainOK, OneSource, Clients, Devices, Encoders, Events, NoEventLost, InLoop, Loop, Sources, encvars, srcvars
  <2>2. MainOK' /\ OneSource' /\ Clients'
    BY LiveServerAssumption, MainFields, <1>6 DEF Reclaim, IInv, OneChannel, TypeOK, MainOK, OneSource, Clients, Devices, Encoders, Events, NoEventLost, InLoop, Loop, Sources, encvars, srcvars
  <2>3. Devices'
    BY LiveServerAssumption, MainFields, <1>6 DEF Reclaim, IInv, OneChannel, TypeOK, MainOK, OneSource, Clients, Devices, Encoders, Events, NoEventLost, InLoop, Loop, Sources, encvars, srcvars
  <2>4. Encoders'
    BY LiveServerAssumption, MainFields, <1>6 DEF Reclaim, IInv, OneChannel, TypeOK, MainOK, OneSource, Clients, Devices, Encoders, Events, NoEventLost, InLoop, Loop, Sources, encvars, srcvars
  <2>5. Events' /\ NoEventLost'
    BY LiveServerAssumption, MainFields, <1>6 DEF Reclaim, IInv, OneChannel, TypeOK, MainOK, OneSource, Clients, Devices, Encoders, Events, NoEventLost, InLoop, Loop, Sources, encvars, srcvars
  <2> QED BY <2>1, <2>2, <2>3, <2>4, <2>5 DEF IInv
<1>7. ASSUME NEW c \in Channels, HandleEvent(c)
      PROVE  IInv'
  <2>1. TypeOK'
    BY LiveServerAssumption, MainFields, <1>7 DEF HandleEvent, Deliver, IInv, OneChannel, TypeOK, MainOK, OneSource, Clients, Devices, Encoders, Events, NoEventLost, InLoop, Loop, Sources, encvars, srcvars
  <2>2. MainOK' /\ OneSource' /\ Clients' /\ Devices'
    BY LiveServerAssumption, MainFields, <1>7 DEF HandleEvent, Deliver, IInv, OneChannel, TypeOK, MainOK, OneSource, Clients, Devices, Encoders, Events, NoEventLost, InLoop, Loop, Sources, encvars, srcvars
  <2>3. Encoders' /\ Events'
    BY LiveServerAssumption, MainFields, <1>7 DEF HandleEvent, Deliver, IInv, OneChannel, TypeOK, MainOK, OneSource, Clients, Devices, Encoders, Events, NoEventLost, InLoop, Loop, Sources, encvars, srcvars
  <2>4. NoEventLost'
    BY LiveServerAssumption, MainFields, <1>7 DEF HandleEvent, Deliver, IInv, OneChannel, TypeOK, MainOK, OneSource, Clients, Devices, Encoders, Events, NoEventLost, InLoop, Loop, Sources, encvars, srcvars
  <2> QED BY <2>1, <2>2, <2>3, <2>4 DEF IInv
<1>8. ASSUME NEW c \in Channels, EncoderCheck(c)
      PROVE  IInv'
  <2>1. TypeOK'
    BY LiveServerAssumption, MainFields, <1>8 DEF EncoderCheck, EncoderGoto, IInv, OneChannel, TypeOK, MainOK, OneSource, Clients, Devices, Encoders, Events, NoEventLost, InLoop, Loop, Sources, encvars, srcvars
  <2>2. MainOK' /\ OneSource' /\ Clients' /\ Devices'
    BY LiveServerAssumption, MainFields, <1>8 DEF EncoderCheck, EncoderGoto, IInv, OneChannel, TypeOK, MainOK, OneSource, Clients, Devices, Encoders, Events, NoEventLost, InLoop, Loop, Sources, encvars, srcvars
  <2>3. Encoders' /\ Events'
    BY LiveServerAssumption, MainFields, <1>8 DEF EncoderCheck, EncoderGoto, IInv, OneChannel, TypeOK, MainOK, OneSource, Clients, Devices, Encoders, Events, NoEventLost, InLoop, Loop, Sources, encvars, srcvars
  <2>4. NoEventLost'
    BY LiveServerAssumption, MainFields, <1>8 DEF EncoderCheck, EncoderGoto, IInv, OneChannel, TypeOK, MainOK, OneSource, Clients, Devices, Encoders, Events, NoEventLost, InLoop, Loop, Sources, encvars, srcvars
  <2> QED BY <2>1, <2>2, <2>3, <2>4 DEF IInv
<1>9. ASSUME NEW c \in Channels, EncoderAppend(c)
      PROVE  IInv'
  <2>1. TypeOK'
    BY LiveServerAssumption, MainFields, <1>9 DEF EncoderAppend, EncoderGoto, HasRoom, IInv, OneChannel, TypeOK, MainOK, OneSource, Clients, Devices, Encoders, Events, NoEventLost, InLoop, Loop, Sources, encvars, srcvars
  <2>2. MainOK' /\ OneSource' /\ Clients' /\ Devices'
    BY LiveServerAssumption, MainFields, <1>9 DEF EncoderAppend, EncoderGoto, HasRoom, IInv, OneChannel, TypeOK, MainOK, OneSource, Clients, Devices, Encoders, Events, NoEventLost, InLoop, Loop, Sources, encvars, srcvars
  <2>3. Encoders' /\ Events'
    BY LiveServerAssumption, MainFields, <1>9 DEF EncoderAppend, EncoderGoto, HasRoom, IInv, OneChannel, TypeOK, MainOK, OneSource, Clients, Devices, Encoders, Events, NoEventLost, InLoop, Loop, Sources, encvars, srcvars
  <2>4. NoEventLost'
    BY LiveServerAssumption, MainFields, <1>9 DEF EncoderAppend, EncoderGoto, HasRoom, IInv, OneChannel, TypeOK, MainOK, OneSource, Clients, Devices, Encoders, Events, NoEventLost, InLoop, Loop, Sources, encvars, srcvars
  <2> QED BY <2>1, <2>2, <2>3, <2>4 DEF IInv
<1>10. ASSUME NEW c \in Channels, EncoderFails(c)
      PROVE  IInv'
  <2>1. TypeOK'
    BY LiveServerAssumption, MainFields, <1>10 DEF EncoderFails, EncoderGoto, IInv, OneChannel, TypeOK, MainOK, OneSource, Clients, Devices, Encoders, Events, NoEventLost, InLoop, Loop, Sources, encvars, srcvars
  <2>2. MainOK' /\ OneSource' /\ Clients' /\ Devices'
    BY LiveServerAssumption, MainFields, <1>10 DEF EncoderFails, EncoderGoto, IInv, OneChannel, TypeOK, MainOK, OneSource, Clients, Devices, Encoders, Events, NoEventLost, InLoop, Loop, Sources, encvars, srcvars
  <2>3. Encoders' /\ Events'
    BY LiveServerAssumption, MainFields, <1>10 DEF EncoderFails, EncoderGoto, IInv, OneChannel, TypeOK, MainOK, OneSource, Clients, Devices, Encoders, Events, NoEventLost, InLoop, Loop, Sources, encvars, srcvars
  <2>4. NoEventLost'
    BY LiveServerAssumption, MainFields, <1>10 DEF EncoderFails, EncoderGoto, IInv, OneChannel, TypeOK, MainOK, OneSource, Clients, Devices, Encoders, Events, NoEventLost, InLoop, Loop, Sources, encvars, srcvars
  <2> QED BY <2>1, <2>2, <2>3, <2>4 DEF IInv
<1>11. ASSUME NEW c \in Channels, ReadDevice(c)
      PROVE  IInv'
  <2>1. TypeOK'
    BY LiveServerAssumption, MainFields, <1>11 DEF ReadDevice, EncoderGoto, IInv, OneChannel, TypeOK, MainOK, OneSource, Clients, Devices, Encoders, Events, NoEventLost, InLoop, Loop, Sources, encvars, srcvars
  <2>2. MainOK' /\ OneSource' /\ Clients' /\ Devices'
    BY LiveServerAssumption, MainFields, <1>11 DEF ReadDevice, EncoderGoto, IInv, OneChannel, TypeOK, MainOK, OneSource, Clients, Devices, Encoders, Events, NoEventLost, InLoop, Loop, Sources, encvars, srcvars
  <2>3. Encoders' /\ Events'
    BY LiveServerAssumption, MainFields, <1>11 DEF ReadDevice, EncoderGoto, IInv, OneChannel, TypeOK, MainOK, OneSource, Clients, Devices, Encoders, Events, NoEventLost, InLoop, Loop, Sources, encvars, srcvars
  <2>4. NoEventLost'
    BY LiveServerAssumption, MainFields, <1>11 DEF ReadDevice, EncoderGoto, IInv, OneChannel, TypeOK, MainOK, OneSource, Clients, Devices, Encoders, Events, NoEventLost, InLoop, Loop, Sources, encvars, srcvars
  <2> QED BY <2>1, <2>2, <2>3, <2>4 DEF IInv
<1>12. ASSUME NEW c \in Channels, TriggerEvent(c)
      PROVE  IInv'
  <2>1. TypeOK'
    BY LiveServerAssumption, MainFields, <1>12 DEF TriggerEvent, EncoderGoto, IInv, OneChannel, TypeOK, MainOK, OneSource, Clients, Devices, Encoders, Events, NoEventLost, InLoop, Loop, Sources, encvars, srcvars
  <2>2. MainOK' /\ OneSource' /\ Clients' /\ Devices'
    BY LiveServerAssumption, MainFields, <1>12 DEF TriggerEvent, EncoderGoto, IInv, OneChannel, TypeOK, MainOK, OneSource, Clients, Devices, Encoders, Events, NoEventLost, InLoop, Loop, Sources, encvars, srcvars
  <2>3. Encoders' /\ Events'
    BY LiveServerAssumption, MainFields, <1>12 DEF TriggerEvent, EncoderGoto, IInv, OneChannel, TypeOK, MainOK, OneSource, Clients, Devices, Encoders, Events, NoEventLost, InLoop, Loop, Sources, encvars, srcvars
  <2>4. NoEventLost'
    BY LiveServerAssumption, MainFields, <1>12 DEF TriggerEvent, EncoderGoto, IInv, OneChannel, TypeOK, MainOK, OneSource, Clients, Devices, Encoders, Events, NoEventLost, InLoop, Loop, Sources, encvars, srcvars
  <2> QED BY <2>1, <2>2, <2>3, <2>4 DEF IInv
<1>13. CASE UNCHANGED vars
  <2>1. TypeOK' /\ MainOK' /\ OneSource' /\ Clients' /\ Devices' /\ Encoders' /\ Events' /\ NoEventLost'
    BY LiveServerAssumption, MainFields, <1>13 DEF vars, IInv, OneChannel, TypeOK, MainOK, OneSource, Clients, Devices, Encoders, Events, NoEventLost, InLoop, Loop, Sources, encvars, srcvars
  <2> QED BY <2>1 DEF IInv
<1> QED BY <1>1, <1>2, <1>3, <1>4, <1>5, <1>6, <1>7, <1>8, <1>9, <1>10, <1>11, <1>12, <1>13 DEF Next, EncoderStep

\* The invariant holds in every state.
THEOREM Invariance ==
  ASSUME OneChannel
  PROVE  Spec => []IInv
<1>1. Init => IInv
  <2> SUFFICES ASSUME Init PROVE IInv
    OBVIOUS
  <2>1. Sources = {} /\ main.pc = "loop"
    BY DEF Init, Sources, Loop
  <2>2. alive \in [Sources -> Channels]
    <3>1. alive = [o \in {} |-> NULL]
      BY DEF Init
    <3> QED BY <2>1, <3>1
  <2>3. /\ awaiting = {} /\ registered = {} /\ encoder_clients = {} /\ threadLaunched = FALSE
        /\ vLiveSource \in [Channels -> Objects \cup {NULL}]
        /\ pending \in [Channels -> Objects \cup {NULL, None}]
        /\ ourDevice \in [Channels -> Objects \cup {NULL}]
    BY DEF Init
  <2>4. /\ encoder \in [Channels -> {"none", "run", "append", "notify", "trigger", "exited"}]
        /\ queue \in [Channels -> 0..QueueSize]
    BY LiveServerAssumption DEF Init
  <2>5. TypeOK
    BY <2>2, <2>1, <2>3, <2>4 DEF TypeOK
  <2>6. MainOK /\ OneSource
    BY <2>1 DEF Init, Loop, MainOK, OneSource
  <2>7. Clients /\ Devices /\ Encoders /\ Events /\ NoEventLost
    BY LiveServerAssumption, <2>1 DEF Init, Clients, Devices, Encoders, Events, NoEventLost
  <2> QED BY <2>5, <2>6, <2>7 DEF IInv
<1>2. IInv /\ [Next]_vars => IInv'
  BY Step
<1> QED BY <1>1, <1>2, PTL DEF Spec

\* No event ever reaches a source that is gone, whatever the encoder thread
\* does while signalNewVideoFrameData and the destructor overlap.
THEOREM EventsReachDevice ==
  ASSUME OneChannel
  PROVE  Spec => []EventsHaveDevice
<1>1. IInv => EventsHaveDevice
  BY DEF IInv, MainOK, EventsHaveDevice
<1> QED BY <1>1, Invariance, PTL

\* The encoders stop with the last source and leave no packet to the next.
THEOREM NextSessionStartsEmpty ==
  ASSUME OneChannel
  PROVE  Spec => []QueuesEmptied
<1>1. IInv => QueuesEmptied
  BY DEF IInv, InLoop, Loop, Clients, Encoders, QueuesEmptied, EncodersFollowSources
<1> QED BY <1>1, Invariance, PTL

\* A reader never waits for a packet that is there and that no event announces.
THEOREM EventsKept ==
  ASSUME OneChannel
  PROVE  Spec => []NoEventLost
<1>1. IInv => NoEventLost
  BY DEF IInv
<1> QED BY <1>1, Invariance, PTL
=============================================================================
