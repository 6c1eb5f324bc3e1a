---------------------------- MODULE ClientVideo ----------------------------
(***************************************************************************)
(* The video path of the client, one channel of it.  The live555 thread    *)
(* (client/rtspclient.cpp) gathers the packets of a picture in a decoder   *)
(* buffer, decodes them and stores the pictures in a pipe of               *)
(* core/dpipe.cpp; the main thread (client/ga-client.cpp) creates the      *)
(* window and its pipe when it is asked to, and renders one picture for    *)
(* each render request.  The two speak through SDL's event queue.          *)
(*                                                                         *)
(* The decoder buffer holds units, numbered as they come; a packet brings  *)
(* some of them.  All pictures have one size.  What the decoder and the    *)
(* clock decide (whether units make a picture, are in error, or are late)  *)
(* is left open.                                                           *)
(***************************************************************************)
EXTENDS Naturals, Sequences, FiniteSets, SequencesExt

CONSTANTS
  Buffers, NoBuffer, \* the pool of the client's pipe, NULL
  Live, Main,        \* the two threads
  Space,             \* PRIVATE_BUFFER_SIZE, in units
  Sizes,             \* the units that a packet may bring
  MaxUnits           \* bound of the model: how many units come

\* The pool has a buffer for each thread: POOLSIZE of ga-client.cpp is 16.
ASSUME ClientVideoAssumption ==
  /\ IsFiniteSet(Buffers) /\ Cardinality(Buffers) > 1 /\ NoBuffer \notin Buffers
  /\ Live # Main
  /\ Space \in Nat \ {0} /\ MaxUnits \in Nat
  /\ Sizes \subseteq 1..MaxUnits

VARIABLES
  in, out, frame, held, pc, stored, loaded, \* the pipe, rtspParam->pipe
  ready,    \* the decoder buffer is allocated
  units,    \* how many units have come
  buffer,   \* privbuf: the units that are not decoded yet
  decoded,  \* the units decoded last
  packet,   \* the packet in play_video that is not copied yet, or NoPacket
  video,    \* where the live555 thread is
  events,   \* SDL's event queue
  main,     \* where the main thread is
  created,  \* how many windows have been created
  surface   \* surface, swsctx and pipe of rtspParam are set

pipe == <<in, out, frame, held, pc, stored, loaded>>
input == <<ready, units, buffer, decoded, packet>>
window == <<created, surface>>
videoVars == <<pipe, input, video, events, main, window>>

P == INSTANCE DPipe
       WITH Writers <- {Live}, Readers <- {Main}, Timed <- {}, MaxFrames <- MaxUnits,
            last <- loaded

NoPacket == [units |-> 0, marker |-> FALSE]
Packets == [units : Sizes, marker : BOOLEAN]

VideoInit ==
  /\ P!Init
  /\ ready = FALSE /\ units = 0 /\ buffer = <<>> /\ decoded = <<>>
  /\ packet = NoPacket
  /\ video = "start" /\ main = "wait"
  /\ events = <<>>
  /\ created = 0 /\ surface = FALSE

-----------------------------------------------------------------------------
(***************************************************************************)
(* The live555 thread: rtsp_thread and play_video.                         *)
(***************************************************************************)
InitDecoderBuffer ==
  /\ video = "start"
  /\ video' = "idle"
  /\ ready' = TRUE /\ buffer' = <<>>
  /\ UNCHANGED <<pipe, units, decoded, packet, events, main, window>>

\* A packet p comes, with a new pts or the one of the packets before it: a new
\* pts has what is in the buffer decoded first.
PlayVideo(p, newPts) ==
  /\ video = "idle"
  /\ units + p.units <= MaxUnits
  /\ packet' = p
  /\ video' = IF newPts /\ buffer # <<>> THEN "play" ELSE "copy"
  /\ UNCHANGED <<pipe, ready, units, buffer, decoded, events, main, window>>

Units == [i \in 1..packet.units |-> units + i]
Fits == Len(buffer) + packet.units <= Space

\* Mutant: as much of a packet as there is room for is copied.
CopyTruncates ==
  /\ video = "copy"
  /\ units' = units + packet.units
  /\ buffer' = IF Fits THEN buffer \o Units ELSE SubSeq(buffer \o Units, 1, Space)
  /\ video' = IF packet.marker \/ ~Fits THEN "play" ELSE "idle"
  /\ packet' = NoPacket
  /\ UNCHANGED <<pipe, ready, decoded, events, main, window>>

\* A packet that does not fit is lost, and what is in the buffer decoded.
Copy ==
  /\ video = "copy"
  /\ units' = units + packet.units
  /\ buffer' = IF Fits THEN buffer \o Units ELSE buffer
  /\ video' = IF packet.marker \/ ~Fits THEN "play" ELSE "idle"
  /\ packet' = NoPacket
  /\ UNCHANGED <<pipe, ready, decoded, events, main, window>>

(***************************************************************************)
(* play_video_priv: the check for a late picture, the loop of the decoder, *)
(* and what it does with a picture.  Units that are late, and those from   *)
(* an error on, stay in the buffer.                                        *)
(***************************************************************************)
Played == IF packet = NoPacket THEN "idle" ELSE "copy"

DropVideoFrame ==
  /\ video = "play"
  /\ video' \in {"decode", Played}
  /\ UNCHANGED <<pipe, input, events, main, window>>

\* n units are decoded, and make a picture or do not.
Decode(n) ==
  /\ video = "decode"
  /\ n \in 1..Len(buffer)
  /\ decoded' = SubSeq(buffer, 1, n)
  /\ buffer' = SubSeq(buffer, n + 1, Len(buffer))
  /\ video' \in {"decode", "picture"}
  /\ UNCHANGED <<pipe, ready, units, packet, events, main, window>>

\* Nothing is left, or it is in error.
LeaveDecode ==
  /\ video = "decode"
  /\ video' = Played
  /\ UNCHANGED <<pipe, input, events, main, window>>

\* The critical section of surfaceMutex: without a window, the picture is
\* skipped and a window asked for.
GotPicture ==
  /\ video = "picture"
  /\ video' = IF surface THEN "get" ELSE "ask"
  /\ UNCHANGED <<pipe, input, events, main, window>>

\* Mutant: an event that is already in the queue is not queued again.
PushOnce(e) == events' = IF Contains(events, e) THEN events ELSE Append(events, e)

Push(e) == events' = Append(events, e)

PushCreateOverlay ==
  /\ video = "ask"
  /\ Push("create")
  /\ video' = "decode"
  /\ UNCHANGED <<pipe, input, main, window>>

\* dpipe_get, whose answer is not looked at, the scaling, and dpipe_store.
GetBuffer ==
  /\ video = "get"
  /\ P!Get(Live)
  /\ video' = "scale"
  /\ UNCHANGED <<input, events, main, window>>

StorePicture ==
  /\ video = "scale"
  /\ P!Store(Live, stored + 1)
  /\ video' = "stored"
  /\ UNCHANGED <<input, events, main, window>>

SignalStored ==
  /\ video = "stored"
  /\ P!Signal(Live)
  /\ video' = "render"
  /\ UNCHANGED <<input, events, main, window>>

PushRenderImage ==
  /\ video = "render"
  /\ Push("render")
  /\ video' = "decode"
  /\ UNCHANGED <<pipe, input, main, window>>

\* The stream ends between two packets: rtsp_thread frees the decoder buffer
\* and then, without surfaceMutex, the pipe, and ends the process.
EndStream ==
  /\ video = "idle"
  /\ video' = "ending"
  /\ ready' = FALSE /\ buffer' = <<>>
  /\ UNCHANGED <<pipe, units, decoded, packet, events, main, window>>

Ended == video \in {"ending", "exited"}

Exit ==
  /\ video = "ending"
  /\ video' = "exited"
  /\ UNCHANGED <<pipe, input, events, main, window>>
-----------------------------------------------------------------------------
(***************************************************************************)
(* The main thread: ProcessEvent, one event at a time.  Once the pipe is   *)
(* being destroyed nothing is said of it.                                  *)
(***************************************************************************)
Take(e) ==
  /\ main = "wait" /\ ~Ended
  /\ events # <<>> /\ Head(events) = e
  /\ events' = Tail(events)

\* create_overlay looks for a window under surfaceMutex, makes window and pipe
\* outside it, and sets them under it.
CreateOverlay ==
  /\ Take("create")
  /\ main' = IF surface THEN "wait" ELSE "create"
  /\ UNCHANGED <<pipe, input, video, window>>

SetOverlay ==
  /\ main = "create" /\ ~Ended
  /\ main' = "wait"
  /\ created' = created + 1 /\ surface' = TRUE
  /\ UNCHANGED <<pipe, input, video, events>>

\* Mutant: a request is skipped when another one is in the queue.
RenderLatest ==
  /\ Take("render")
  /\ \/ ~Contains(Tail(events), "render") /\ P!Load(Main) /\ main' = "render"
     \/ (out = <<>> \/ Contains(Tail(events), "render")) /\ UNCHANGED <<pipe, main>>
  /\ UNCHANGED <<input, video, window>>

\* render_image, with dpipe_load_nowait: an empty pipe is no error.
RenderImage ==
  /\ Take("render")
  /\ P!LoadNowait(Main)
  /\ main' = IF pc'[Main] = "reading" THEN "render" ELSE "wait"
  /\ UNCHANGED <<input, video, window>>

\* Mutant: the buffer is not put back when the texture cannot be locked.
PutIfLocked ==
  /\ main = "render" /\ ~Ended
  /\ main' = "wait"
  /\ \/ P!Put(Main)
     \/ /\ pc' = [pc EXCEPT ![Main] = "idle"]
        /\ held' = [held EXCEPT ![Main] = NoBuffer]
        /\ UNCHANGED <<in, out, frame, stored, loaded>>
  /\ UNCHANGED <<input, video, events, window>>

\* Whether the texture could be locked or not, the buffer goes back.
PutImage ==
  /\ main = "render" /\ ~Ended
  /\ main' = "wait"
  /\ P!Put(Main)
  /\ UNCHANGED <<input, video, events, window>>

Decoding ==
  \/ \E n \in 1..Space : Decode(n)
  \/ LeaveDecode

LiveStep ==
  \/ Copy \/ DropVideoFrame \/ Decoding \/ GotPicture
  \/ PushCreateOverlay
  \/ GetBuffer \/ StorePicture \/ SignalStored \/ PushRenderImage

MainStep == CreateOverlay \/ SetOverlay \/ RenderImage \/ PutImage

VideoNext ==
  \/ InitDecoderBuffer
  \/ \E p \in Packets, newPts \in BOOLEAN : PlayVideo(p, newPts)
  \/ LiveStep
  \/ EndStream \/ Exit
  \/ MainStep

VideoSpec == VideoInit /\ [][VideoNext]_videoVars

\* Each thread goes on with what it has begun; packets need not come.
VideoFairSpec == VideoSpec /\ WF_videoVars(LiveStep) /\ WF_videoVars(MainStep)
-----------------------------------------------------------------------------
(***************************************************************************)
(* Properties                                                              *)
(***************************************************************************)
LivePCs == {"start", "idle", "copy", "play", "decode", "picture", "ask", "get",
            "scale", "stored", "render", "ending", "exited"}

\* Every variable stays in its range; there is one window at most, though every
\* picture that is decoded before it is there asks for one (create_overlay's
\* check), and no picture is stored before it.
VideoTypeOK ==
  /\ ready \in BOOLEAN /\ units \in 0..MaxUnits
  /\ buffer \in Seq(1..MaxUnits) /\ decoded \in Seq(1..MaxUnits)
  /\ packet \in Packets \cup {NoPacket}
  /\ video \in LivePCs /\ main \in {"wait", "create", "render"}
  /\ events \in Seq({"create", "render"})
  /\ created = (IF surface THEN 1 ELSE 0)
  /\ video \in {"get", "scale", "stored", "render"} => surface

\* dpipe_get always has a buffer for the live555 thread, which uses it
\* unlooked, and no buffer is lost or shared, whatever becomes of a rendering.
PoolServes == VideoTypeOK /\ P!Conserved /\ pc[Live] # "null"

Requests == Cardinality({i \in 1..Len(events) : events[i] = "render"})

\* Each picture in the pipe has a render request of its own in the queue, or
\* about to be queued: as a request renders one picture, pictures would
\* otherwise be shown later and later.
RendersCovered ==
  Len(out) <= Requests + Cardinality({s \in {"stored", "render"} : video = s})

Fifo == INSTANCE SampleFifo
          WITH Capacity <- Space, Chunks <- Sizes, MaxFrames <- MaxUnits,
               captured <- units, listening <- ready, queue <- buffer,
               got <- decoded

\* The decoder is given the units in order and once each, over pictures found
\* late, decoding errors and leftovers; packets are lost whole, and only for
\* want of room.
DecodeSpec == Fifo!Spec

\* A stored picture leaves the pipe, rendered or overtaken, though no packet
\* comes after it, unless the stream ends.
PicturesShown ==
  \A n \in 1..MaxUnits :
    (\E i \in 1..Len(out) : frame[out[i]] = n)
      ~> (Ended \/ \A i \in 1..Len(out) : frame[out[i]] # n)
=============================================================================
