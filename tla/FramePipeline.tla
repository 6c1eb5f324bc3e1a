--------------------------- MODULE FramePipeline ---------------------------
(***************************************************************************)
(* The video path of the server, one channel of it: the capture thread of  *)
(* vsource-desktop stores frames in the source pipe, the thread of         *)
(* filter-rgb2yuv converts them into the filter's pipe, and the thread of  *)
(* encoder-x264 encodes them.  The encoder thread lives while the server   *)
(* has a client: core/encoder-common.cpp launches and joins it, and the    *)
(* capture thread pauses without it, while both pipes keep what they hold. *)
(***************************************************************************)
EXTENDS Naturals, Sequences, FiniteSets

CONSTANTS
  SrcBuffers,  \* the pool of the source pipe
  DstBuffers,  \* the pool of the filter's pipe
  NoBuffer,    \* NULL
  Capture, Filter, Encoder,  \* the three threads
  MaxFrames,   \* bound of the model: how many frames are captured
  MaxSessions  \* bound of the model: how often an encoder is launched

\* Each pool has a buffer for the writer besides the one that is read: POOLSIZE
\* and VIDEO_SOURCE_POOLSIZE are 8.
ASSUME FramePipelineAssumption ==
  /\ IsFiniteSet(SrcBuffers) /\ Cardinality(SrcBuffers) > 1
  /\ IsFiniteSet(DstBuffers) /\ Cardinality(DstBuffers) > 1
  /\ NoBuffer \notin SrcBuffers \cup DstBuffers
  /\ Capture # Filter /\ Filter # Encoder
  /\ MaxFrames \in Nat /\ MaxSessions \in Nat

VARIABLES
  srcIn, srcOut, srcFrame, srcHeld, srcPc, srcStored, srcLast,
  dstIn, dstOut, dstFrame, dstHeld, dstPc, dstStored, dstLast,
  converted,       \* the frame in the buffer the filter fills
  threadLaunched,  \* of encoder-common.cpp
  encoder,         \* where the encoder thread is in its loop
  server,          \* idle, or joining the encoder thread
  sessions,        \* how many encoder threads have been launched
  encoded          \* the last frame encoded

srcvars == <<srcIn, srcOut, srcFrame, srcHeld, srcPc, srcStored, srcLast>>
dstvars == <<dstIn, dstOut, dstFrame, dstHeld, dstPc, dstStored, dstLast>>
control == <<threadLaunched, encoder, server, sessions>>
vars == <<srcvars, dstvars, converted, control, encoded>>

Src == INSTANCE DPipe
  WITH Buffers <- SrcBuffers, Writers <- {Capture}, Readers <- {Filter},
       Timed <- {}, in <- srcIn, out <- srcOut, frame <- srcFrame,
       held <- srcHeld, pc <- srcPc, stored <- srcStored, last <- srcLast

Dst == INSTANCE DPipe
  WITH Buffers <- DstBuffers, Writers <- {Filter}, Readers <- {Encoder},
       Timed <- {Encoder}, in <- dstIn, out <- dstOut, frame <- dstFrame,
       held <- dstHeld, pc <- dstPc, stored <- dstStored, last <- dstLast

Init ==
  /\ Src!Init /\ Dst!Init
  /\ converted = 0
  /\ threadLaunched = FALSE
  /\ encoder = "none" /\ server = "idle" /\ sessions = 0
  /\ encoded = 0

(***************************************************************************)
(* vsource_threadproc: captures only while an encoder is launched, but     *)
(* finishes the frame it has begun.                                        *)
(***************************************************************************)
CaptureGet ==
  /\ threadLaunched
  /\ Src!MayStart /\ Src!Get(Capture)
  /\ UNCHANGED <<dstvars, converted, control, encoded>>

CaptureStore ==
  /\ Src!Store(Capture, srcStored + 1) \/ Src!Signal(Capture)
  /\ UNCHANGED <<dstvars, converted, control, encoded>>

(***************************************************************************)
(* filter_RGB2YUV_threadproc: loads, gets a buffer to convert into, puts   *)
(* the source buffer back, stores.                                         *)
(***************************************************************************)
FilterLoad ==
  /\ dstPc[Filter] = "idle"
  /\ Src!Read(Filter)
  /\ UNCHANGED <<dstvars, converted, control, encoded>>

FilterWakes ==
  /\ Src!SpuriousWakeup(Filter)
  /\ UNCHANGED <<dstvars, converted, control, encoded>>

FilterGet ==
  /\ srcPc[Filter] = "reading"
  /\ Dst!Get(Filter)
  /\ UNCHANGED <<srcvars, converted, control, encoded>>

FilterConvert ==
  /\ srcPc[Filter] = "reading" /\ dstPc[Filter] = "writing"
  /\ converted' = srcFrame[srcHeld[Filter]]
  /\ Src!Put(Filter)
  /\ UNCHANGED <<dstvars, control, encoded>>

FilterStore ==
  /\ srcPc[Filter] = "idle"
  /\ Dst!Store(Filter, converted) \/ Dst!Signal(Filter)
  /\ UNCHANGED <<srcvars, converted, control, encoded>>

(***************************************************************************)
(* vencoder_threadproc: the condition of its loop, the load with an        *)
(* abstime one second ahead, the encoding.                                 *)
(***************************************************************************)
EncoderCheck ==
  /\ encoder = "check"
  /\ encoder' = IF threadLaunched THEN "load" ELSE "exited"
  /\ UNCHANGED <<srcvars, dstvars, converted, threadLaunched, server, sessions, encoded>>

\* Mutant: a load that timed out is tried again at once.
EncoderLoadsAgain ==
  /\ encoder = "load"
  /\ Dst!Load(Encoder) \/ Dst!Wait(Encoder) \/ Dst!LoadNull(Encoder)
  /\ UNCHANGED <<srcvars, converted, control, encoded>>

EncoderLoad ==
  /\ encoder = "load"
  /\ \/ (Dst!Load(Encoder) \/ Dst!Wait(Encoder)) /\ UNCHANGED encoder
     \/ Dst!LoadNull(Encoder) /\ encoder' = "check"
  /\ UNCHANGED <<srcvars, converted, threadLaunched, server, sessions, encoded>>

EncoderWakes ==
  /\ Dst!TimeOut(Encoder) \/ Dst!SpuriousWakeup(Encoder)
  /\ UNCHANGED <<srcvars, converted, control, encoded>>

\* Mutant: the thread leaves with the buffer.
EncoderKeepsBuffer ==
  /\ dstPc[Encoder] = "reading" /\ encoder = "load"
  /\ \/ Dst!Put(Encoder) /\ encoder' = "check" /\ encoded' = dstFrame[dstHeld[Encoder]]
     \/ encoder' = "exited" /\ UNCHANGED <<dstvars, encoded>>
  /\ UNCHANGED <<srcvars, converted, threadLaunched, server, sessions>>

\* x264_encoder_encode may fail: the thread puts the buffer back and leaves.
EncoderEncode ==
  /\ dstPc[Encoder] = "reading"
  /\ Dst!Put(Encoder)
  /\ \/ encoder' = "check" /\ encoded' = dstFrame[dstHeld[Encoder]]
     \/ encoder' = "exited" /\ UNCHANGED encoded
  /\ UNCHANGED <<srcvars, converted, threadLaunched, server, sessions>>

(***************************************************************************)
(* encoder_register_client with no client so far, and                      *)
(* encoder_unregister_client of the last one, on the server's thread.      *)
(***************************************************************************)
RegisterFirst ==
  /\ server = "idle" /\ ~threadLaunched
  /\ sessions < MaxSessions
  /\ threadLaunched' = TRUE
  /\ encoder' = "check"
  /\ sessions' = sessions + 1
  /\ UNCHANGED <<srcvars, dstvars, converted, server, encoded>>

UnregisterLast ==
  /\ server = "idle" /\ threadLaunched
  /\ threadLaunched' = FALSE
  /\ server' = "joining"
  /\ UNCHANGED <<srcvars, dstvars, converted, encoder, sessions, encoded>>

\* pthread_join in vencoder_stop, then vencoder_deinit.
Join ==
  /\ server = "joining" /\ encoder = "exited"
  /\ server' = "idle" /\ encoder' = "none"
  /\ UNCHANGED <<srcvars, dstvars, converted, threadLaunched, sessions, encoded>>

CaptureStep == CaptureGet \/ CaptureStore
FilterStep == FilterLoad \/ FilterWakes \/ FilterGet \/ FilterConvert \/ FilterStore
EncoderStep == EncoderCheck \/ EncoderLoad \/ EncoderWakes \/ EncoderEncode
ServerStep == RegisterFirst \/ UnregisterLast \/ Join

Next == CaptureStep \/ FilterStep \/ EncoderStep \/ ServerStep

Spec == Init /\ [][Next]_vars

\* Every thread that can run runs; capturing stops at the model's bound, and
\* nothing makes a client come or leave.  A spurious wakeup is never due.
Fairness ==
  /\ WF_vars(CaptureStore)
  /\ WF_vars(FilterLoad) /\ WF_vars(FilterGet \/ FilterConvert \/ FilterStore)
  /\ WF_vars(EncoderCheck) /\ WF_vars(EncoderLoad) /\ WF_vars(EncoderEncode)
  /\ WF_vars(Dst!TimeOut(Encoder) /\ EncoderWakes)
  /\ WF_vars(Join)

FairSpec == Spec /\ Fairness
-----------------------------------------------------------------------------
(***************************************************************************)
(* Properties                                                              *)
(***************************************************************************)
\* The control of the threads stays in its range.
TypeOK ==
  /\ converted \in 0..MaxFrames /\ encoded \in 0..MaxFrames
  /\ threadLaunched \in BOOLEAN
  /\ encoder \in {"none", "check", "load", "exited"}
  /\ server \in {"idle", "joining"}
  /\ sessions \in 0..MaxSessions

\* At most one encoder thread exists: a new session finds the old one joined.
OneEncoder ==
  /\ threadLaunched => encoder # "none" /\ server = "idle"
  /\ encoder = "none" => dstPc[Encoder] = "idle"

\* Whatever sessions come and go, no thread of the path is given NULL for a
\* buffer it then writes to, one encoder thread at most loads from the filter's
\* pipe, and one that is gone took no buffer along.
BuffersSurvive ==
  /\ TypeOK /\ OneEncoder
  /\ srcPc[Capture] # "null" /\ Src!Conserved
  /\ dstPc[Filter] # "null" /\ Dst!Conserved
  /\ encoder \in {"none", "check", "exited"} => dstHeld[Encoder] = NoBuffer

\* Frames are encoded in the order they were captured and none is encoded
\* twice, though both pipes lose frames and keep some of an earlier session.
EncodedInOrder == [][encoded' # encoded => encoded' > encoded]_encoded

\* Unregistering the last client returns: the encoder thread, blocked in
\* dpipe_load or not, sees that it has to stop, and is joined.
StopReturns == server = "joining" ~> server = "idle"

\* The newest frame gets through: when capturing pauses, the last frame reaches
\* the encoder, unless the encoder leaves first.
NewestArrives ==
  (srcStored = MaxFrames)
    ~> (dstLast = MaxFrames \/ ~threadLaunched \/ encoder = "exited")
=============================================================================
