---------------------------- MODULE ClientAudio ----------------------------
(***************************************************************************)
(* The audio path of the client.  The live555 thread puts the packets it   *)
(* receives in a queue (client/rtspclient.cpp), drops the eldest ones when *)
(* they are too many, and asks for the audio device until it is open; the  *)
(* main thread opens it (client/ga-client.cpp); SDL's audio thread then    *)
(* calls audio_buffer_fill_sdl over and over for the same number of        *)
(* samples, and takes packets off the queue and decodes them for that.     *)
(*                                                                         *)
(* Samples are numbered as they come, and a packet is the sequence of its  *)
(* samples.  What the decoder and the device answer is left open.          *)
(***************************************************************************)
EXTENDS Integers, Sequences, FiniteSets, SequencesExt

CONSTANTS
  Limits,     \* what audio-playback-queue-limit may be: 0 is no limit
  Factors,    \* what audio-playback-queue-dropfactor may be
  Chunks,     \* the samples that a packet may have
  Room,       \* abmaxsize, in samples
  Period,     \* the samples that SDL asks for at a time
  MaxSamples  \* bound of the model: how many samples come

ASSUME ClientAudioAssumption ==
  /\ Limits \subseteq Nat /\ Factors \subseteq Nat \ {0}
  /\ Chunks \subseteq Nat \ {0}
  /\ Room \in Nat \ {0} /\ Period \in Nat \ {0} /\ MaxSamples \in Nat

VARIABLES
  limit, factor,  \* packet_queue_limit and packet_queue_dropfactor
  queue,          \* audioq
  received,       \* how many samples have come
  live,           \* where the live555 thread is in play_audio
  requests,       \* how many OPEN_AUDIO events are in SDL's queue
  opened,         \* audioOpened
  devices,        \* how often the device has been opened
  audiobuf,       \* the samples decoded: absize is their number
  abpos,          \* how many of them are played
  avpkt,          \* the packet to decode
  stream,         \* the samples of the period that are filled
  sdl,            \* where SDL's thread is
  rendered,       \* image_rendered
  lost,           \* the samples dropped from the queue, or not decoded
  last            \* the last sample that a finished period took

config == <<limit, factor>>
device == <<requests, opened, devices>>
decoder == <<audiobuf, abpos, avpkt, stream, sdl, last>>
vars == <<config, queue, received, live, device, decoder, rendered, lost>>

Samples(packets) == UNION {ToSet(packets[i]) : i \in DOMAIN packets}

Init ==
  /\ limit \in Limits /\ factor \in Factors
  /\ queue = <<>> /\ received = 0
  /\ live = "idle"
  /\ requests = 0 /\ opened = FALSE /\ devices = 0
  /\ audiobuf = <<>> /\ abpos = 0 /\ avpkt = <<>> /\ stream = <<>>
  /\ sdl = "idle" /\ last = 0
  /\ rendered = FALSE
  /\ lost = {}
-----------------------------------------------------------------------------
(***************************************************************************)
(* play_audio, in the live555 thread: packet_queue_put and                 *)
(* packet_queue_drop are two critical sections.                            *)
(***************************************************************************)
PacketQueuePut(n) ==
  /\ live = "idle"
  /\ received + n <= MaxSamples
  /\ received' = received + n
  /\ queue' = Append(queue, [i \in 1..n |-> received + i])
  /\ live' = "drop"
  /\ UNCHANGED <<config, device, decoder, rendered, lost>>

\* Mutants: dropping leaves no packet; it begins one packet late.
DropAll(size) == IF size > limit /\ limit > 0 THEN size \div factor ELSE 0
DropLate(size) ==
  IF limit > 0 /\ size > limit + 1
  THEN LET n == size \div factor IN IF n = size THEN n - 1 ELSE n
  ELSE 0

\* How many packets are dropped of size: at least one is kept.
Dropped(size) ==
  IF limit > 0 /\ size > limit
  THEN LET n == size \div factor IN IF n = size THEN n - 1 ELSE n
  ELSE 0

PacketQueueDrop ==
  /\ live = "drop"
  /\ LET n == Dropped(Len(queue)) IN
       /\ queue' = SubSeq(queue, n + 1, Len(queue))
       /\ lost' = lost \cup Samples(SubSeq(queue, 1, n))
  /\ live' = "ask"
  /\ UNCHANGED <<config, received, device, decoder, rendered>>

\* audioOpened is read without audioMutex.
PushOpenAudio ==
  /\ live = "ask"
  /\ requests' = IF opened THEN requests ELSE requests + 1
  /\ live' = "idle"
  /\ UNCHANGED <<config, queue, received, opened, devices, decoder, rendered, lost>>
-----------------------------------------------------------------------------
(***************************************************************************)
(* The main thread: open_audio, in the critical section of audioMutex, and *)
(* the first picture.                                                      *)
(***************************************************************************)
OpenAudio ==
  /\ requests > 0
  /\ requests' = requests - 1
  /\ \/ ~opened /\ opened' = TRUE /\ devices' = devices + 1
     \/ UNCHANGED <<opened, devices>>
  /\ UNCHANGED <<config, queue, received, live, decoder, rendered, lost>>

ImageRendered ==
  /\ ~rendered
  /\ rendered' = TRUE
  /\ UNCHANGED <<config, queue, received, live, device, decoder, lost>>
-----------------------------------------------------------------------------
(***************************************************************************)
(* SDL's thread: audio_buffer_fill_sdl and audio_buffer_fill.              *)
(***************************************************************************)
Callback ==
  /\ sdl = "idle" /\ opened
  /\ sdl' = "copy"
  /\ stream' = <<>>
  /\ UNCHANGED <<config, queue, received, live, device, audiobuf, abpos, avpkt, rendered, lost, last>>

Have == Len(audiobuf) - abpos
Want == Period - Len(stream)

\* Mutant: the buffer is not emptied when all of it is copied.
CopyKeeps ==
  /\ sdl = "copy"
  /\ stream' = stream \o SubSeq(audiobuf, abpos + 1, abpos + (IF Have >= Want THEN Want ELSE Have))
  /\ IF Have >= Want
     THEN abpos' = abpos + Want /\ sdl' = "done" /\ UNCHANGED audiobuf
     ELSE abpos' = 0 /\ sdl' = "get" /\ UNCHANGED audiobuf
  /\ UNCHANGED <<config, queue, received, live, device, avpkt, rendered, lost, last>>

\* The buffer fills the period, or it is emptied and more is decoded.
CopySamples ==
  /\ sdl = "copy"
  /\ IF Have >= Want
     THEN /\ stream' = stream \o SubSeq(audiobuf, abpos + 1, abpos + Want)
          /\ abpos' = abpos + Want
          /\ sdl' = "done"
          /\ UNCHANGED audiobuf
     ELSE /\ stream' = stream \o SubSeq(audiobuf, abpos + 1, Len(audiobuf))
          /\ audiobuf' = <<>> /\ abpos' = 0
          /\ sdl' = "get"
  /\ UNCHANGED <<config, queue, received, live, device, avpkt, rendered, lost, last>>

\* packet_queue_get, which does not block.
PacketQueueGet ==
  /\ sdl = "get"
  /\ IF queue = <<>>
     THEN sdl' = "done" /\ UNCHANGED <<queue, avpkt>>
     ELSE sdl' = "decode" /\ avpkt' = Head(queue) /\ queue' = Tail(queue)
  /\ UNCHANGED <<config, received, live, device, audiobuf, abpos, stream, rendered, lost, last>>

\* audio_buffer_decode: the first n samples of the packet come out, cut to the
\* room there is; in error, nothing does and the period ends early.
AudioBufferDecode(n) ==
  /\ sdl = "decode"
  /\ n \in 0..Len(avpkt)
  /\ LET got == SubSeq(avpkt, 1, IF n > Room THEN Room ELSE n) IN
       /\ \/ audiobuf' = got /\ sdl' = "copy"
          \/ n = 0 /\ UNCHANGED audiobuf /\ sdl' = "done"
       /\ lost' = lost \cup (ToSet(avpkt) \ ToSet(got))
  /\ avpkt' = <<>>
  /\ UNCHANGED <<config, queue, received, live, device, abpos, stream, rendered, last>>

\* What is not filled is silence; all of it is, before the first picture.
FinishPeriod ==
  /\ sdl = "done"
  /\ sdl' = "idle"
  /\ last' = IF stream = <<>> THEN last ELSE Last(stream)
  /\ lost' = lost \cup (IF rendered THEN {} ELSE ToSet(stream))
  /\ UNCHANGED <<config, queue, received, live, device, audiobuf, abpos, avpkt, stream, rendered>>

Fill ==
  \/ Callback \/ CopySamples \/ PacketQueueGet
  \/ \E n \in 0..MaxSamples : AudioBufferDecode(n)
  \/ FinishPeriod

Next ==
  \/ \E n \in Chunks : PacketQueuePut(n)
  \/ PacketQueueDrop \/ PushOpenAudio
  \/ OpenAudio \/ ImageRendered
  \/ Fill

Spec == Init /\ [][Next]_vars
-----------------------------------------------------------------------------
(***************************************************************************)
(* Properties                                                              *)
(***************************************************************************)
\* Every variable stays in its range, and the audio device is opened once,
\* though every packet until then asks for it and an opening may fail.
TypeOK ==
  /\ limit \in Limits /\ factor \in Factors
  /\ received \in 0..MaxSamples
  /\ \A i \in 1..Len(queue) : queue[i] \in Seq(1..received) /\ queue[i] # <<>>
  /\ live \in {"idle", "drop", "ask"} /\ sdl \in {"idle", "copy", "get", "decode", "done"}
  /\ requests \in Nat /\ devices = (IF opened THEN 1 ELSE 0)
  /\ sdl # "idle" => opened
  /\ audiobuf \in Seq(1..received) /\ avpkt \in Seq(1..received)
  /\ stream \in Seq(1..received)
  /\ Len(audiobuf) <= Room /\ abpos \in 0..Len(audiobuf)
  /\ Len(stream) <= Period
  /\ rendered \in BOOLEAN
  /\ lost \subseteq 1..received /\ last \in 0..received

\* What is on its way to the device, the eldest first.
Pending ==
  <<IF sdl = "idle" THEN <<>> ELSE stream,
    SubSeq(audiobuf, abpos + 1, Len(audiobuf)), avpkt>> \o queue

\* The device gets the samples in the order they came and none twice, and every
\* sample after the last it got is on its way or was dropped for a reason:
\* abpos, absize and the queue that two threads change agree.
PlayedInOrder ==
  /\ TypeOK
  /\ \A p, q \in DOMAIN Pending : \A i \in DOMAIN Pending[p], j \in DOMAIN Pending[q] :
       /\ last < Pending[p][i]
       /\ (p < q \/ (p = q /\ i < j)) => Pending[p][i] < Pending[q][j]
  /\ \A s \in (last + 1)..received : s \in Samples(Pending) \cup lost

\* A queue with a limit stays within it, or within the drop factor where
\* size / factor is 0 for the first sizes beyond the limit, but for the packet
\* just put.
QueueBounded ==
  limit > 0 =>
    Len(queue) <= (IF factor > limit + 1 THEN factor - 1 ELSE limit)
                    + (IF live = "drop" THEN 1 ELSE 0)

\* packet_queue_drop, "keep at least one" (client/rtspclient.cpp:240): it never
\* drops the packet that came last, whatever limit and factor are and whatever
\* SDL's thread took meanwhile.
DropKeepsNewest ==
  [][live = "drop" /\ live' # live /\ queue # <<>> =>
       queue' # <<>> /\ Last(queue') = Last(queue)]_vars
=============================================================================
