---------------------------- MODULE FfmpegServer ----------------------------
(***************************************************************************)
(* The RTSP server of module/server-ffmpeg: a thread for each client, with *)
(* its context on its stack, and the encoder threads, which send a packet  *)
(* to every context that plays.                                            *)
(*                                                                         *)
(* A thread registers its context twice, with the encoders (encoder_lock)  *)
(* and in client_context (cclock), and takes it back in the same order.    *)
(* An encoder thread holds cclock for reading while it sends a packet;     *)
(* over TCP it holds the writer's mutex of the context as well.            *)
(***************************************************************************)
EXTENDS Naturals, FiniteSets

CONSTANTS
  Threads,    \* the places a client thread and its context may have
  Interleaved,\* those whose clients ask for RTP over the RTSP connection
  Fds,        \* the numbers a socket may have
  Channels,   \* the streams, each with its encoder thread
  Nobody      \* no thread, no channel

ASSUME FfmpegServerAssumption ==
  /\ Interleaved \subseteq Threads /\ Fds \subseteq Nat
  /\ Nobody \notin Threads \cup Channels \cup Fds

VARIABLES
  pc,              \* where each client thread is
  fd,              \* ctx.fd
  state,           \* ctx.state
  session,         \* whether ctx.session_id is set
  fmtctx,          \* the channels for which ctx.fmtctx is set
  writer,          \* who holds ctx.rtsp_writer_mutex
  open,            \* the sockets that are open
  cs,              \* the variable of ff_server_main, passed by its address
  encoder_clients, \* of encoder-common.cpp
  threadLaunched,
  encoder_lock,    \* the thread that holds it
  client_context,  \* of server-ffmpeg.cpp
  enc              \* the encoder threads: [pc, ctx, todo]

ctxvars == <<fd, state, session, fmtctx>>
regvars == <<encoder_clients, threadLaunched, encoder_lock>>
vars == <<pc, fd, state, session, fmtctx, writer, open, cs, encoder_clients,
          threadLaunched, encoder_lock, client_context, enc>>

Encoder(s) == [pc |-> s, ctx |-> Nobody, todo |-> {}]
NoEncoder == Encoder("none")

Init ==
  /\ pc = [t \in Threads |-> "none"]
  /\ fd = [t \in Threads |-> Nobody]
  /\ state = [t \in Threads |-> "IDLE"]
  /\ session = [t \in Threads |-> FALSE]
  /\ fmtctx = [t \in Threads |-> {}]
  /\ writer = [t \in Threads |-> Nobody]
  /\ open = {} /\ cs = Nobody
  /\ encoder_clients = {} /\ threadLaunched = FALSE /\ encoder_lock = Nobody
  /\ client_context = {}
  /\ enc = [c \in Channels |-> NoEncoder]

Goto(t, s) == pc' = [pc EXCEPT ![t] = s]

(***************************************************************************)
(* ff_server_main passes the address of cs, which it may have overwritten  *)
(* with the next connection when the thread looks.                         *)
(***************************************************************************)
\* accept gives the lowest number that is free.
Lowest(f) == f \in Fds \ open /\ \A g \in Fds \ open : f <= g

Accept(t, f) ==
  /\ pc[t] = "none" /\ Lowest(f)
  /\ cs' = f /\ open' = open \cup {f}
  /\ Goto(t, "start")
  /\ UNCHANGED <<ctxvars, writer, regvars, client_context, enc>>

Begin(t) ==
  /\ pc[t] = "start"
  /\ fd' = [fd EXCEPT ![t] = cs]
  /\ Goto(t, "serve")
  /\ UNCHANGED <<state, session, fmtctx, writer, open, cs, regvars, client_context, enc>>

(***************************************************************************)
(* The commands.  A SETUP that fails, be it for a second SETUP of the same *)
(* stream, takes the session and the stream back, but not the state.       *)
(***************************************************************************)
\* Mutant: a stream may be set up while the client plays.
MaySetupAlways(t) == TRUE

MaySetup(t) == state[t] \in {"IDLE", "READY"}

Setup(t, c) ==
  /\ pc[t] = "serve" /\ MaySetup(t)
  /\ c \notin fmtctx[t]
  /\ session' = [session EXCEPT ![t] = TRUE]
  /\ fmtctx' = [fmtctx EXCEPT ![t] = @ \cup {c}]
  /\ state' = [state EXCEPT ![t] = "READY"]
  /\ UNCHANGED <<pc, fd, writer, open, cs, regvars, client_context, enc>>

SetupFails(t, c) ==
  /\ pc[t] = "serve" /\ MaySetup(t)
  /\ session' = [session EXCEPT ![t] = FALSE]
  /\ fmtctx' = [fmtctx EXCEPT ![t] = @ \ {c}]
  /\ UNCHANGED <<pc, fd, state, writer, open, cs, regvars, client_context, enc>>

\* PLAY, PAUSE and TEARDOWN compare the id of a session that need not exist.
NoSession(t) ==
  /\ pc[t] = "serve" /\ ~session[t]
  /\ Goto(t, "crash")
  /\ UNCHANGED <<ctxvars, writer, open, cs, regvars, client_context, enc>>

\* PLAY: encoder_register_client, which launches the encoders for the first ...
Play(t) ==
  /\ pc[t] = "serve" /\ session[t]
  /\ state[t] \in {"READY", "PAUSE"}
  /\ encoder_lock = Nobody
  /\ IF encoder_clients = {}
     THEN threadLaunched' = TRUE /\ enc' = [c \in Channels |-> Encoder("run")]
     ELSE UNCHANGED <<threadLaunched, enc>>
  /\ encoder_clients' = encoder_clients \cup {t}
  /\ Goto(t, "play")
  /\ UNCHANGED <<ctxvars, writer, open, cs, encoder_lock, client_context>>

\* A packet is being sent: an encoder thread has cclock.
Sending(c) == enc[c].pc \in {"next", "write", "header", "payload"}
NoneSends == \A c \in Channels : ~Sending(c)

\* ... and the entry in client_context.
PlayContext(t) ==
  /\ pc[t] = "play" /\ NoneSends
  /\ client_context' = client_context \cup {t}
  /\ state' = [state EXCEPT ![t] = "PLAYING"]
  /\ Goto(t, "serve")
  /\ UNCHANGED <<fd, session, fmtctx, writer, open, cs, regvars, enc>>

\* PAUSE changes the state alone: packets are still sent.
Pause(t) ==
  /\ pc[t] = "serve" /\ session[t] /\ state[t] = "PLAYING"
  /\ state' = [state EXCEPT ![t] = "PAUSE"]
  /\ UNCHANGED <<pc, fd, session, fmtctx, writer, open, cs, regvars, client_context, enc>>

\* TEARDOWN, or a connection that fails or ends: the label quit.
Quit(t) ==
  /\ pc[t] = "serve"
  /\ state' = [state EXCEPT ![t] = "TEARDOWN"]
  /\ open' = open \ {fd[t]}
  /\ Goto(t, "unregister")
  /\ UNCHANGED <<fd, session, fmtctx, writer, cs, regvars, client_context, enc>>

\* Mutants: the count is looked at before the client is erased; any client
\* that leaves stops the encoders.
LastBefore(t) == encoder_clients = {}
LastAlways(t) == TRUE

Last(t) == encoder_clients \subseteq {t}

\* encoder_unregister_client, also of a client that never played: the last one
\* joins the encoder threads while it holds encoder_lock.
Unregister(t) ==
  /\ pc[t] = "unregister" /\ encoder_lock = Nobody
  /\ encoder_clients' = encoder_clients \ {t}
  /\ IF Last(t)
     THEN threadLaunched' = FALSE /\ encoder_lock' = t /\ Goto(t, "join")
     ELSE Goto(t, "erase") /\ UNCHANGED <<threadLaunched, encoder_lock>>
  /\ UNCHANGED <<ctxvars, writer, open, cs, client_context, enc>>

Join(t) ==
  /\ pc[t] = "join"
  /\ \A c \in Channels : enc[c].pc \in {"none", "exited"}
  /\ enc' = [c \in Channels |-> NoEncoder]
  /\ encoder_lock' = Nobody
  /\ Goto(t, "erase")
  /\ UNCHANGED <<ctxvars, writer, open, cs, encoder_clients, threadLaunched, client_context>>

\* Mutant: client_context is left alone.
EraseNot(t) ==
  /\ pc[t] = "erase" /\ NoneSends
  /\ Goto(t, "deinit")
  /\ UNCHANGED <<ctxvars, writer, open, cs, regvars, client_context, enc>>

Erase(t) ==
  /\ pc[t] = "erase" /\ NoneSends
  /\ client_context' = client_context \ {t}
  /\ Goto(t, "deinit")
  /\ UNCHANGED <<ctxvars, writer, open, cs, regvars, enc>>

\* per_client_deinit, and the thread's stack goes with its context.
Deinit(t) ==
  /\ pc[t] = "deinit"
  /\ fd' = [fd EXCEPT ![t] = Nobody]
  /\ state' = [state EXCEPT ![t] = "IDLE"]
  /\ session' = [session EXCEPT ![t] = FALSE]
  /\ fmtctx' = [fmtctx EXCEPT ![t] = {}]
  /\ writer' = [writer EXCEPT ![t] = Nobody]
  /\ Goto(t, "none")
  /\ UNCHANGED <<open, cs, regvars, client_context, enc>>

(***************************************************************************)
(* An encoder thread: its loop, and ff_server_send_packet over a snapshot  *)
(* of client_context that no one changes while cclock is held.  A packet   *)
(* goes to a context in one RTP buffer: further ones repeat the same       *)
(* steps.                                                                  *)
(***************************************************************************)
Encode(c, e) ==
  /\ enc' = [enc EXCEPT ![c] = e]
  /\ UNCHANGED <<pc, ctxvars, open, cs, regvars, client_context>>

\* Mutant: the loop does not end.
EncoderRunsOn(c) ==
  /\ enc[c].pc = "run"
  /\ Encode(c, [enc[c] EXCEPT !.pc = "next", !.todo = client_context])
  /\ UNCHANGED writer

EncoderCheck(c) ==
  /\ enc[c].pc = "run"
  /\ IF threadLaunched
     THEN Encode(c, [enc[c] EXCEPT !.pc = "next", !.todo = client_context])
     ELSE Encode(c, Encoder("exited"))
  /\ UNCHANGED writer

\* The next context, if the channel is set up for it; or the packet is sent.
SendTo(c, t) ==
  /\ enc[c].pc = "next" /\ t \in enc[c].todo
  /\ Encode(c, [pc |-> IF c \in fmtctx[t] THEN "write" ELSE "next",
                ctx |-> IF c \in fmtctx[t] THEN t ELSE Nobody,
                todo |-> enc[c].todo \ {t}])
  /\ UNCHANGED writer

SendDone(c) ==
  /\ enc[c].pc = "next" /\ enc[c].todo = {}
  /\ Encode(c, Encoder("run"))
  /\ UNCHANGED writer

NextContext(c) == [enc[c] EXCEPT !.pc = "next", !.ctx = Nobody]

\* rtp_write_bindata, to a socket of its own.
WriteUDP(c) ==
  /\ enc[c].pc = "write" /\ enc[c].ctx \notin Interleaved
  /\ Encode(c, NextContext(c))
  /\ UNCHANGED writer

\* rtsp_write_bindata: the mutex, the header, the payload.
LockWriter(c) ==
  LET t == enc[c].ctx
  IN /\ enc[c].pc = "write" /\ t \in Interleaved
     /\ writer[t] = Nobody
     /\ writer' = [writer EXCEPT ![t] = c]
     /\ Encode(c, [enc[c] EXCEPT !.pc = "header"])

IsOpen(c) == fd[enc[c].ctx] \in open

WriteHeader(c) ==
  /\ enc[c].pc = "header" /\ IsOpen(c)
  /\ Encode(c, [enc[c] EXCEPT !.pc = "payload"])
  /\ UNCHANGED writer

\* A write may fail on an open socket too, when the client is gone.
HeaderFails(c) ==
  /\ enc[c].pc = "header"
  /\ writer' = [writer EXCEPT ![enc[c].ctx] = Nobody]
  /\ Encode(c, NextContext(c))

WritePayload(c) ==
  /\ enc[c].pc = "payload" /\ IsOpen(c)
  /\ writer' = [writer EXCEPT ![enc[c].ctx] = Nobody]
  /\ Encode(c, NextContext(c))

\* The mutex stays locked.
PayloadFails(c) ==
  /\ enc[c].pc = "payload"
  /\ Encode(c, NextContext(c))
  /\ UNCHANGED writer

Write(c) ==
  WriteUDP(c) \/ LockWriter(c) \/ WriteHeader(c) \/ HeaderFails(c)
    \/ WritePayload(c) \/ PayloadFails(c)

Send(c) == (\E t \in Threads : SendTo(c, t)) \/ SendDone(c) \/ Write(c)

Command(t) ==
  \/ \E c \in Channels : Setup(t, c) \/ SetupFails(t, c)
  \/ NoSession(t) \/ Play(t) \/ PlayContext(t) \/ Pause(t) \/ Quit(t)

Leave(t) == Unregister(t) \/ Join(t) \/ Erase(t) \/ Deinit(t)

Crashed == \E t \in Threads : pc[t] = "crash"

Next ==
  /\ ~Crashed
  /\ \/ \E t \in Threads, f \in Fds : Accept(t, f)
     \/ \E t \in Threads : Begin(t) \/ Command(t) \/ Leave(t)
     \/ \E c \in Channels : EncoderCheck(c) \/ Send(c)

Spec == Init /\ [][Next]_vars

\* A writer's mutex that no thread will unlock.
Leaked ==
  \E t \in Threads, c \in Channels :
    writer[t] = c /\ ~(enc[c].ctx = t /\ enc[c].pc \in {"header", "payload"})

\* The threads run and get the locks they wait for.  cclock prefers readers: a
\* writer gets it because a frame or a block of sound takes longer to come than
\* to be sent, so that the encoders do not overlap for ever.
FairSpec ==
  /\ Spec
  /\ \A t \in Threads : SF_vars(PlayContext(t) \/ Leave(t))
  /\ \A c \in Channels : SF_vars(EncoderCheck(c) \/ Send(c))
  /\ []<>(NoneSends \/ Leaked)
-----------------------------------------------------------------------------
(***************************************************************************)
(* Properties                                                              *)
(***************************************************************************)
EncoderPCs == {"none", "run", "next", "write", "header", "payload", "exited"}
EncoderStates ==
  [pc : EncoderPCs, ctx : Threads \cup {Nobody}, todo : SUBSET Threads]

\* Every variable stays in its range.
TypeOK ==
  /\ pc \in [Threads -> {"none", "start", "serve", "play", "unregister",
                         "join", "erase", "deinit", "crash"}]
  /\ fd \in [Threads -> Fds \cup {Nobody}]
  /\ state \in [Threads -> {"IDLE", "READY", "PLAYING", "PAUSE", "TEARDOWN"}]
  /\ session \in [Threads -> BOOLEAN]
  /\ fmtctx \in [Threads -> SUBSET Channels]
  /\ writer \in [Threads -> Channels \cup {Nobody}]
  /\ open \subseteq Fds /\ cs \in Fds \cup {Nobody}
  /\ encoder_clients \subseteq Threads /\ client_context \subseteq Threads
  /\ threadLaunched \in BOOLEAN
  /\ encoder_lock \in Threads \cup {Nobody}
  /\ enc \in [Channels -> EncoderStates]

\* The contexts an encoder thread works with or will come to.
InHand(c) == enc[c].todo \cup ({enc[c].ctx} \ {Nobody})

\* The stream an encoder thread writes to is not taken away under it: SETUP,
\* which frees a stream when it fails, is refused to whoever plays or pauses,
\* and a thread leaves client_context before it frees its streams.
StreamInUse ==
  /\ TypeOK
  /\ \A c \in Channels :
       enc[c].pc \in {"write", "header", "payload"} => c \in fmtctx[enc[c].ctx]

\* No one keeps the address of a context whose thread has ended, though its
\* registrations are taken back one after the other while others play.
NoStaleContext ==
  \A t \in Threads :
    pc[t] \in {"none", "start"} =>
      /\ t \notin encoder_clients \cup client_context
      /\ \A c \in Channels : t \notin InHand(c)

\* While nobody stops them, the encoder threads exist exactly as long as a
\* client plays or pauses, whatever the order in which clients come and go.
EncodersFollowClients ==
  encoder_lock = Nobody =>
    /\ threadLaunched <=> encoder_clients # {}
    /\ \A c \in Channels : enc[c].pc = "none" <=> encoder_clients = {}

\* A client that plays is sent the packets of running encoders, although
\* others leave: "the server-ffmpeg module registered for each connected game
\* clients" (core/encoder-common.cpp:198).
PlayingServed ==
  \A t \in Threads :
    pc[t] = "serve" /\ state[t] \in {"PLAYING", "PAUSE"} =>
      t \in encoder_clients \cap client_context /\ threadLaunched

\* A client's thread ends once it has left its loop, unless a payload could not
\* be written and the mutex it left locked keeps cclock, or the server is gone.
LeaveReturns ==
  \A t \in Threads :
    pc[t] = "unregister" ~> (pc[t] = "deinit" \/ Leaked \/ Crashed)
=============================================================================
