------------------------- MODULE FfmpegServerProofs -------------------------
(***************************************************************************)
(* Proofs about the ffmpeg server, for any number of clients, sockets and  *)
(* channels.  The invariant says at which step of its life a client thread *)
(* is registered with the encoders and in client_context, when the encoder *)
(* threads exist, and that what they have in hand is in client_context.    *)
(***************************************************************************)
EXTENDS FfmpegServer, TLAPS

Plays(t) == state[t] \in {"PLAYING", "PAUSE"}

\* Where a client thread is tells where its context is registered.
Registered ==
  \A t \in Threads :
    /\ pc[t] \in {"none", "start", "erase", "join", "deinit"} => t \notin encoder_clients
    /\ pc[t] \in {"none", "start", "deinit"} => t \notin client_context
    /\ pc[t] \in {"none", "start"} => state[t] = "IDLE"
    /\ pc[t] \in {"serve", "crash"} =>
         /\ t \in encoder_clients <=> Plays(t)
         /\ t \in client_context <=> Plays(t)
    /\ pc[t] = "play" =>
         /\ t \in encoder_clients
         /\ state[t] \in {"READY", "PAUSE"}
         /\ t \in client_context <=> Plays(t)

\* encoder_lock is held while the encoder threads are joined, and no longer.
LockHeld ==
  /\ \A t \in Threads : pc[t] = "join" <=> encoder_lock = t
  /\ encoder_lock # Nobody => encoder_clients = {}

\* The encoder threads run for the clients there are.
EncodersRun ==
  /\ threadLaunched <=> encoder_clients # {}
  /\ \A c \in Channels :
       /\ enc[c].pc = "none" => encoder_clients = {}
       /\ enc[c].pc = "exited" => encoder_clients = {}
       /\ encoder_clients = {} /\ encoder_lock = Nobody => enc[c].pc = "none"

\* An encoder thread works with contexts of client_context only, which is left
\* alone meanwhile, and writes to streams that are set up.
HandKept ==
  \A c \in Channels :
    /\ enc[c].todo \subseteq client_context
    /\ ~Sending(c) => enc[c].todo = {}
    /\ enc[c].pc \in {"write", "header", "payload"} =>
         enc[c].ctx \in client_context /\ c \in fmtctx[enc[c].ctx]
    /\ enc[c].pc \notin {"write", "header", "payload"} => enc[c].ctx = Nobody

IInv == TypeOK /\ Registered /\ LockHeld /\ EncodersRun /\ HandKept

-----------------------------------------------------------------------------
\* What an encoder thread has when it starts, and in the end.
LEMMA EncoderFields ==
  ASSUME NEW s \in EncoderPCs
  PROVE  /\ Encoder(s) \in EncoderStates
         /\ Encoder(s).pc = s /\ Encoder(s).ctx = Nobody /\ Encoder(s).todo = {}
BY DEF Encoder, EncoderStates

\* Every step keeps the invariant.
LEMMA Step ==
  ASSUME TypeOK, Registered, LockHeld, EncodersRun, HandKept, [Next]_vars
  PROVE  IInv'
<1>1. ASSUME NEW t \in Threads, NEW f \in Fds, Accept(t, f)
      PROVE  IInv'
  <2>1. TypeOK'
    BY <1>1 DEF TypeOK, Accept, Goto, ctxvars, regvars
  <2>2. Registered'
    BY <1>1 DEF Registered, Plays, Accept, Goto, ctxvars, regvars
  <2>3. LockHeld'
    BY <1>1 DEF LockHeld, Accept, Goto, regvars
  <2>4. EncodersRun'
    BY <1>1 DEF EncodersRun, Accept, regvars
  <2>5. HandKept'
    BY <1>1 DEF HandKept, Sending, Accept, ctxvars
  <2>6. QED
    BY <2>1, <2>2, <2>3, <2>4, <2>5 DEF IInv
<1>2. ASSUME NEW t \in Threads, Begin(t)
      PROVE  IInv'
  <2>1. TypeOK'
    BY <1>2 DEF TypeOK, Begin, Goto, regvars
  <2>2. Registered'
    BY <1>2 DEF Registered, Plays, Begin, Goto, regvars
  <2>3. LockHeld'
    BY <1>2 DEF LockHeld, Begin, Goto, regvars
  <2>4. EncodersRun'
    BY <1>2 DEF EncodersRun, Begin, regvars
  <2>5. HandKept'
    BY <1>2 DEF HandKept, Sending, Begin
  <2>6. QED
    BY <2>1, <2>2, <2>3, <2>4, <2>5 DEF IInv
<1>3. ASSUME NEW t \in Threads, NEW c \in Channels, Setup(t, c)
      PROVE  IInv'
  <2>1. TypeOK'
    BY <1>3 DEF TypeOK, Setup, regvars
  <2>2. Registered'
    BY <1>3 DEF Registered, Plays, Setup, MaySetup, regvars
  <2>3. LockHeld'
    BY <1>3 DEF LockHeld, Setup, regvars
  <2>4. EncodersRun'
    BY <1>3 DEF EncodersRun, Setup, regvars
  <2>5. HandKept'
    BY <1>3 DEF HandKept, Sending, Setup
  <2>6. QED
    BY <2>1, <2>2, <2>3, <2>4, <2>5 DEF IInv
<1>4. ASSUME NEW t \in Threads, NEW c \in Channels, SetupFails(t, c)
      PROVE  IInv'
  <2>1. TypeOK'
    BY <1>4 DEF TypeOK, SetupFails, regvars
  <2>2. Registered'
    BY <1>4 DEF Registered, Plays, SetupFails, regvars
  <2>3. LockHeld'
    BY <1>4 DEF LockHeld, SetupFails, regvars
  <2>4. EncodersRun'
    BY <1>4 DEF EncodersRun, SetupFails, regvars
  <2>5. HandKept'
    BY <1>4 DEF HandKept, Sending, Registered, Plays, SetupFails, MaySetup
  <2>6. QED
    BY <2>1, <2>2, <2>3, <2>4, <2>5 DEF IInv
<1>5. ASSUME NEW t \in Threads, NoSession(t)
      PROVE  IInv'
  <2>1. TypeOK'
    BY <1>5 DEF TypeOK, NoSession, Goto, ctxvars, regvars
  <2>2. Registered'
    BY <1>5 DEF Registered, Plays, NoSession, Goto, ctxvars, regvars
  <2>3. LockHeld'
    BY <1>5 DEF LockHeld, NoSession, Goto, regvars
  <2>4. EncodersRun'
    BY <1>5 DEF EncodersRun, NoSession, regvars
  <2>5. HandKept'
    BY <1>5 DEF HandKept, Sending, NoSession, ctxvars
  <2>6. QED
    BY <2>1, <2>2, <2>3, <2>4, <2>5 DEF IInv
<1>6. ASSUME NEW t \in Threads, Play(t)
      PROVE  IInv'
  <2>0. /\ Encoder("run") \in EncoderStates
        /\ Encoder("run").pc = "run" /\ Encoder("run").ctx = Nobody /\ Encoder("run").todo = {}
    BY EncoderFields DEF EncoderPCs
  <2>1. TypeOK'
    <3>1. enc' \in [Channels -> EncoderStates] /\ threadLaunched' \in BOOLEAN
      BY <1>6, <2>0 DEF TypeOK, Play
    <3>2. pc' \in [Threads -> {"none", "start", "serve", "play", "unregister",
                              "join", "erase", "deinit", "crash"}]
      BY <1>6 DEF TypeOK, Play, Goto
    <3>3. /\ encoder_clients' \subseteq Threads
          /\ UNCHANGED <<fd, state, session, fmtctx, writer, open, cs, encoder_lock, client_context>>
      BY <1>6 DEF TypeOK, Play, ctxvars
    <3>4. QED
      BY <3>1, <3>2, <3>3 DEF TypeOK
  <2>2. Registered'
    BY <1>6 DEF TypeOK, Registered, Plays, Play, Goto, ctxvars
  <2>3. LockHeld'
    BY <1>6 DEF LockHeld, Play, Goto
  <2>4. EncodersRun'
    BY <1>6, <2>0 DEF EncodersRun, Play
  <2>5. HandKept'
    BY <1>6, <2>0 DEF HandKept, Sending, Play, ctxvars
  <2>6. QED
    BY <2>1, <2>2, <2>3, <2>4, <2>5 DEF IInv
<1>7. ASSUME NEW t \in Threads, PlayContext(t)
      PROVE  IInv'
  <2>1. TypeOK'
    BY <1>7 DEF TypeOK, PlayContext, Goto, regvars
  <2>2. Registered'
    BY <1>7 DEF TypeOK, Registered, Plays, PlayContext, Goto, regvars
  <2>3. LockHeld'
    BY <1>7 DEF LockHeld, PlayContext, Goto, regvars
  <2>4. EncodersRun'
    BY <1>7 DEF EncodersRun, PlayContext, regvars
  <2>5. HandKept'
    BY <1>7 DEF HandKept, PlayContext, NoneSends
  <2>6. QED
    BY <2>1, <2>2, <2>3, <2>4, <2>5 DEF IInv
<1>8. ASSUME NEW t \in Threads, Pause(t)
      PROVE  IInv'
  <2>1. TypeOK'
    BY <1>8 DEF TypeOK, Pause, regvars
  <2>2. Registered'
    BY <1>8 DEF Registered, Plays, Pause, regvars
  <2>3. LockHeld'
    BY <1>8 DEF LockHeld, Pause, regvars
  <2>4. EncodersRun'
    BY <1>8 DEF EncodersRun, Pause, regvars
  <2>5. HandKept'
    BY <1>8 DEF HandKept, Sending, Pause
  <2>6. QED
    BY <2>1, <2>2, <2>3, <2>4, <2>5 DEF IInv
<1>9. ASSUME NEW t \in Threads, Quit(t)
      PROVE  IInv'
  <2>1. TypeOK'
    BY <1>9 DEF TypeOK, Quit, Goto, regvars
  <2>2. Registered'
    BY <1>9 DEF TypeOK, Registered, Plays, Quit, Goto, regvars
  <2>3. LockHeld'
    BY <1>9 DEF LockHeld, Quit, Goto, regvars
  <2>4. EncodersRun'
    BY <1>9 DEF EncodersRun, Quit, regvars
  <2>5. HandKept'
    BY <1>9 DEF HandKept, Sending, Quit
  <2>6. QED
    BY <2>1, <2>2, <2>3, <2>4, <2>5 DEF IInv
<1>10. ASSUME NEW t \in Threads, Unregister(t)
      PROVE  IInv'
  <2>1. TypeOK'
    BY <1>10 DEF TypeOK, Unregister, Goto, ctxvars
  <2>2. Registered'
    BY <1>10 DEF TypeOK, Registered, Plays, Unregister, Goto, ctxvars
  <2>3. LockHeld'
    BY <1>10, FfmpegServerAssumption DEF TypeOK, LockHeld, Unregister, Goto,
       Last
  <2>4. EncodersRun'
    BY <1>10, FfmpegServerAssumption DEF EncodersRun, Unregister, Last
  <2>5. HandKept'
    BY <1>10 DEF HandKept, Sending, Unregister, ctxvars
  <2>6. QED
    BY <2>1, <2>2, <2>3, <2>4, <2>5 DEF IInv
<1>11. ASSUME NEW t \in Threads, Join(t)
      PROVE  IInv'
  <2>0. /\ Encoder("none") \in EncoderStates
        /\ Encoder("none").pc = "none" /\ Encoder("none").ctx = Nobody /\ Encoder("none").todo = {}
    BY EncoderFields DEF EncoderPCs
  <2>1. TypeOK'
    BY <1>11, <2>0 DEF TypeOK, Join, Goto, ctxvars, NoEncoder
  <2>2. Registered'
    BY <1>11 DEF Registered, Plays, Join, Goto, ctxvars
  <2>3. LockHeld'
    BY <1>11, FfmpegServerAssumption DEF TypeOK, LockHeld, Join, Goto
  <2>4. EncodersRun'
    BY <1>11, <2>0 DEF EncodersRun, Join, NoEncoder
  <2>5. HandKept'
    BY <1>11, <2>0 DEF HandKept, Join, NoEncoder
  <2>6. QED
    BY <2>1, <2>2, <2>3, <2>4, <2>5 DEF IInv
<1>12. ASSUME NEW t \in Threads, Erase(t)
      PROVE  IInv'
  <2>1. TypeOK'
    BY <1>12 DEF TypeOK, Erase, Goto, ctxvars, regvars
  <2>2. Registered'
    BY <1>12 DEF Registered, Plays, Erase, Goto, ctxvars, regvars
  <2>3. LockHeld'
    BY <1>12 DEF LockHeld, Erase, Goto, regvars
  <2>4. EncodersRun'
    BY <1>12 DEF EncodersRun, Erase, regvars
  <2>5. HandKept'
    BY <1>12 DEF HandKept, Sending, Erase, NoneSends
  <2>6. QED
    BY <2>1, <2>2, <2>3, <2>4, <2>5 DEF IInv
<1>13. ASSUME NEW t \in Threads, Deinit(t)
      PROVE  IInv'
  <2>1. TypeOK'
    BY <1>13 DEF TypeOK, Deinit, Goto, regvars
  <2>2. Registered'
    BY <1>13 DEF TypeOK, Registered, Plays, Deinit, Goto, regvars
  <2>3. LockHeld'
    BY <1>13 DEF LockHeld, Deinit, Goto, regvars
  <2>4. EncodersRun'
    BY <1>13 DEF EncodersRun, Deinit, regvars
  <2>5. HandKept'
    BY <1>13 DEF HandKept, Sending, Registered, Deinit
  <2>6. QED
    BY <2>1, <2>2, <2>3, <2>4, <2>5 DEF IInv
<1>14. ASSUME NEW c \in Channels, EncoderCheck(c)
      PROVE  IInv'
  <2>1. CASE threadLaunched
    <3>1. /\ UNCHANGED <<pc, fd, state, session, fmtctx, writer, open, cs, encoder_clients,
                        threadLaunched, encoder_lock, client_context>>
          /\ enc' = [enc EXCEPT ![c] = [enc[c] EXCEPT !.pc = "next", !.todo = client_context]]
          /\ enc[c].pc = "run"
      BY <1>14, <2>1 DEF EncoderCheck, Encode, ctxvars, regvars
    <3>2. TypeOK'
      BY <3>1 DEF TypeOK, EncoderStates, EncoderPCs
    <3>3. Registered' /\ LockHeld'
      BY <3>1 DEF Registered, Plays, LockHeld
    <3>4. EncodersRun'
      BY <3>1 DEF EncodersRun
    <3>5. HandKept'
      BY <3>1 DEF HandKept, Sending
    <3>6. QED
      BY <3>2, <3>3, <3>4, <3>5 DEF IInv
  <2>2. CASE ~threadLaunched
    <3>1. /\ UNCHANGED <<pc, fd, state, session, fmtctx, writer, open, cs, encoder_clients,
                        threadLaunched, encoder_lock, client_context>>
          /\ enc' = [enc EXCEPT ![c] = Encoder("exited")]
          /\ enc[c].pc = "run"
      BY <1>14, <2>2 DEF EncoderCheck, Encode, ctxvars, regvars
    <3>2. Encoder("exited") \in EncoderStates
      BY EncoderFields DEF EncoderPCs
    <3>3. /\ enc'[c].pc = "exited" /\ enc'[c].ctx = Nobody /\ enc'[c].todo = {}
          /\ \A d \in Channels : d # c => enc'[d] = enc[d]
      BY <3>1, EncoderFields DEF TypeOK, EncoderPCs
    <3>4. TypeOK'
      BY <3>1, <3>2 DEF TypeOK
    <3>5. Registered' /\ LockHeld'
      BY <3>1 DEF Registered, Plays, LockHeld
    <3>6. EncodersRun'
      <4>1. encoder_clients = {} /\ encoder_lock # Nobody
        BY <2>2, <3>1 DEF EncodersRun
      <4>2. encoder_clients' = {} /\ encoder_lock' # Nobody /\ ~threadLaunched'
        BY <4>1, <2>2, <3>1
      <4>3. QED
        BY <4>2 DEF EncodersRun
    <3>7. HandKept'
      <4>1. ASSUME NEW d \in Channels
            PROVE  /\ enc'[d].todo \subseteq client_context'
                   /\ ~Sending(d)' => enc'[d].todo = {}
                   /\ enc'[d].pc \in {"write", "header", "payload"} =>
                        enc'[d].ctx \in client_context' /\ d \in fmtctx'[enc'[d].ctx]
                   /\ enc'[d].pc \notin {"write", "header", "payload"} => enc'[d].ctx = Nobody
        <5>1. CASE d = c
          BY <5>1, <3>3
        <5>2. CASE d # c
          <6>1. enc'[d] = enc[d] /\ client_context' = client_context /\ fmtctx' = fmtctx
            BY <5>2, <3>1, <3>3
          <6>2. QED
            BY <6>1 DEF HandKept, Sending
        <5>3. QED
          BY <5>1, <5>2
      <4>2. QED
        BY <4>1 DEF HandKept
    <3>8. QED
      BY <3>4, <3>5, <3>6, <3>7 DEF IInv
  <2>3. QED
    BY <2>1, <2>2
<1>15. ASSUME NEW c \in Channels, NEW t \in Threads, SendTo(c, t)
      PROVE  IInv'
  <2>1. TypeOK'
    BY <1>15 DEF TypeOK, EncoderStates, EncoderPCs, SendTo, Encode, ctxvars,
       regvars
  <2>2. Registered'
    BY <1>15 DEF Registered, Plays, SendTo, Encode, ctxvars, regvars
  <2>3. LockHeld'
    BY <1>15 DEF LockHeld, SendTo, Encode, regvars
  <2>4. EncodersRun'
    BY <1>15 DEF EncodersRun, SendTo, Encode, regvars
  <2>5. HandKept'
    BY <1>15 DEF HandKept, Sending, SendTo, Encode, ctxvars
  <2>6. QED
    BY <2>1, <2>2, <2>3, <2>4, <2>5 DEF IInv
<1>16. ASSUME NEW c \in Channels, SendDone(c)
      PROVE  IInv'
  <2>0. /\ Encoder("run") \in EncoderStates
        /\ Encoder("run").pc = "run" /\ Encoder("run").ctx = Nobody /\ Encoder("run").todo = {}
    BY EncoderFields DEF EncoderPCs
  <2>1. TypeOK'
    BY <1>16, <2>0 DEF TypeOK, SendDone, Encode, ctxvars, regvars
  <2>2. Registered'
    BY <1>16 DEF Registered, Plays, SendDone, Encode, ctxvars, regvars
  <2>3. LockHeld'
    BY <1>16 DEF LockHeld, SendDone, Encode, regvars
  <2>4. EncodersRun'
    BY <1>16, <2>0 DEF EncodersRun, SendDone, Encode, regvars
  <2>5. HandKept'
    BY <1>16, <2>0 DEF HandKept, Sending, SendDone, Encode, ctxvars
  <2>6. QED
    BY <2>1, <2>2, <2>3, <2>4, <2>5 DEF IInv
<1>17. ASSUME NEW c \in Channels, WriteUDP(c)
      PROVE  IInv'
  <2>1. TypeOK'
    BY <1>17 DEF TypeOK, EncoderStates, EncoderPCs, WriteUDP, Encode, ctxvars,
       regvars, NextContext
  <2>2. Registered'
    BY <1>17 DEF Registered, Plays, WriteUDP, Encode, ctxvars, regvars
  <2>3. LockHeld'
    BY <1>17 DEF LockHeld, WriteUDP, Encode, regvars
  <2>4. EncodersRun'
    BY <1>17 DEF EncodersRun, WriteUDP, Encode, regvars, NextContext
  <2>5. HandKept'
    BY <1>17 DEF HandKept, Sending, WriteUDP, Encode, ctxvars, NextContext
  <2>6. QED
    BY <2>1, <2>2, <2>3, <2>4, <2>5 DEF IInv
<1>18. ASSUME NEW c \in Channels, LockWriter(c)
      PROVE  IInv'
  <2>1. TypeOK'
    BY <1>18, FfmpegServerAssumption DEF TypeOK, EncoderStates, EncoderPCs,
       LockWriter, Encode, ctxvars, regvars
  <2>2. Registered'
    BY <1>18 DEF Registered, Plays, LockWriter, Encode, ctxvars, regvars
  <2>3. LockHeld'
    BY <1>18 DEF LockHeld, LockWriter, Encode, regvars
  <2>4. EncodersRun'
    BY <1>18 DEF EncodersRun, LockWriter, Encode, regvars
  <2>5. HandKept'
    BY <1>18 DEF HandKept, Sending, LockWriter, Encode, ctxvars
  <2>6. QED
    BY <2>1, <2>2, <2>3, <2>4, <2>5 DEF IInv
<1>19. ASSUME NEW c \in Channels, WriteHeader(c)
      PROVE  IInv'
  <2>1. TypeOK'
    BY <1>19 DEF TypeOK, EncoderStates, EncoderPCs, WriteHeader, Encode,
       ctxvars, regvars
  <2>2. Registered'
    BY <1>19 DEF Registered, Plays, WriteHeader, Encode, ctxvars, regvars
  <2>3. LockHeld'
    BY <1>19 DEF LockHeld, WriteHeader, Encode, regvars
  <2>4. EncodersRun'
    BY <1>19 DEF EncodersRun, WriteHeader, Encode, regvars
  <2>5. HandKept'
    BY <1>19 DEF HandKept, Sending, WriteHeader, Encode, ctxvars
  <2>6. QED
    BY <2>1, <2>2, <2>3, <2>4, <2>5 DEF IInv
<1>20. ASSUME NEW c \in Channels, HeaderFails(c)
      PROVE  IInv'
  <2>1. TypeOK'
    BY <1>20 DEF TypeOK, EncoderStates, EncoderPCs, HeaderFails, Encode,
       ctxvars, regvars, NextContext
  <2>2. Registered'
    BY <1>20 DEF Registered, Plays, HeaderFails, Encode, ctxvars, regvars
  <2>3. LockHeld'
    BY <1>20 DEF LockHeld, HeaderFails, Encode, regvars
  <2>4. EncodersRun'
    BY <1>20 DEF EncodersRun, HeaderFails, Encode, regvars, NextContext
  <2>5. HandKept'
    BY <1>20 DEF HandKept, Sending, HeaderFails, Encode, ctxvars, NextContext
  <2>6. QED
    BY <2>1, <2>2, <2>3, <2>4, <2>5 DEF IInv
<1>21. ASSUME NEW c \in Channels, WritePayload(c)
      PROVE  IInv'
  <2>1. TypeOK'
    BY <1>21 DEF TypeOK, EncoderStates, EncoderPCs, WritePayload, Encode,
       ctxvars, regvars, NextContext
  <2>2. Registered'
    BY <1>21 DEF Registered, Plays, WritePayload, Encode, ctxvars, regvars
  <2>3. LockHeld'
    BY <1>21 DEF LockHeld, WritePayload, Encode, regvars
  <2>4. EncodersRun'
    BY <1>21 DEF EncodersRun, WritePayload, Encode, regvars, NextContext
  <2>5. HandKept'
    BY <1>21 DEF HandKept, Sending, WritePayload, Encode, ctxvars, NextContext
  <2>6. QED
    BY <2>1, <2>2, <2>3, <2>4, <2>5 DEF IInv
<1>22. ASSUME NEW c \in Channels, PayloadFails(c)
      PROVE  IInv'
  <2>1. TypeOK'
    BY <1>22 DEF TypeOK, EncoderStates, EncoderPCs, PayloadFails, Encode,
       ctxvars, regvars, NextContext
  <2>2. Registered'
    BY <1>22 DEF Registered, Plays, PayloadFails, Encode, ctxvars, regvars
  <2>3. LockHeld'
    BY <1>22 DEF LockHeld, PayloadFails, Encode, regvars
  <2>4. EncodersRun'
    BY <1>22 DEF EncodersRun, PayloadFails, Encode, regvars, NextContext
  <2>5. HandKept'
    BY <1>22 DEF HandKept, Sending, PayloadFails, Encode, ctxvars, NextContext
  <2>6. QED
    BY <2>1, <2>2, <2>3, <2>4, <2>5 DEF IInv
<1>23. CASE UNCHANGED vars
  BY <1>23 DEF vars, IInv, TypeOK, Registered, Plays, LockHeld, EncodersRun,
     HandKept, Sending
<1>24. QED
  BY <1>1, <1>2, <1>3, <1>4, <1>5, <1>6, <1>7, <1>8, <1>9, <1>10, <1>11,
     <1>12, <1>13, <1>14, <1>15, <1>16, <1>17, <1>18, <1>19, <1>20, <1>21,
     <1>22, <1>23 DEF Next, Command, Leave, Send, Write

\* The invariant holds in every state.
THEOREM Invariance == Spec => []IInv
<1>1. Init => IInv
  <2>1. /\ Encoder("none") \in EncoderStates
        /\ Encoder("none").pc = "none" /\ Encoder("none").ctx = Nobody /\ Encoder("none").todo = {}
    BY EncoderFields DEF EncoderPCs
  <2>. SUFFICES ASSUME Init
       PROVE  IInv
    OBVIOUS
  <2>2. /\ enc \in [Channels -> EncoderStates]
        /\ \A c \in Channels : enc[c].pc = "none" /\ enc[c].ctx = Nobody /\ enc[c].todo = {}
    BY <2>1 DEF Init, NoEncoder
  <2>3. TypeOK
    BY <2>2 DEF Init, TypeOK
  <2>4. Registered /\ LockHeld
    BY FfmpegServerAssumption DEF Init, Registered, LockHeld
  <2>5. EncodersRun /\ HandKept
    BY <2>2 DEF Init, EncodersRun, HandKept
  <2>6. QED
    BY <2>3, <2>4, <2>5 DEF IInv
<1>2. IInv /\ [Next]_vars => IInv'
  BY Step DEF IInv
<1>3. QED
  BY <1>1, <1>2, PTL DEF Spec

\* An encoder thread that writes is in the hand of HandKept: the stream it
\* writes to is set up for the context it writes for.
THEOREM StreamIsInUse == Spec => []StreamInUse
<1>1. IInv => StreamInUse
  BY DEF IInv, HandKept, StreamInUse
<1>2. QED
  BY <1>1, Invariance, PTL

\* A context whose thread has ended is in no registry and in no encoder
\* thread's hand, in whatever order the clients came, played and left.
THEOREM ContextNotStale == Spec => []NoStaleContext
<1>1. ASSUME IInv, NEW t \in Threads, pc[t] \in {"none", "start"}
      PROVE  /\ t \notin encoder_clients \cup client_context
             /\ \A c \in Channels : t \notin InHand(c)
  <2>1. t \notin encoder_clients /\ t \notin client_context
    BY <1>1 DEF IInv, Registered
  <2>2. ASSUME NEW c \in Channels
        PROVE  InHand(c) \subseteq client_context
    BY <1>1 DEF IInv, HandKept, InHand
  <2>3. QED
    BY <2>1, <2>2
<1>2. IInv => NoStaleContext
  BY <1>1 DEF NoStaleContext
<1>3. QED
  BY <1>2, Invariance, PTL

\* While no one joins them, the encoder threads exist exactly as long as a
\* client is registered.
THEOREM EncodersFollow == Spec => []EncodersFollowClients
<1>1. IInv => EncodersFollowClients
  BY DEF IInv, EncodersRun, EncodersFollowClients
<1>2. QED
  BY <1>1, Invariance, PTL

\* A client that plays or pauses stays in both registries and the encoders
\* stay launched, whoever else leaves.
THEOREM PlayersAreServed == Spec => []PlayingServed
<1>1. ASSUME IInv, NEW t \in Threads, pc[t] = "serve", Plays(t)
      PROVE  t \in encoder_clients \cap client_context /\ threadLaunched
  BY <1>1 DEF IInv, Registered, EncodersRun
<1>2. IInv => PlayingServed
  BY <1>1 DEF PlayingServed, Plays
<1>3. QED
  BY <1>2, Invariance, PTL

=============================================================================
