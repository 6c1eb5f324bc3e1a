----------------------------- MODULE CtrlServer -----------------------------
(***************************************************************************)
(* The control messages at the server, ctrl_server_thread of               *)
(* core/controller.cpp over TCP: one connection, a handshake and then      *)
(* messages, each with its length in its first two bytes.  The network     *)
(* delivers the bytes in order but cuts them anywhere.                     *)
(*                                                                         *)
(* A byte carries where it comes from besides its value, so that what is   *)
(* handled can be compared with what was sent.  A length fits in the       *)
(* second byte here.  The handshake is message 0.                          *)
(***************************************************************************)
EXTENDS Naturals, Sequences, SequencesExt

CONSTANTS
  BufSize,    \* sizeof(buf)
  Handshake,  \* the bytes of the handshake
  Sizes,      \* the lengths of the messages
  Payload,    \* the value of every other byte
  MaxMsgs     \* bound of the model: how many messages are sent

ASSUME CtrlServerAssumption ==
  /\ BufSize \in Nat /\ Handshake \in 2..BufSize
  /\ Sizes \subseteq (2..BufSize) \cap (2..255)   \* a length fits in the second byte
  /\ Payload \in 0..255
  /\ MaxMsgs \in Nat

VARIABLES
  messages, \* the messages the client has sent
  net,      \* their bytes on the way
  buf,      \* the bytes received
  bufhead,  \* where the next message starts
  buflen,   \* how many bytes of buf are in use
  pc,       \* where the server's thread is
  handled,  \* the messages it has handled
  joined,   \* history: was the handshake received with more bytes?
  torn      \* history: did a recv end inside a message behind another one?

cuts == <<joined, torn>>
serverVars == <<messages, net, buf, bufhead, buflen, pc, handled, cuts>>

BufPositions == 0..BufSize-1

Message(m, n) ==
  [k \in 1..n |-> [msg |-> m, pos |-> k,
                   val |-> CASE k = 1 -> 0 [] k = 2 -> n [] OTHER -> Payload]]

NoByte == [msg |-> 0, pos |-> 0, val |-> Payload]

ServerInit ==
  /\ messages = <<>>
  /\ net = Message(0, Handshake)
  /\ buf = [p \in BufPositions |-> NoByte]
  /\ bufhead = 0 /\ buflen = 0
  /\ pc = "handshake"
  /\ handled = <<>>
  /\ joined = FALSE /\ torn = FALSE

\* ctrl_client_thread: a message is sent whole, once the handshake is.
ClientSend(n) ==
  /\ pc # "closed"
  /\ Len(messages) < MaxMsgs
  /\ messages' = Append(messages, Message(Len(messages) + 1, n))
  /\ net' = net \o Message(Len(messages) + 1, n)
  /\ UNCHANGED <<buf, bufhead, buflen, pc, handled, cuts>>

(***************************************************************************)
(* recv takes some of the bytes on the way, as many as fit, and adds them  *)
(* to those in use, which it takes to be at the start of buf.              *)
(***************************************************************************)
Room(n, at) == at + n <= BufSize

\* n bytes end with a message, or inside the message they start in.
CleanCut(n) == n = Len(net) \/ net[n+1].pos = 1 \/ net[n].msg = net[1].msg

Receive(n, at) ==
  /\ n <= Len(net) /\ Room(n, at)
  /\ buf' = [p \in BufPositions |-> IF p \in at..at+n-1 THEN net[p - at + 1] ELSE buf[p]]
  /\ net' = SubSeq(net, n + 1, Len(net))

\* All that came with the handshake is taken for it; too few bytes of it end
\* the connection.
RecvHandshake(n) ==
  /\ pc = "handshake"
  /\ Receive(n, 0)
  /\ pc' = IF n < Handshake THEN "closed" ELSE "recv"
  /\ joined' = (n > Handshake)
  /\ UNCHANGED <<messages, bufhead, buflen, handled, torn>>

Recv(n) ==
  /\ pc = "recv"
  /\ Receive(n, buflen)
  /\ buflen' = buflen + n
  /\ pc' = "parse"
  /\ torn' = (torn \/ ~CleanCut(n))
  /\ UNCHANGED <<messages, bufhead, handled, joined>>

\* With no room in buf recv returns 0, which counts as the end.
RecvNothing ==
  /\ pc = "recv" /\ buflen = BufSize
  /\ pc' = "closed"
  /\ UNCHANGED <<messages, net, buf, bufhead, buflen, handled, cuts>>

(***************************************************************************)
(* From tcp_again on: look for a message at bufhead.  What the code does   *)
(* once it looks past the end of buf is undefined: the model stops there.  *)
(***************************************************************************)
MsgLen == 256 * buf[bufhead].val + buf[bufhead+1].val

LooksFor == pc = "parse" /\ buflen >= 2 /\ bufhead + buflen <= BufSize

TooShort ==
  /\ pc = "parse" /\ buflen < 2
  /\ pc' = "recv"
  /\ UNCHANGED <<messages, net, buf, bufhead, buflen, handled, cuts>>

\* continue: the loop starts again with what buf holds.
ZeroLength ==
  /\ LooksFor
  /\ MsgLen = 0
  /\ bufhead' = 0
  /\ pc' = "recv"
  /\ UNCHANGED <<messages, net, buf, buflen, handled, cuts>>

\* The part of a message moves to the start of buf; bufhead stays.
Incomplete ==
  /\ LooksFor
  /\ MsgLen > buflen
  /\ buf' = [p \in BufPositions |-> IF p < buflen THEN buf[bufhead + p] ELSE buf[p]]
  /\ pc' = "recv"
  /\ UNCHANGED <<messages, net, bufhead, buflen, handled, cuts>>

\* Mutants: the rest of what was received is forgotten, is not moved to, or is
\* still counted with the message.
AdvanceForgets == bufhead' = 0 /\ buflen' = 0 /\ pc' = "recv"
AdvanceStays ==
  IF buflen > MsgLen
  THEN buflen' = buflen - MsgLen /\ UNCHANGED <<bufhead, pc>>
  ELSE bufhead' = 0 /\ buflen' = 0 /\ pc' = "recv"
AdvanceCounts ==
  IF buflen > MsgLen
  THEN bufhead' = bufhead + MsgLen /\ UNCHANGED <<buflen, pc>>
  ELSE bufhead' = 0 /\ buflen' = 0 /\ pc' = "recv"

\* To the next message, or to recv for more.
Advance ==
  IF buflen > MsgLen
  THEN bufhead' = bufhead + MsgLen /\ buflen' = buflen - MsgLen /\ UNCHANGED pc
  ELSE bufhead' = 0 /\ buflen' = 0 /\ pc' = "recv"

\* The message goes to ctrlsys_handle_message, a callback or the queue.
Handle ==
  /\ LooksFor
  /\ MsgLen \in 1..buflen
  /\ handled' = Append(handled, [k \in 1..MsgLen |-> buf[bufhead + k - 1]])
  /\ Advance
  /\ UNCHANGED <<messages, net, buf, cuts>>

Parse == TooShort \/ ZeroLength \/ Incomplete \/ Handle

ServerNext ==
  \/ \E n \in Sizes : ClientSend(n)
  \/ \E n \in 1..Len(net) : RecvHandshake(n) \/ Recv(n)
  \/ RecvNothing
  \/ Parse

ServerSpec == ServerInit /\ [][ServerNext]_serverVars

\* What is on the way arrives, and the server's thread runs.
ServerFairSpec ==
  ServerSpec /\ WF_serverVars(\E n \in 1..Len(net) : RecvHandshake(n) \/ Recv(n))
             /\ WF_serverVars(RecvNothing) /\ WF_serverVars(Parse)
-----------------------------------------------------------------------------
(***************************************************************************)
(* Properties                                                              *)
(***************************************************************************)
\* Every variable stays in its range.
ServerTypeOK ==
  /\ bufhead \in 0..BufSize /\ buflen \in 0..BufSize
  /\ buf \in [BufPositions -> UNION {{s[k] : k \in DOMAIN s} :
                                     s \in {messages[m] : m \in DOMAIN messages}
                                            \cup {Message(0, Handshake), <<NoByte>>}}]
  /\ pc \in {"handshake", "recv", "parse", "closed"}
  /\ joined \in BOOLEAN /\ torn \in BOOLEAN

\* What docs/CONTROL:14 says of the server, that it "then replays received
\* events": the messages handled are those sent, in order.
EventsReplayed == IsPrefix(handled, messages)

\* The same of a connection whose handshake came alone.
ReplayedAfterHandshake == ~joined => EventsReplayed

\* However the bytes after the handshake are cut, the first message is handled
\* as it was sent.
FirstReplayed == ~joined /\ handled # <<>> => handled[1] = messages[1]

\* The same of a connection whose handshake came alone and whose recvs took
\* whole messages, or parts of one message at a time; and of the first message
\* whatever the recvs took.
ReplayedIfWhole ==
  /\ ~joined /\ ~torn => EventsReplayed
  /\ FirstReplayed

\* What is looked at as received was received: of a connection whose handshake
\* came alone, as long as no message is torn, the bytes in use are in buf.
InBuffer == ServerTypeOK /\ (~joined /\ ~torn => bufhead + buflen <= BufSize)

\* Every message sent is handled in the end, unless the handshake was cut or
\* joined or a message was torn.
AllHandled ==
  \A k \in 1..MaxMsgs :
    (Len(messages) >= k) ~> (Len(handled) >= k \/ joined \/ torn \/ pc = "closed")
=============================================================================
