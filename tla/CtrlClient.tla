----------------------------- MODULE CtrlClient -----------------------------
(***************************************************************************)
(* The control messages of the client, core/controller.cpp: threads that   *)
(* handle events write messages into a ring of units with                  *)
(* ctrl_client_sendmsg, and the controller thread, ctrl_client_thread,     *)
(* sends them to the server from the ring itself, without its lock.  A     *)
(* null message ends the thread.                                           *)
(***************************************************************************)
EXTENDS Naturals, Sequences, FiniteSets

CONSTANTS
  Units,     \* qsize / qunit, the units of the ring
  Writers,   \* the threads that send messages
  Messages,  \* the messages they send, each once
  Null       \* the message of size 0

ASSUME CtrlClientAssumption ==
  /\ Units \in Nat /\ Units > 1
  /\ Null \notin Messages

VARIABLES
  ring,     \* qbuffer
  qhead,    \* the first unit in use
  qtail,    \* the first free unit
  offered,  \* the messages written so far
  wpc,      \* where each writer is
  cpc,      \* where the controller thread is
  qm,       \* the unit it reads
  sent      \* the messages it has sent, in order

qvars == <<ring, qhead, qtail>>
vars == <<ring, qhead, qtail, offered, wpc, cpc, qm, sent>>

Positions == 0..Units-1
All == Messages \cup {Null}

NextUnit(p) == IF p + 1 = Units THEN 0 ELSE p + 1

Init ==
  /\ ring = [p \in Positions |-> Null]
  /\ qhead = 0 /\ qtail = 0
  /\ offered = {}
  /\ wpc = [w \in Writers |-> "idle"]
  /\ cpc = "connecting" /\ qm = 0
  /\ sent = <<>>

(***************************************************************************)
(* ctrl_client_sendmsg: ctrl_queue_write_msg, then the signal.  A full     *)
(* queue makes the size written 0: no signal, except for a null message.   *)
(***************************************************************************)

\* Mutants: no check for a full queue; two units are kept empty.
FullNever == FALSE
FullEarly == NextUnit(NextUnit(qtail)) = qhead \/ NextUnit(qtail) = qhead

Full == NextUnit(qtail) = qhead

WriteMsg(w, m) ==
  /\ wpc[w] = "idle"
  /\ m \in All \ offered
  /\ ~Full
  /\ ring' = [ring EXCEPT ![qtail] = m]
  /\ qtail' = NextUnit(qtail)
  /\ offered' = offered \cup {m}
  /\ wpc' = [wpc EXCEPT ![w] = "signalling"]
  /\ UNCHANGED <<qhead, cpc, qm, sent>>

DropMsg(w, m) ==
  /\ wpc[w] = "idle"
  /\ m \in All \ offered
  /\ Full
  /\ offered' = offered \cup {m}
  /\ wpc' = IF m = Null THEN [wpc EXCEPT ![w] = "signalling"] ELSE wpc
  /\ UNCHANGED <<qvars, cpc, qm, sent>>

\* pthread_cond_signal: lost unless the controller thread waits.
Signal(w) ==
  /\ wpc[w] = "signalling"
  /\ wpc' = [wpc EXCEPT ![w] = "idle"]
  /\ cpc' = IF cpc = "waiting" THEN "read" ELSE cpc
  /\ UNCHANGED <<qvars, offered, qm, sent>>

(***************************************************************************)
(* ctrl_client_thread: connects, and then for ever waits for a signal and  *)
(* sends what the queue holds.                                             *)
(***************************************************************************)
BeginWait ==
  /\ cpc = "connecting"
  /\ cpc' = "waiting"
  /\ UNCHANGED <<qvars, offered, wpc, qm, sent>>

ConnectFails ==
  /\ cpc = "connecting"
  /\ cpc' = "stopped"
  /\ UNCHANGED <<qvars, offered, wpc, qm, sent>>

SpuriousWakeup ==
  /\ cpc = "waiting"
  /\ cpc' = "read"
  /\ UNCHANGED <<qvars, offered, wpc, qm, sent>>

ReadMsg ==
  /\ cpc = "read"
  /\ cpc' = IF qhead = qtail THEN "waiting" ELSE "send"
  /\ qm' = qhead
  /\ UNCHANGED <<qvars, offered, wpc, sent>>

\* The message is sent from the ring, which writers may be using.
SendMsg ==
  /\ cpc = "send"
  /\ ring[qm] # Null
  /\ sent' = Append(sent, ring[qm])
  /\ cpc' = "release"
  /\ UNCHANGED <<qvars, offered, wpc, qm>>

Quit ==
  /\ cpc = "send"
  /\ ring[qm] = Null
  /\ cpc' = "stopped"
  /\ UNCHANGED <<qvars, offered, wpc, qm, sent>>

\* Mutant: one message is sent for a signal.
ReleaseMsgWaits ==
  /\ cpc = "release"
  /\ qhead' = IF qhead = qtail THEN qhead ELSE NextUnit(qhead)
  /\ cpc' = "waiting"
  /\ UNCHANGED <<ring, qtail, offered, wpc, qm, sent>>

ReleaseMsg ==
  /\ cpc = "release"
  /\ qhead' = IF qhead = qtail THEN qhead ELSE NextUnit(qhead)
  /\ cpc' = "read"
  /\ UNCHANGED <<ring, qtail, offered, wpc, qm, sent>>

Controller == BeginWait \/ ConnectFails \/ ReadMsg \/ SendMsg \/ Quit \/ ReleaseMsg

Next ==
  \/ \E w \in Writers :
       Signal(w) \/ \E m \in All : WriteMsg(w, m) \/ DropMsg(w, m)
  \/ Controller
  \/ SpuriousWakeup

Spec == Init /\ [][Next]_vars

\* The threads run; no event has to happen.
FairSpec == Spec /\ WF_vars(Controller) /\ \A w \in Writers : WF_vars(Signal(w))
-----------------------------------------------------------------------------
(***************************************************************************)
(* Properties                                                              *)
(***************************************************************************)
Used == IF qtail >= qhead THEN qtail - qhead ELSE qtail - qhead + Units
Queue == [i \in 1..Used |-> ring[(qhead + i - 1) % Units]]

\* Every variable stays in its range.
TypeOK ==
  /\ ring \in [Positions -> All]
  /\ qhead \in Positions /\ qtail \in Positions /\ qm \in Positions
  /\ offered \subseteq All
  /\ wpc \in [Writers -> {"idle", "signalling"}]
  /\ cpc \in {"connecting", "waiting", "read", "send", "release", "stopped"}
  /\ sent \in Seq(Messages)

\* The unit the controller sends from, without the lock, is the first of the
\* queue until it is released: no writer reaches it, however full the ring is.
UnitStable ==
  /\ TypeOK
  /\ cpc \in {"send", "release"} => qm = qhead /\ Used > 0

Fifo == INSTANCE MsgFifo WITH Capacity <- Units - 1, Messages <- All, queue <- Queue

\* The ring is a first-in first-out queue of Units - 1 messages: a message is
\* refused only when it is full, and those accepted are sent once, in order.
FifoSpec == Fifo!Spec

\* A signal that finds the controller waiting is enough for all that is queued,
\* also behind messages whose signal was lost: it empties the ring, unless a
\* null message ends it.
WokenSends ==
  (cpc = "read" /\ Used > 0) ~> (Used = 0 \/ cpc = "stopped")

\* What docs/CONTROL:13 says of an event: it is "packed in a control message and
\* then sent to the server".  A message in the queue of a connected client does
\* not stay there for ever.
QueuedIsSent ==
  \A m \in Messages :
    (cpc # "stopped" /\ \E i \in 1..Used : Queue[i] = m)
      ~> (cpc = "stopped" \/ \A i \in 1..Used : Queue[i] # m)
=============================================================================
