------------------------------ MODULE MsgFifo ------------------------------
(***************************************************************************)
(* What the message queue of core/controller.cpp promises: messages leave  *)
(* in the order they entered, each once, and one is refused only when the  *)
(* queue is full.                                                          *)
(***************************************************************************)
EXTENDS Naturals, Sequences

CONSTANTS
  Capacity,  \* how many messages the queue holds
  Messages   \* the messages

VARIABLES
  offered,   \* the messages offered to the queue so far
  queue,     \* the messages waiting, oldest first
  sent       \* the messages the reader has sent, in order

vars == <<offered, queue, sent>>

Init == offered = {} /\ queue = <<>> /\ sent = <<>>

Accept(m) ==
  /\ m \notin offered
  /\ Len(queue) < Capacity
  /\ offered' = offered \cup {m}
  /\ queue' = Append(queue, m)
  /\ UNCHANGED sent

Refuse(m) ==
  /\ m \notin offered
  /\ Len(queue) = Capacity
  /\ offered' = offered \cup {m}
  /\ UNCHANGED <<queue, sent>>

\* The oldest message is sent and stays in the queue until it is released.
Send ==
  /\ queue # <<>>
  /\ sent = <<>> \/ Head(queue) # sent[Len(sent)]
  /\ sent' = Append(sent, Head(queue))
  /\ UNCHANGED <<offered, queue>>

Release ==
  /\ queue # <<>> /\ sent # <<>>
  /\ Head(queue) = sent[Len(sent)]
  /\ queue' = Tail(queue)
  /\ UNCHANGED <<offered, sent>>

Next == (\E m \in Messages : Accept(m) \/ Refuse(m)) \/ Send \/ Release

Spec == Init /\ [][Next]_vars
=============================================================================
