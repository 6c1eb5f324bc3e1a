-------------------------- MODULE ControllerProofs --------------------------
(***************************************************************************)
(* Proofs about the two ends of the controller.  The message ring of the   *)
(* client, CtrlClient, for any number of units, writers and messages: the  *)
(* unit being sent is never written to, and the ring is the first-in       *)
(* first-out queue of MsgFifo.  And the server, CtrlServer, for any        *)
(* buffer, messages and cuts: as long as its handshake comes alone and no  *)
(* message is torn, it handles the messages as they were sent.             *)
(***************************************************************************)
EXTENDS CtrlClient, CtrlServer, SequenceTheorems, TLAPS

LastSent == sent[Len(sent)]

\* Every message is offered once, so the messages of the queue differ, and the
\* one sent last is in the queue only at its head, until it is released.
Ordered ==
  /\ \A i, j \in 1..Used : Queue[i] = Queue[j] => i = j
  /\ \A i \in 1..Used : Queue[i] \in offered
  /\ sent # <<>> =>
       /\ LastSent \in offered
       /\ \A i \in 1..Used : Queue[i] = LastSent => i = 1 /\ cpc = "release"
  /\ cpc = "release" => sent # <<>> /\ Queue[1] = LastSent

IInv == UnitStable /\ Ordered
-----------------------------------------------------------------------------
\* Counting on from a unit wraps around once at most.
LEMMA Wraps ==
  ASSUME NEW x \in Nat, x < 2 * Units
  PROVE  x % Units = IF x < Units THEN x ELSE x - Units
<1>1. Units \in Nat /\ Units > 1
  BY CtrlClientAssumption
<1>2. PICK q \in Int, r \in Int : x = Units * q + r /\ 0 <= r /\ r < Units /\ r = x % Units
  BY <1>1
<1>3. q = 0 \/ q = 1
  <2>1. q >= 0
    BY <1>1, <1>2
  <2>2. q < 2
    BY <1>1, <1>2
  <2> QED BY <2>1, <2>2
<1> QED BY <1>1, <1>2, <1>3

\* The unit of the i-th message of the queue.
At(i) == (qhead + i - 1) % Units

\* There are units.
LEMMA Units2 == Units \in Nat /\ Units > 1
BY CtrlClientAssumption

\* The units of the queue: they differ, none of them is the first free one, and
\* the queue is full when it has Units - 1 of them.
LEMMA UnitsOfQueue ==
  ASSUME TypeOK
  PROVE  /\ Used \in Nat /\ Used < Units
         /\ Used = 0 <=> qhead = qtail
         /\ Full <=> Used = Units - 1
         /\ \A i \in 1..Used : At(i) \in Positions /\ At(i) # qtail
         /\ Used > 0 => At(1) = qhead
<1>1. qhead \in 0..Units-1 /\ qtail \in 0..Units-1 /\ Units \in Nat /\ Units > 1
  BY Units2 DEF TypeOK, Positions
<1>2. /\ Used \in Nat /\ Used < Units
      /\ Used = 0 <=> qhead = qtail
  BY <1>1 DEF Used
<1>3. Full <=> Used = Units - 1
  <2>1. NextUnit(qtail) = qhead <=> Used = Units - 1
    BY <1>1 DEF NextUnit, Used
  <2> QED BY <2>1 DEF Full
<1>4. ASSUME NEW i \in 1..Used
      PROVE  At(i) \in Positions /\ At(i) # qtail /\ (i = 1 => At(i) = qhead)
  <2> DEFINE x == qhead + i - 1
  <2>1. x \in Nat /\ x < 2 * Units
    BY <1>1, <1>2
  <2>2. At(i) = IF x < Units THEN x ELSE x - Units
    <3>1. At(i) = x % Units
      BY DEF At
    <3> HIDE DEF x
    <3> QED BY <2>1, <3>1, Wraps
  <2> QED BY <1>1, <2>1, <2>2 DEF Used, Positions
<1> QED BY <1>2, <1>3, <1>4

\* The queue is a sequence of messages.
LEMMA QueueSeq ==
  ASSUME TypeOK
  PROVE  /\ Queue \in Seq(All) /\ Len(Queue) = Used
         /\ \A i \in 1..Used : Queue[i] = ring[At(i)] /\ Queue[i] \in All
         /\ Queue = <<>> <=> Used = 0
<1>1. Used \in Nat
  BY UnitsOfQueue
<1>2. \A i \in 1..Used : Queue[i] = ring[At(i)] /\ ring[At(i)] \in All
  BY UnitsOfQueue DEF Queue, At, TypeOK
<1>3. Queue \in [1..Used -> All]
  BY <1>2 DEF Queue
<1>4. Queue \in Seq(All) /\ Len(Queue) = Used
  BY <1>1, <1>3
<1>5. Queue = <<>> <=> Used = 0
  BY <1>4, EmptySeq
<1> QED BY <1>2, <1>4, <1>5

\* A message written goes to the end of the queue.
LEMMA WriteAppends ==
  ASSUME TypeOK, TypeOK', NEW m \in All, ~Full, qhead' = qhead,
         ring' = [ring EXCEPT ![qtail] = m], qtail' = NextUnit(qtail)
  PROVE  Queue' = Append(Queue, m) /\ Used' = Used + 1
<1>1. /\ qhead \in 0..Units-1 /\ qtail \in 0..Units-1 /\ qtail' \in 0..Units-1
      /\ Units \in Nat /\ Units > 1 /\ ring \in [Positions -> All]
  BY Units2 DEF TypeOK, Positions
<1>2. /\ Used \in Nat /\ Used < Units - 1
      /\ \A i \in 1..Used : At(i) \in Positions /\ At(i) # qtail
  BY <1>1, UnitsOfQueue
<1>3. Used' = Used + 1
  BY <1>1, <1>2 DEF Used, NextUnit
<1>4. (qhead + (Used + 1) - 1) % Units = qtail
  <2> DEFINE x == qhead + (Used + 1) - 1
  <2>1. x \in Nat /\ x < 2 * Units /\ qtail = IF x < Units THEN x ELSE x - Units
    BY <1>1, <1>2 DEF Used
  <2> HIDE DEF x
  <2>2. x % Units = qtail
    BY <2>1, Wraps
  <2> QED BY <2>2 DEF x
<1>5. \A i \in 1..Used' : Queue'[i] = ring'[(qhead + i - 1) % Units]
  BY DEF Queue
<1>6. \A i \in 1..Used : Queue'[i] = Queue[i]
  <2> TAKE i \in 1..Used
  <2>1. Queue'[i] = ring'[At(i)]
    BY <1>2, <1>3, <1>5 DEF At
  <2> QED BY <2>1, <1>1, <1>2, QueueSeq
<1>7. Queue'[Used + 1] = m
  <2>1. Used + 1 \in 1..Used'
    BY <1>2, <1>3
  <2> QED BY <2>1, <1>1, <1>4, <1>5 DEF Positions
<1>8. /\ Queue \in Seq(All) /\ Len(Queue) = Used
      /\ Append(Queue, m) \in Seq(All) /\ Len(Append(Queue, m)) = Used + 1
      /\ \A i \in 1..Used : Append(Queue, m)[i] = Queue[i]
      /\ Append(Queue, m)[Used + 1] = m
  BY QueueSeq, AppendProperties
<1>9. Queue' \in Seq(All) /\ Len(Queue') = Used'
  <2>1. Used' \in Nat
    BY <1>2, <1>3
  <2>2. \A i \in 1..Used' : Queue'[i] \in All
    BY <1>2, <1>3, <1>6, <1>7, <1>8, QueueSeq
  <2>3. Queue' \in [1..Used' -> All]
    BY <2>2 DEF Queue
  <2> QED BY <2>1, <2>3
<1>10. \A i \in 1..Used + 1 : Queue'[i] = Append(Queue, m)[i]
  <2> TAKE i \in 1..Used + 1
  <2>1. i \in 1..Used \/ i = Used + 1
    BY <1>2
  <2> QED BY <2>1, <1>6, <1>7, <1>8
<1>11. Queue' = Append(Queue, m)
  BY <1>3, <1>8, <1>9, <1>10, SeqEqual
<1> QED BY <1>3, <1>11

\* A unit released is taken off the head of the queue.
LEMMA ReleaseTails ==
  ASSUME TypeOK, TypeOK', Used > 0, ring' = ring, qtail' = qtail,
         qhead' = NextUnit(qhead)
  PROVE  Queue' = Tail(Queue) /\ Used' = Used - 1
<1>1. /\ qhead \in 0..Units-1 /\ qtail \in 0..Units-1 /\ qhead' \in 0..Units-1
      /\ Units \in Nat /\ Units > 1
  BY Units2 DEF TypeOK, Positions
<1>2. Used \in Nat /\ Used < Units
  BY UnitsOfQueue
<1>3. Used' = Used - 1
  BY <1>1, <1>2 DEF Used, NextUnit
<1>4. ASSUME NEW i \in 1..Used - 1
      PROVE  (qhead' + i - 1) % Units = (qhead + (i + 1) - 1) % Units
  <2> DEFINE x == qhead' + i - 1
             y == qhead + (i + 1) - 1
  <2>1. /\ x \in Nat /\ x < 2 * Units /\ y \in Nat /\ y < 2 * Units
        /\ x = y \/ (x < Units /\ y >= Units /\ x = y - Units)
    BY <1>1, <1>2 DEF NextUnit
  <2> HIDE DEF x, y
  <2>2. x % Units = y % Units
    BY <2>1, <1>1, Wraps
  <2> QED BY <2>2 DEF x, y
<1>5. /\ Queue \in Seq(All) /\ Len(Queue) = Used /\ Queue # <<>>
      /\ \A i \in 1..Used : Queue[i] = ring[(qhead + i - 1) % Units] /\ Queue[i] \in All
  BY QueueSeq DEF At
<1>6. \A i \in 1..Used' : Queue'[i] = ring'[(qhead' + i - 1) % Units]
  BY DEF Queue
<1>7. \A i \in 1..Used - 1 : Queue'[i] = Queue[i + 1] /\ i + 1 \in 1..Used
  BY <1>2, <1>3, <1>4, <1>5, <1>6
<1>8. /\ Tail(Queue) \in Seq(All) /\ Len(Tail(Queue)) = Used - 1
      /\ \A i \in 1..Used - 1 : Tail(Queue)[i] = Queue[i + 1]
  BY <1>5, HeadTailProperties
<1>9. Queue' \in Seq(All) /\ Len(Queue') = Used'
  <2>1. Used' \in Nat
    BY <1>2, <1>3
  <2>2. \A i \in 1..Used' : Queue'[i] \in All
    BY <1>3, <1>5, <1>7
  <2>3. Queue' \in [1..Used' -> All]
    BY <2>2 DEF Queue
  <2> QED BY <2>1, <2>3
<1>10. Queue' = Tail(Queue)
  BY <1>3, <1>7, <1>8, <1>9, SeqEqual
<1> QED BY <1>3, <1>10
-----------------------------------------------------------------------------
\* What the controller sends from stays the head of the queue.
LEMMA UnitStep ==
  ASSUME UnitStable, [Next]_vars
  PROVE  UnitStable'
<1>0. TypeOK /\ Units \in Nat /\ Units > 1
  BY Units2 DEF UnitStable
<1>1. ASSUME NEW w \in Writers, NEW m \in All, WriteMsg(w, m)
      PROVE  UnitStable'
  <2>1. TypeOK'
    BY <1>0, <1>1 DEF TypeOK, WriteMsg, NextUnit, Positions
  <2>2. Used' = Used + 1 /\ Used \in Nat
    BY <1>0, <1>1, <2>1, WriteAppends, UnitsOfQueue DEF WriteMsg
  <2> QED BY <1>1, <2>1, <2>2 DEF UnitStable, WriteMsg
<1>2. ASSUME NEW w \in Writers, NEW m \in All, DropMsg(w, m)
      PROVE  UnitStable'
  <2>1. TypeOK'
    BY <1>0, <1>2 DEF TypeOK, DropMsg, qvars
  <2> QED BY <1>2, <2>1 DEF UnitStable, DropMsg, qvars, Used
<1>3. ASSUME NEW w \in Writers, Signal(w)
      PROVE  UnitStable'
  <2>1. TypeOK'
    BY <1>0, <1>3 DEF TypeOK, Signal, qvars
  <2> QED BY <1>3, <2>1 DEF UnitStable, Signal, qvars, Used
<1>4. CASE BeginWait \/ ConnectFails \/ SpuriousWakeup \/ Quit
  <2>1. TypeOK'
    BY <1>0, <1>4 DEF TypeOK, BeginWait, ConnectFails, SpuriousWakeup, Quit, qvars
  <2> QED BY <1>4, <2>1 DEF UnitStable, BeginWait, ConnectFails, SpuriousWakeup, Quit
<1>5. CASE ReadMsg
  <2>1. TypeOK'
    BY <1>0, <1>5 DEF TypeOK, ReadMsg, qvars
  <2>2. qhead # qtail => Used > 0
    BY <1>0, UnitsOfQueue
  <2> QED BY <1>5, <2>1, <2>2 DEF UnitStable, ReadMsg, qvars, Used
<1>6. CASE SendMsg
  <2>1. ring[qm] \in Messages
    BY <1>0, <1>6 DEF TypeOK, SendMsg, All
  <2>2. sent' \in Seq(Messages)
    BY <1>0, <1>6, <2>1, AppendProperties DEF TypeOK, SendMsg
  <2>3. TypeOK'
    BY <1>0, <1>6, <2>2 DEF TypeOK, SendMsg, qvars
  <2> QED BY <1>6, <2>3 DEF UnitStable, SendMsg, qvars, Used
<1>7. CASE ReleaseMsg
  <2>1. TypeOK'
    BY <1>0, <1>7 DEF TypeOK, ReleaseMsg, NextUnit, Positions
  <2> QED BY <1>7, <2>1 DEF UnitStable, ReleaseMsg
<1>8. CASE UNCHANGED vars
  BY <1>8 DEF UnitStable, TypeOK, vars, Used
<1> QED
  BY <1>1, <1>2, <1>3, <1>4, <1>5, <1>6, <1>7, <1>8 DEF Next, Controller

\* The queue is first-in first-out, and what was sent stays known.
LEMMA OrderedStep ==
  ASSUME IInv, [Next]_vars
  PROVE  Ordered'
<1>0. /\ UnitStable /\ UnitStable' /\ TypeOK /\ TypeOK' /\ Ordered
      /\ Used \in Nat /\ Queue \in Seq(All) /\ Len(Queue) = Used
  BY UnitStep, UnitsOfQueue, QueueSeq DEF IInv, UnitStable
<1>1. ASSUME NEW w \in Writers, NEW m \in All, WriteMsg(w, m)
      PROVE  Ordered'
  <2>1. Queue' = Append(Queue, m) /\ Used' = Used + 1
    BY <1>0, <1>1, WriteAppends DEF WriteMsg
  <2>2. /\ \A i \in 1..Used : Queue'[i] = Queue[i]
        /\ Queue'[Used + 1] = m
        /\ \A i \in 1..Used' : i \in 1..Used \/ i = Used + 1
    BY <1>0, <2>1, AppendProperties
  <2>3. /\ m \notin offered /\ offered' = offered \cup {m}
        /\ sent' = sent /\ cpc' = cpc
    BY <1>1 DEF WriteMsg
  <2>4. \A i, j \in 1..Used' : Queue'[i] = Queue'[j] => i = j
    BY <1>0, <2>2, <2>3 DEF Ordered
  <2>5. cpc = "release" => 1 \in 1..Used
    BY <1>0 DEF UnitStable
  <2> QED BY <1>0, <2>2, <2>3, <2>4, <2>5 DEF Ordered, LastSent
<1>2. CASE UNCHANGED <<qvars, sent, cpc>> /\ offered \subseteq offered'
  BY <1>2, <1>0 DEF Ordered, LastSent, qvars, Used, Queue
<1>3. CASE /\ UNCHANGED <<qvars, sent, offered>>
           /\ cpc # "release" /\ cpc' # "release"
  BY <1>3, <1>0 DEF Ordered, LastSent, qvars, Used, Queue
<1>4. CASE SendMsg
  <2>1. /\ sent' = Append(sent, ring[qm]) /\ cpc' = "release"
        /\ Queue' = Queue /\ Used' = Used /\ offered' = offered
        /\ cpc = "send" /\ ring[qm] # Null
    BY <1>4 DEF SendMsg, qvars, Queue, Used
  <2>2. qm = qhead /\ Used > 0 /\ 1 \in 1..Used
    BY <1>0, <2>1 DEF UnitStable
  <2>3. Queue[1] = ring[qm]
    BY <1>0, <2>2, UnitsOfQueue, QueueSeq
  <2>4. sent' # <<>> /\ LastSent' = Queue[1]
    <3>1. sent \in Seq(Messages) /\ ring[qm] \in Messages
      BY <1>0, <2>1 DEF TypeOK, All
    <3> QED BY <2>1, <2>3, <3>1, AppendProperties DEF LastSent
  <2> QED BY <1>0, <2>1, <2>2, <2>4 DEF Ordered
<1>5. CASE ReleaseMsg
  <2>1. /\ qhead # qtail /\ Used > 0 /\ cpc = "release" /\ cpc' = "read"
        /\ sent' = sent /\ offered' = offered
    BY <1>0, <1>5, UnitsOfQueue DEF UnitStable, ReleaseMsg
  <2>2. Queue' = Tail(Queue) /\ Used' = Used - 1
    BY <1>0, <1>5, <2>1, ReleaseTails DEF ReleaseMsg
  <2>3. \A i \in 1..Used' : Queue'[i] = Queue[i + 1] /\ i + 1 \in 1..Used /\ i + 1 # 1
    BY <1>0, <2>1, <2>2, HeadTailProperties
  <2>4. \A i, j \in 1..Used' : Queue'[i] = Queue'[j] => i = j
    <3> SUFFICES ASSUME NEW i \in 1..Used', NEW j \in 1..Used', Queue'[i] = Queue'[j]
                 PROVE  i = j
      OBVIOUS
    <3>1. i + 1 = j + 1
      BY <1>0, <2>3 DEF Ordered
    <3>2. i \in Nat /\ j \in Nat
      BY <1>0, <2>1, <2>2
    <3> QED BY <3>1, <3>2
  <2>5. \A i \in 1..Used' : Queue'[i] \in offered /\ Queue'[i] # LastSent
    <3> TAKE i \in 1..Used'
    <3>1. sent # <<>>
      BY <1>0, <2>1 DEF Ordered
    <3>2. i + 1 \in 1..Used /\ Queue'[i] = Queue[i + 1] /\ i + 1 # 1
      BY <2>3
    <3>3. Queue[i + 1] \in offered /\ (Queue[i + 1] = LastSent => i + 1 = 1)
      <4> DEFINE j == i + 1
      <4>1. j \in 1..Used
        BY <3>2
      <4> HIDE DEF j
      <4>2. Queue[j] \in offered /\ (Queue[j] = LastSent => j = 1)
        BY <4>1, <3>1, <1>0 DEF Ordered
      <4> QED BY <4>2 DEF j
    <3> QED BY <3>2, <3>3
  <2> QED BY <1>0, <2>1, <2>4, <2>5 DEF Ordered, LastSent
<1>6. ASSUME NEW w \in Writers, NEW m \in All, DropMsg(w, m)
      PROVE  Ordered'
  BY <1>2, <1>6 DEF DropMsg
<1>7. ASSUME NEW w \in Writers, Signal(w)
      PROVE  Ordered'
  BY <1>2, <1>3, <1>7 DEF Signal
<1>8. CASE BeginWait \/ ConnectFails \/ SpuriousWakeup \/ Quit \/ ReadMsg
  BY <1>3, <1>8 DEF BeginWait, ConnectFails, SpuriousWakeup, Quit, ReadMsg
<1>9. CASE UNCHANGED vars
  BY <1>2, <1>9 DEF vars, qvars
<1> QED
  BY <1>1, <1>4, <1>5, <1>6, <1>7, <1>8, <1>9 DEF Next, Controller

\* At first the queue is empty.
LEMMA InitInv == Init => IInv
<1> SUFFICES ASSUME Init PROVE IInv
  OBVIOUS
<1>1. TypeOK
  BY Units2, EmptySeq DEF Init, TypeOK, Positions, All
<1>2. Used = 0
  BY DEF Init, Used
<1> QED BY <1>1, <1>2 DEF Init, IInv, UnitStable, Ordered

\* The invariant holds in every state.
THEOREM Invariance == Spec => []IInv
<1>1. IInv /\ [Next]_vars => IInv'
  BY UnitStep, OrderedStep DEF IInv
<1> QED BY <1>1, InitInv, PTL DEF Spec

\* No writer touches the unit that is being sent without the lock.
THEOREM SentUnitStable == Spec => []UnitStable
<1>1. IInv => UnitStable
  BY DEF IInv
<1> QED BY <1>1, Invariance, PTL

\* The ring implements the queue of MsgFifo: it refuses a message only when it
\* holds Units - 1, and it sends each one it accepted once, in order.
THEOREM ImplementsFifo == Spec => FifoSpec
<1>1. Init => Fifo!Init
  <2> SUFFICES ASSUME Init PROVE Fifo!Init
    OBVIOUS
  <2>1. TypeOK /\ Used = 0
    BY InitInv DEF IInv, UnitStable, Init, Used
  <2> QED BY <2>1, QueueSeq DEF Init, Fifo!Init
<1>2. IInv /\ [Next]_vars => [Fifo!Next]_(Fifo!vars)
  <2> SUFFICES ASSUME IInv, [Next]_vars
               PROVE  Fifo!Next \/ UNCHANGED Fifo!vars
    OBVIOUS
  <2>0. /\ UnitStable /\ TypeOK /\ TypeOK' /\ Ordered
        /\ Used \in Nat /\ Units \in Nat
        /\ Queue \in Seq(All) /\ Len(Queue) = Used
    BY UnitStep, UnitsOfQueue, QueueSeq, Units2 DEF IInv, UnitStable
  <2>1. ASSUME NEW w \in Writers, NEW m \in All, WriteMsg(w, m)
        PROVE  Fifo!Accept(m)
    <3>1. Queue' = Append(Queue, m)
      BY <2>0, <2>1, WriteAppends DEF WriteMsg
    <3>2. Len(Queue) < Units - 1
      BY <2>0, <2>1, UnitsOfQueue DEF WriteMsg
    <3> QED BY <2>1, <3>1, <3>2 DEF WriteMsg, Fifo!Accept
  <2>2. ASSUME NEW w \in Writers, NEW m \in All, DropMsg(w, m)
        PROVE  Fifo!Refuse(m)
    <3>1. Len(Queue) = Units - 1
      BY <2>0, <2>2, UnitsOfQueue DEF DropMsg
    <3>2. Queue' = Queue
      BY <2>2 DEF DropMsg, qvars, Queue, Used
    <3> QED BY <2>2, <3>1, <3>2 DEF DropMsg, Fifo!Refuse
  <2>3. CASE SendMsg
    <3>1. qm = qhead /\ Used > 0 /\ 1 \in 1..Used
      BY <2>0, <2>3 DEF UnitStable, SendMsg
    <3>2. Queue # <<>> /\ Head(Queue) = Queue[1] /\ Queue[1] = ring[qm]
      BY <2>0, <3>1, UnitsOfQueue, QueueSeq
    <3>3. sent = <<>> \/ Queue[1] # LastSent
      BY <2>0, <2>3, <3>1 DEF Ordered, SendMsg
    <3>4. Queue' = Queue
      BY <2>3 DEF SendMsg, qvars, Queue, Used
    <3>5. Fifo!Send
      BY <2>3, <3>2, <3>3, <3>4 DEF SendMsg, Fifo!Send, LastSent
    <3> QED BY <3>5 DEF Fifo!Next
  <2>4. CASE ReleaseMsg
    <3>1. Used > 0 /\ qhead # qtail /\ sent # <<>> /\ Queue[1] = LastSent
      BY <2>0, <2>4, UnitsOfQueue DEF UnitStable, Ordered, ReleaseMsg
    <3>2. Queue' = Tail(Queue)
      BY <2>0, <2>4, <3>1, ReleaseTails DEF ReleaseMsg
    <3>3. Queue # <<>> /\ Head(Queue) = Queue[1]
      BY <2>0, <3>1, QueueSeq
    <3>4. Fifo!Release
      BY <2>4, <3>1, <3>2, <3>3 DEF ReleaseMsg, Fifo!Release, LastSent
    <3> QED BY <3>4 DEF Fifo!Next
  <2>5. ASSUME UNCHANGED <<qvars, offered, sent>>
        PROVE  UNCHANGED Fifo!vars
    BY <2>5 DEF qvars, Fifo!vars, Queue, Used
  <2>6. CASE (\E w \in Writers : Signal(w)) \/ BeginWait \/ ConnectFails
               \/ SpuriousWakeup \/ Quit \/ ReadMsg \/ UNCHANGED vars
    BY <2>5, <2>6 DEF Signal, BeginWait, ConnectFails, SpuriousWakeup, Quit,
       ReadMsg, vars, qvars
  <2> QED
    BY <2>1, <2>2, <2>3, <2>4, <2>6 DEF Next, Controller, Fifo!Next
<1> QED BY <1>1, <1>2, Invariance, PTL DEF Spec, FifoSpec, Fifo!Spec
-----------------------------------------------------------------------------
(***************************************************************************)
(* The server.                                                             *)
(***************************************************************************)
\* The bytes there are, once messages s are sent.
AllBytes(s) ==
  UNION {{t[k] : k \in DOMAIN t} :
           t \in {s[m] : m \in DOMAIN s} \cup {Message(0, Handshake), <<NoByte>>}}

Byte == [msg : Nat, pos : Nat, val : Nat]

MessagesAt(m) == {Message(m, n) : n \in Sizes}

\* The bytes the server has not handled: those in use of buf, then those on the
\* way, without the handshake.
Ahead == IF pc = "handshake" THEN Handshake ELSE 0
Waiting == buflen + Len(net) - Ahead
Pending == [i \in 1..Waiting |-> IF i <= buflen THEN buf[bufhead + i - 1]
                                 ELSE net[i - buflen + Ahead]]

\* The n bytes of w are the messages of s behind the first h, where message m
\* has the places behind st[m], up to st[m+1].
Laid(st, w, n, s, h) ==
  /\ st \in [h+1..Len(s)+1 -> Nat]
  /\ st[h+1] = 0 /\ st[Len(s)+1] = n
  /\ \A m \in h+1..Len(s) : st[m+1] = st[m] + Len(s[m])
  /\ \A m \in h+1..Len(s) : \A k \in 1..Len(s[m]) : w[st[m] + k] = s[m][k]
  /\ \A m, l \in h+1..Len(s)+1 : m < l => st[m] < st[l]
  /\ \A i \in 1..n : \E m \in h+1..Len(s) : st[m] < i /\ i <= st[m+1]

\* No message of s is empty; w2 is w without its first d of n bytes, or with
\* those of t behind them.
Filled(s) == \A m \in 1..Len(s) : Len(s[m]) >= 1
Behind(w2, w, n, d) == \A i \in 1..n - d : w2[i] = w[i + d]
Extended(w2, w, n, t) ==
  /\ \A i \in 1..n : w2[i] = w[i]
  /\ \A k \in 1..Len(t) : w2[n + k] = t[k]

\* w begins with the message behind the first h of s.
Leads(w, s, h) == \A k \in 1..Len(s[h+1]) : w[k] = s[h+1][k]

\* st2 has the places of st, or has them d nearer.
Agree(st2, st, s, h) == \A m \in h+1..Len(s)+1 : st2[m] = st[m]
Nearer(st2, st, s, h, d) == \A m \in h+2..Len(s)+1 : st2[m] = st[m] - d

\* Where the bytes in use end, while no message is torn: before a recv inside
\* the first message, and after it there or behind a message.
Shape(st) ==
  LET h == Len(handled) IN
  /\ pc = "recv" =>
       /\ bufhead = 0
       /\ buflen = 0 \/ (h < Len(messages) /\ buflen < Len(messages[h+1]))
  /\ pc = "parse" =>
       /\ buflen > 0
       /\ \/ \E m \in h+2..Len(messages)+1 : buflen = st[m]
          \/ bufhead = 0 /\ buflen < Len(messages[h+1])

\* The server looks at the bytes as the client meant them.
Tracked ==
  ~joined /\ pc # "closed" /\ (~torn \/ handled = <<>>) =>
    \E st : Laid(st, Pending, Waiting, messages, Len(handled)) /\ (~torn => Shape(st))

\* The variables' values, for messages of any number and size.
Values ==
  /\ bufhead \in 0..BufSize /\ buflen \in 0..BufSize
  /\ buf \in [BufPositions -> AllBytes(messages)]
  /\ net \in Seq(AllBytes(messages))
  /\ messages \in Seq(Seq(Byte)) /\ \A m \in 1..Len(messages) : messages[m] \in MessagesAt(m)
  /\ handled \in Seq(Seq(Byte))
  /\ pc \in {"handshake", "recv", "parse", "closed"}
  /\ joined \in BOOLEAN /\ torn \in BOOLEAN

\* Nothing is handled before the handshake is received, and buf is looked at
\* from its start until something is.
Start ==
  /\ pc = "handshake" => ~joined /\ ~torn /\ handled = <<>> /\ buflen = 0
  /\ handled = <<>> => bufhead = 0

Fits == ~joined /\ ~torn => bufhead + buflen <= BufSize

\* ReplayedIfWhole, message by message.
Replayed ==
  /\ ~joined /\ ~torn =>
       Len(handled) <= Len(messages) /\ \A i \in 1..Len(handled) : handled[i] = messages[i]
  /\ ~joined /\ handled # <<>> => messages # <<>> /\ handled[1] = messages[1]

StreamInv == Values /\ Start /\ Fits /\ Replayed /\ Tracked
-----------------------------------------------------------------------------
\* The constants, as the proofs use them.
LEMMA Constants ==
  /\ BufSize \in Nat /\ Handshake \in Nat /\ Handshake >= 2 /\ Handshake <= BufSize
  /\ \A n \in Sizes : n \in Nat /\ n >= 2 /\ n <= BufSize
  /\ Payload \in Nat
BY CtrlServerAssumption

\* A message is as long as it says, and its bytes know where they are.
LEMMA MessageIs ==
  ASSUME NEW m \in Nat, NEW n \in Nat
  PROVE  /\ Message(m, n) \in Seq(Byte) /\ Len(Message(m, n)) = n
         /\ DOMAIN Message(m, n) = 1..n
         /\ \A k \in 1..n : /\ Message(m, n)[k] \in Byte
                            /\ Message(m, n)[k].msg = m /\ Message(m, n)[k].pos = k
         /\ n >= 2 => Message(m, n)[1].val = 0 /\ Message(m, n)[2].val = n
<1>1. \A k \in 1..n : (CASE k = 1 -> 0 [] k = 2 -> n [] OTHER -> Payload) \in Nat
  BY Constants
<1>2. Message(m, n) \in [1..n -> Byte]
  BY <1>1 DEF Message, Byte
<1>3. /\ Message(m, n) \in Seq(Byte) /\ Len(Message(m, n)) = n
      /\ DOMAIN Message(m, n) = 1..n
  BY <1>2
<1>4. \A k \in 1..n : Message(m, n)[k].msg = m /\ Message(m, n)[k].pos = k
  BY DEF Message
<1>5. n >= 2 => Message(m, n)[1].val = 0 /\ Message(m, n)[2].val = n
  BY DEF Message
<1> QED BY <1>2, <1>3, <1>4, <1>5

\* The same of a message that was sent.
LEMMA SentIs ==
  ASSUME NEW m \in Nat, NEW t \in MessagesAt(m)
  PROVE  /\ t \in Seq(Byte) /\ Len(t) \in Nat /\ Len(t) >= 2 /\ DOMAIN t = 1..Len(t)
         /\ \A k \in 1..Len(t) : t[k].msg = m /\ t[k].pos = k
         /\ t[1].val = 0 /\ t[2].val = Len(t)
<1>1. PICK n \in Sizes : t = Message(m, n)
  BY DEF MessagesAt
<1>2. n \in Nat /\ n >= 2
  BY Constants
<1>4. /\ t \in Seq(Byte) /\ Len(t) = n /\ DOMAIN t = 1..n
      /\ \A k \in 1..n : t[k].msg = m /\ t[k].pos = k
      /\ t[1].val = 0 /\ t[2].val = n
  <2> DEFINE u == Message(m, n)
  <2>1. u \in Seq(Byte) /\ Len(u) = n /\ DOMAIN u = 1..n
    BY <1>2, MessageIs
  <2>4. ASSUME NEW k \in 1..n PROVE u[k].msg = m /\ u[k].pos = k
    BY <1>2, MessageIs
  <2>2. u[1].val = 0 /\ u[2].val = n
    BY <1>2, MessageIs
  <2> HIDE DEF u
  <2>3. t = u
    BY <1>1 DEF u
  <2> QED BY <2>1, <2>2, <2>3, <2>4
<1> QED BY <1>2, <1>4

\* Every byte has a value.
LEMMA BytesAre ==
  ASSUME NEW s \in Seq(Seq(Byte))
  PROVE  AllBytes(s) \subseteq Byte
<1>1. Message(0, Handshake) \in Seq(Byte)
  BY Constants, MessageIs
<1>2. NoByte \in Byte
  BY Constants DEF NoByte, Byte
<1>3. <<NoByte>> \in Seq(Byte)
  BY <1>2
<1>4. \A t \in {s[m] : m \in DOMAIN s} : t \in Seq(Byte)
  OBVIOUS
<1>5. \A t \in Seq(Byte) : \A k \in DOMAIN t : t[k] \in Byte
  OBVIOUS
<1> QED BY <1>1, <1>3, <1>4, <1>5 DEF AllBytes

\* The bytes of the messages, and the others.
LEMMA BytesHave ==
  ASSUME NEW s
  PROVE  /\ \A m \in DOMAIN s : \A k \in DOMAIN s[m] : s[m][k] \in AllBytes(s)
         /\ \A k \in DOMAIN Message(0, Handshake) :
              Message(0, Handshake)[k] \in AllBytes(s)
         /\ NoByte \in AllBytes(s)
<1>1. ASSUME NEW t \in {s[m] : m \in DOMAIN s}
                        \cup {Message(0, Handshake), <<NoByte>>},
             NEW k \in DOMAIN t
      PROVE  t[k] \in AllBytes(s)
  BY DEF AllBytes
<1>2. <<NoByte>>[1] = NoByte /\ 1 \in DOMAIN <<NoByte>>
  OBVIOUS
<1> QED BY <1>1, <1>2

\* Sending adds bytes.
LEMMA BytesGrow ==
  ASSUME NEW s \in Seq(Seq(Byte)), NEW t \in Seq(Byte)
  PROVE  /\ AllBytes(s) \subseteq AllBytes(Append(s, t))
         /\ \A k \in DOMAIN t : t[k] \in AllBytes(Append(s, t))
<1>1. DOMAIN s \subseteq DOMAIN Append(s, t) /\ \A m \in DOMAIN s : Append(s, t)[m] = s[m]
  OBVIOUS
<1>2. {s[m] : m \in DOMAIN s} \subseteq {Append(s, t)[m] : m \in DOMAIN Append(s, t)}
  BY <1>1
<1>3. Len(s) + 1 \in DOMAIN Append(s, t) /\ Append(s, t)[Len(s) + 1] = t
  OBVIOUS
<1>4. \A k \in DOMAIN t : t[k] \in AllBytes(Append(s, t))
  BY <1>3, BytesHave
<1>5. AllBytes(s) \subseteq AllBytes(Append(s, t))
  <2> SUFFICES ASSUME NEW b \in AllBytes(s) PROVE b \in AllBytes(Append(s, t))
    OBVIOUS
  <2>1. PICK u \in {s[m] : m \in DOMAIN s} \cup {Message(0, Handshake), <<NoByte>>} :
               b \in {u[k] : k \in DOMAIN u}
    BY DEF AllBytes
  <2>2. u \in {Append(s, t)[m] : m \in DOMAIN Append(s, t)}
                 \cup {Message(0, Handshake), <<NoByte>>}
    BY <1>2
  <2> QED BY <2>1, <2>2 DEF AllBytes
<1> QED BY <1>4, <1>5
-----------------------------------------------------------------------------
\* Arithmetic the provers do not find among other facts.
LEMMA Less ==
  ASSUME NEW a \in Int, NEW b \in Int, a <= b
  PROVE  a + 1 = b + 1 \/ a + 1 < b + 1
OBVIOUS

\* The same, not behind.
LEMMA LessOrSame ==
  ASSUME NEW a \in Int, NEW b \in Int, a <= b
  PROVE  a = b \/ a < b
OBVIOUS

\* The one behind a place.
LEMMA OneBehind ==
  ASSUME NEW a \in Nat, NEW b \in Nat, NEW n \in Nat, NEW i \in Nat,
         i = b + (n + 1), i - a = 1
  PROVE  b + n = a
OBVIOUS

\* The bounds of a place that moves by d.
LEMMA Nearby ==
  ASSUME NEW a \in Nat, NEW b \in Nat, NEW d \in Nat, NEW i \in Nat,
         a < i + d, i + d <= b
  PROVE  a - d < i /\ i <= b - d
OBVIOUS

\* The places from one that moves by d.
LEMMA Shift ==
  ASSUME NEW a \in Nat, NEW b \in Nat, NEW c \in Nat, NEW d \in Nat, NEW n \in Nat,
         NEW k \in 1..c, b = a - d, b + c <= n - d
  PROVE  b + k \in 1..n - d /\ b + k + d = a + k
OBVIOUS

\* Where the next message starts, and that it is there, while bytes wait.
LEMMA LaidFirst ==
  ASSUME NEW s \in Seq(Seq(Byte)), NEW h \in Nat, h <= Len(s), NEW n \in Nat,
         NEW w, NEW st, Laid(st, w, n, s, h)
  PROVE  /\ n > 0 => h < Len(s)
         /\ h < Len(s) => /\ st[h+2] = Len(s[h+1]) /\ Len(s[h+1]) <= n
                          /\ Leads(w, s, h)
         /\ \A m \in h+1..Len(s)+1 : st[m] \in Nat
<1> DEFINE f == h + 1
<1>1. h + 1 \in h+1..Len(s)+1 /\ Len(s) + 1 \in h+1..Len(s)+1
  OBVIOUS
<1>2. \A m \in h+1..Len(s)+1 : st[m] \in Nat
  BY DEF Laid
<1>3. ASSUME n > 0 PROVE h < Len(s)
  <2>1. h # Len(s)
    BY <1>3 DEF Laid
  <2> QED BY <2>1
<1>4. ASSUME h < Len(s)
      PROVE  /\ st[h+2] = Len(s[h+1]) /\ Len(s[h+1]) <= n
             /\ \A k \in 1..Len(s[h+1]) : w[k] = s[h+1][k]
  <2>1. h + 1 \in h+1..Len(s) /\ h + 1 + 1 = h + 2 /\ st[h+1] = 0
        /\ h + 1 \in 1..Len(s) /\ Len(s[h+1]) \in Nat
    BY <1>4 DEF Laid
  <2>2. st[h+2] = Len(s[h+1])
    BY <2>1 DEF Laid
  <2>3. h + 2 = Len(s) + 1 \/ h + 2 < Len(s) + 1
    BY <1>4
  <2>4. h + 2 \in h+1..Len(s)+1
    BY <1>4
  <2>5. st[h+2] <= st[Len(s)+1]
    <3>1. CASE h + 2 = Len(s) + 1
      BY <3>1, <1>2, <2>4
    <3>2. CASE h + 2 < Len(s) + 1
      <4>1. st[h+2] < st[Len(s)+1]
        BY <3>2, <2>4, <1>1 DEF Laid
      <4> QED BY <4>1, <1>2, <2>4, <1>1
    <3> QED BY <2>3, <3>1, <3>2
  <2>6. \A k \in 1..Len(s[h+1]) : w[st[h+1] + k] = s[h+1][k]
    BY <2>1 DEF Laid
  <2>7. \A k \in 1..Len(s[h+1]) : st[h+1] + k = k
    BY <2>1
  <2> QED BY <2>2, <2>5, <2>6, <2>7 DEF Laid
<1> QED BY <1>2, <1>3, <1>4 DEF Leads

\* Another message is sent: it lies behind the others.
LEMMA LaidSend ==
  ASSUME NEW s \in Seq(Seq(Byte)), NEW h \in Nat, h <= Len(s), NEW n \in Nat,
         NEW w, NEW w2, NEW st, Laid(st, w, n, s, h),
         NEW t \in Seq(Byte), Len(t) >= 1,
         Extended(w2, w, n, t)
  PROVE  \E st2 : /\ Laid(st2, w2, n + Len(t), Append(s, t), h)
                  /\ Agree(st2, st, s, h)
<1> DEFINE q == Append(s, t)
           st2 == [m \in h+1..Len(s)+2 |-> IF m <= Len(s) + 1 THEN st[m] ELSE n + Len(t)]
<1>1. /\ Len(q) = Len(s) + 1 /\ q[Len(s)+1] = t
      /\ \A m \in 1..Len(s) : q[m] = s[m]
  OBVIOUS
<1>2. /\ Len(s) \in Nat /\ Len(t) \in Nat
      /\ \A m \in h+1..Len(s) : m \in 1..Len(s) /\ Len(s[m]) \in Nat
  OBVIOUS
<1>3. \A m \in h+1..Len(s)+1 : st2[m] = st[m] /\ st[m] \in Nat
  <2>1. st \in [h+1..Len(s)+1 -> Nat]
    BY DEF Laid
  <2>2. \A m \in h+1..Len(s)+1 : m \in h+1..Len(s)+2 /\ m <= Len(s) + 1
    BY <1>2
  <2> QED BY <2>1, <2>2
<1>4. st2[Len(s)+2] = n + Len(t)
  BY <1>2
<1>5. st[h+1] = 0 /\ st[Len(s)+1] = n
  BY DEF Laid
<1>6. \A m \in h+1..Len(s)+1 : st[m] <= n
  <2> SUFFICES ASSUME NEW m \in h+1..Len(s)+1 PROVE st[m] <= n
    OBVIOUS
  <2>1. m = Len(s) + 1 \/ m < Len(s) + 1
    BY <1>2
  <2>2. ASSUME m < Len(s) + 1 PROVE st[m] < st[Len(s)+1]
    <3>1. Len(s) + 1 \in h+1..Len(s)+1
      BY <1>2
    <3> QED BY <2>2, <3>1 DEF Laid
  <2>3. st[m] \in Nat /\ st[Len(s)+1] = n
    BY <1>3, <1>5
  <2> QED BY <2>1, <2>2, <2>3
<1>7. st2 \in [h+1..Len(q)+1 -> Nat]
  <2>1. \A m \in h+1..Len(s)+2 : (IF m <= Len(s) + 1 THEN st[m] ELSE n + Len(t)) \in Nat
    <3>1. n + Len(t) \in Nat
      BY <1>2
    <3>2. \A m \in h+1..Len(s)+2 : m <= Len(s) + 1 => m \in h+1..Len(s)+1
      BY <1>2
    <3> QED BY <1>3, <3>1, <3>2
  <2>2. Len(q) + 1 = Len(s) + 2
    BY <1>1, <1>2
  <2> QED BY <2>1, <2>2
<1> HIDE DEF st2, q
<1>8. h + 1 \in h+1..Len(s)+1 /\ Len(s) + 1 \in h+1..Len(s)+1
  BY <1>2
<1>9. st2[h+1] = 0 /\ st2[Len(q)+1] = n + Len(t)
  <2>1. Len(q) + 1 = Len(s) + 2
    BY <1>1, <1>2
  <2> QED BY <2>1, <1>3, <1>4, <1>5, <1>8
<1>10. \A m \in h+1..Len(q) : m = Len(s) + 1 \/ m \in h+1..Len(s)
  BY <1>1, <1>2
<1>11. ASSUME NEW m \in h+1..Len(q)
       PROVE  /\ st2[m+1] = st2[m] + Len(q[m])
              /\ \A k \in 1..Len(q[m]) : w2[st2[m] + k] = q[m][k]
  <2>1. CASE m = Len(s) + 1
    <3>1. st2[m] = n /\ q[m] = t /\ m + 1 = Len(s) + 2
      BY <2>1, <1>1, <1>2, <1>3, <1>5, <1>8
    <3> QED BY <3>1, <1>4 DEF Extended
  <2>2. CASE m \in h+1..Len(s)
    <3>1. q[m] = s[m] /\ Len(s[m]) \in Nat
      BY <2>2, <1>1, <1>2
    <3>2. m \in h+1..Len(s)+1 /\ m + 1 \in h+1..Len(s)+1
      BY <2>2, <1>2
    <3>3. st[m+1] = st[m] + Len(s[m]) /\ \A k \in 1..Len(s[m]) : w[st[m] + k] = s[m][k]
      BY <2>2 DEF Laid
    <3>4. st2[m] = st[m] /\ st2[m+1] = st[m+1] /\ st[m] \in Nat /\ st[m+1] \in Nat /\ st[m+1] <= n
      BY <3>2, <1>3, <1>6
    <3>5. ASSUME NEW k \in 1..Len(s[m]) PROVE st[m] + k \in 1..n
      <4>1. st[m+1] = st[m] + Len(s[m]) /\ st[m] \in Nat /\ st[m+1] <= n /\ Len(s[m]) \in Nat
        BY <3>1, <3>3, <3>4
      <4> QED BY <4>1
    <3>6. \A k \in 1..Len(s[m]) : w2[st[m] + k] = w[st[m] + k]
      BY <3>5 DEF Extended
    <3> QED BY <3>1, <3>3, <3>4, <3>6
  <2> QED BY <2>1, <2>2, <1>10
<1>12. ASSUME NEW m \in h+1..Len(q)+1, NEW l \in h+1..Len(q)+1, m < l
       PROVE  st2[m] < st2[l]
  <2>1. m \in h+1..Len(s)+1
    BY <1>12, <1>1, <1>2
  <2>2. CASE l = Len(s) + 2
    <3>1. st2[m] <= n
      BY <2>1, <1>3, <1>6
    <3>2. st2[m] \in Nat
      BY <2>1, <1>3
    <3> QED BY <2>2, <3>1, <3>2, <1>2, <1>4
  <2>3. CASE l # Len(s) + 2
    <3>1. l \in h+1..Len(s)+1
      BY <2>3, <1>1, <1>2
    <3>2. st[m] < st[l]
      BY <2>1, <3>1, <1>12 DEF Laid
    <3> QED BY <2>1, <3>1, <3>2, <1>3
  <2> QED BY <2>2, <2>3
<1>13. ASSUME NEW i \in 1..n + Len(t)
       PROVE  \E m \in h+1..Len(q) : st2[m] < i /\ i <= st2[m+1]
  <2>1. CASE i <= n
    <3>1. i \in 1..n
      BY <2>1, <1>2
    <3>2. PICK m \in h+1..Len(s) : st[m] < i /\ i <= st[m+1]
      BY <3>1 DEF Laid
    <3>3. m \in h+1..Len(s)+1 /\ m + 1 \in h+1..Len(s)+1 /\ m \in h+1..Len(q)
      BY <1>1, <1>2
    <3> QED BY <3>2, <3>3, <1>3
  <2>2. CASE i > n
    <3>1. Len(s) + 1 \in h+1..Len(q) /\ Len(s) + 1 + 1 = Len(s) + 2
      BY <1>1, <1>2
    <3>2. st2[Len(s)+1] = n
      BY <1>3, <1>5, <1>8
    <3> QED BY <2>2, <3>1, <3>2, <1>2, <1>4
  <2> QED BY <2>1, <2>2, <1>2
<1>14. Laid(st2, w2, n + Len(t), q, h)
  BY <1>7, <1>9, <1>11, <1>12, <1>13 DEF Laid
<1>15. Agree(st2, st, s, h)
  BY <1>3 DEF Agree
<1> QED BY <1>14, <1>15 DEF q

\* A message is handled: the others lie where they lay, nearer by its length.
LEMMA LaidTake ==
  ASSUME NEW s \in Seq(Seq(Byte)), NEW h \in Nat, h < Len(s), NEW n \in Nat,
         NEW w, NEW w2, NEW st, Laid(st, w, n, s, h),
         Filled(s),
         NEW L, L = Len(s[h+1]),
         Behind(w2, w, n, L)
  PROVE  \E st2 : /\ Laid(st2, w2, n - L, s, h + 1)
                  /\ Nearer(st2, st, s, h, L)
<1> DEFINE st2 == [m \in h+2..Len(s)+1 |-> st[m] - L]
<1>1. /\ Len(s) \in Nat /\ h + 1 \in 1..Len(s) /\ L \in Nat /\ L >= 1
      /\ \A m \in h+1..Len(s) : m \in 1..Len(s) /\ Len(s[m]) \in Nat
  BY DEF Filled
<1>2. st[h+2] = L /\ L <= n /\ \A m \in h+1..Len(s)+1 : st[m] \in Nat
  BY LaidFirst
<1>3. \A m \in h+2..Len(s)+1 : m \in h+1..Len(s)+1 /\ st[m] >= L
  <2> SUFFICES ASSUME NEW m \in h+2..Len(s)+1 PROVE m \in h+1..Len(s)+1 /\ st[m] >= L
    OBVIOUS
  <2>1. m \in h+1..Len(s)+1 /\ h + 2 \in h+1..Len(s)+1
    BY <1>1
  <2>2. m = h + 2 \/ h + 2 < m
    BY <1>1
  <2>3. ASSUME h + 2 < m PROVE st[h+2] < st[m]
    BY <2>1, <2>3 DEF Laid
  <2> QED BY <1>2, <2>1, <2>2, <2>3
<1>4. /\ \A m \in h+2..Len(s)+1 : st2[m] = st[m] - L /\ st2[m] \in Nat
      /\ st2 \in [h+2..Len(s)+1 -> Nat]
  BY <1>1, <1>2, <1>3
<1> HIDE DEF st2
<1>5. h + 2 \in h+2..Len(s)+1 /\ Len(s) + 1 \in h+2..Len(s)+1 /\ h + 1 + 1 = h + 2
  BY <1>1
<1>6. st2[h+2] = 0 /\ st2[Len(s)+1] = n - L
  <2>1. st2[h+2] = st[h+2] - L /\ st2[Len(s)+1] = st[Len(s)+1] - L
    BY <1>4, <1>5
  <2>2. st[Len(s)+1] = n
    BY DEF Laid
  <2> QED BY <1>1, <1>2, <2>1, <2>2
<1>7. ASSUME NEW m \in h+2..Len(s)
      PROVE  /\ st2[m+1] = st2[m] + Len(s[m])
             /\ \A k \in 1..Len(s[m]) : w2[st2[m] + k] = s[m][k]
  <2>1. m \in h+1..Len(s) /\ m \in h+2..Len(s)+1 /\ m + 1 \in h+2..Len(s)+1
    BY <1>1
  <2>2. st[m+1] = st[m] + Len(s[m]) /\ \A k \in 1..Len(s[m]) : w[st[m] + k] = s[m][k]
    BY <2>1 DEF Laid
  <2>3. /\ st2[m] = st[m] - L /\ st2[m+1] = st[m+1] - L
        /\ st[m] \in Nat /\ st[m+1] \in Nat /\ st[m] >= L
        /\ Len(s[m]) \in Nat
    BY <2>1, <1>1, <1>2, <1>3, <1>4
  <2>4. st2[m+1] = st2[m] + Len(s[m])
    BY <2>2, <2>3, <1>1
  <2>5. st2[m+1] <= n - L
    <3>1. m + 1 = Len(s) + 1 \/ m + 1 < Len(s) + 1
      <4>1. m \in Int /\ m <= Len(s) /\ Len(s) \in Int
        BY <1>1
      <4> QED BY <4>1, Less
    <3>2. ASSUME m + 1 < Len(s) + 1 PROVE st[m+1] < st[Len(s)+1]
      <4>1. m + 1 \in h+1..Len(s)+1 /\ Len(s) + 1 \in h+1..Len(s)+1
        BY <1>1
      <4> QED BY <3>2, <4>1 DEF Laid
    <3>3. st[Len(s)+1] = n
      BY DEF Laid
    <3> QED BY <3>1, <3>2, <3>3, <2>3, <1>1
  <2>6. \A k \in 1..Len(s[m]) : st2[m] + k \in 1..n - L /\ st2[m] + k + L = st[m] + k
    <3> SUFFICES ASSUME NEW k \in 1..Len(s[m])
                 PROVE  st2[m] + k \in 1..n - L /\ st2[m] + k + L = st[m] + k
      OBVIOUS
    <3>1. /\ st2[m] \in Nat /\ st2[m] = st[m] - L /\ st2[m+1] = st2[m] + Len(s[m])
          /\ st2[m+1] <= n - L /\ st[m] \in Nat /\ L \in Nat /\ Len(s[m]) \in Nat
      BY <2>1, <2>3, <2>4, <2>5, <1>1, <1>4
    <3> DEFINE a == st[m]  b == st2[m]  c == Len(s[m])
    <3>2. a \in Nat /\ b = a - L /\ b + c <= n - L /\ L \in Nat /\ c \in Nat /\ k \in 1..c
          /\ b \in Nat
      BY <3>1
    <3> HIDE DEF a, b, c
    <3>3. b + k \in 1..n - L /\ b + k + L = a + k
      BY <3>2, Shift
    <3> QED BY <3>3 DEF a, b
  <2>7. \A k \in 1..Len(s[m]) : w2[st2[m] + k] = w[st[m] + k]
    BY <2>6 DEF Behind
  <2> QED BY <2>2, <2>4, <2>7
<1>8. ASSUME NEW m \in h+2..Len(s)+1, NEW l \in h+2..Len(s)+1, m < l
      PROVE  st2[m] < st2[l]
  <2>1. m \in h+1..Len(s)+1 /\ l \in h+1..Len(s)+1
    BY <1>3
  <2>2. st[m] < st[l]
    BY <2>1, <1>8 DEF Laid
  <2>3. st2[m] = st[m] - L /\ st2[l] = st[l] - L /\ st[m] \in Nat /\ st[l] \in Nat
    BY <2>1, <1>2, <1>4
  <2> QED BY <2>2, <2>3, <1>1
<1>9. ASSUME NEW i \in 1..n - L
      PROVE  \E m \in h+2..Len(s) : st2[m] < i /\ i <= st2[m+1]
  <2>1. i + L \in 1..n
    BY <1>1, <1>2
  <2>2. PICK m \in h+1..Len(s) : st[m] < i + L /\ i + L <= st[m+1]
    BY <2>1 DEF Laid
  <2>3. m # h + 1
    BY <2>2, <1>1, <1>2, <1>5
  <2>4. m \in h+2..Len(s) /\ m \in h+2..Len(s)+1 /\ m + 1 \in h+2..Len(s)+1
        /\ m \in h+1..Len(s)+1 /\ m + 1 \in h+1..Len(s)+1
    BY <2>3, <1>1
  <2>5. st2[m] = st[m] - L /\ st2[m+1] = st[m+1] - L /\ st[m] \in Nat /\ st[m+1] \in Nat
    BY <2>4, <1>2, <1>4
  <2>6. st2[m] < i /\ i <= st2[m+1]
    <3>1. st[m] - L < i /\ i <= st[m+1] - L
      <4>1. i \in Nat /\ L \in Nat
        BY <1>1
      <4> QED BY <2>2, <2>5, <4>1, Nearby
    <3> QED BY <2>5, <3>1
  <2> QED BY <2>4, <2>6
<1>10. Laid(st2, w2, n - L, s, h + 1)
  BY <1>4, <1>5, <1>6, <1>7, <1>8, <1>9 DEF Laid
<1>11. Nearer(st2, st, s, h, L)
  BY <1>4 DEF Nearer
<1> QED BY <1>10, <1>11
-----------------------------------------------------------------------------
\* The server is where Tracked speaks of it.
Known == ~joined /\ pc # "closed" /\ (~torn \/ handled = <<>>)

\* What StreamInv says of the numbers of messages and bytes.
LEMMA StreamNumbers ==
  ASSUME StreamInv
  PROVE  /\ buflen \in Nat /\ buflen <= BufSize /\ bufhead \in Nat /\ bufhead <= BufSize
         /\ net \in Seq(AllBytes(messages)) /\ Len(net) \in Nat
         /\ messages \in Seq(Seq(Byte)) /\ Len(messages) \in Nat
         /\ handled \in Seq(Seq(Byte)) /\ Len(handled) \in Nat
         /\ BufSize \in Nat /\ Handshake \in Nat
         /\ Filled(messages)
         /\ AllBytes(messages) \subseteq Byte
<1>1. /\ bufhead \in 0..BufSize /\ buflen \in 0..BufSize /\ net \in Seq(AllBytes(messages))
      /\ messages \in Seq(Seq(Byte)) /\ handled \in Seq(Seq(Byte))
      /\ \A m \in 1..Len(messages) : messages[m] \in MessagesAt(m)
  BY DEF StreamInv, Values
<1>2. Filled(messages)
  <2> SUFFICES ASSUME NEW m \in 1..Len(messages) PROVE Len(messages[m]) >= 1
    BY DEF Filled
  <2>1. m \in Nat /\ messages[m] \in MessagesAt(m)
    BY <1>1
  <2>2. Len(messages[m]) \in Nat /\ Len(messages[m]) >= 2
    BY <2>1, SentIs
  <2> QED BY <2>2
<1> QED BY <1>1, <1>2, Constants, BytesAre

\* The messages the server is to handle.
LEMMA KnownNumbers ==
  ASSUME StreamInv, Known
  PROVE  /\ Len(handled) <= Len(messages)
         /\ Waiting \in Nat /\ Ahead \in Nat /\ Len(net) >= Ahead /\ Waiting >= buflen
         /\ Waiting > 0 => Len(handled) < Len(messages)
         /\ Len(handled) < Len(messages) => Len(messages[Len(handled)+1]) <= Waiting
         /\ handled = <<>> => bufhead = 0
<1>1. PICK st : Laid(st, Pending, Waiting, messages, Len(handled))
  BY DEF StreamInv, Tracked, Known
<1>2. Len(handled) <= Len(messages)
  BY StreamNumbers DEF StreamInv, Replayed, Known
<1>3. Len(handled) \in Nat /\ Len(messages) \in Nat
  BY StreamNumbers
<1>4. Len(messages) + 1 \in Len(handled)+1..Len(messages)+1
  BY <1>2, <1>3
<1>5. Waiting \in Nat
  BY <1>1, <1>4 DEF Laid
<1>6. Ahead \in Nat /\ (Ahead > 0 => buflen = 0)
  BY StreamNumbers DEF Ahead, StreamInv, Start
<1>7. Len(net) >= Ahead /\ Waiting >= buflen
  BY <1>5, <1>6, StreamNumbers DEF Waiting
<1>8. (Waiting > 0 => Len(handled) < Len(messages))
      /\ (Len(handled) < Len(messages) => Len(messages[Len(handled)+1]) <= Waiting)
  BY <1>1, <1>2, <1>3, <1>5, StreamNumbers, LaidFirst
<1>9. handled = <<>> => bufhead = 0
  BY DEF StreamInv, Start
<1> QED BY <1>2, <1>5, <1>6, <1>7, <1>8, <1>9

\* The next message is found where it was sent to lie.
LEMMA LooksRight ==
  ASSUME StreamInv, Known, LooksFor
  PROVE  /\ Len(handled) < Len(messages)
         /\ messages[Len(handled)+1] \in MessagesAt(Len(handled)+1)
         /\ MsgLen = Len(messages[Len(handled)+1])
         /\ \A k \in 1..Len(messages[Len(handled)+1]) :
              k <= buflen => buf[bufhead + k - 1] = messages[Len(handled)+1][k]
<1> DEFINE h == Len(handled)  t == messages[h+1]
<1>1. PICK st : Laid(st, Pending, Waiting, messages, h)
  BY DEF StreamInv, Tracked, Known
<1>2. /\ h \in Nat /\ Len(messages) \in Nat /\ h <= Len(messages)
      /\ buflen \in Nat /\ bufhead \in Nat
      /\ Waiting \in Nat /\ buflen >= 2 /\ Waiting >= buflen /\ messages \in Seq(Seq(Byte))
      /\ Filled(messages)
  BY StreamNumbers, KnownNumbers DEF LooksFor
<1>3. h < Len(messages)
  BY <1>2, KnownNumbers
<1>4. \A k \in 1..Len(t) : Pending[k] = t[k]
  <2>1. h \in Nat /\ h <= Len(messages) /\ Waiting \in Nat /\ messages \in Seq(Seq(Byte))
    BY <1>2
  <2>2. Leads(Pending, messages, h)
    BY <1>1, <1>3, <2>1, LaidFirst
  <2> QED BY <2>2 DEF Leads
<1>5. Len(t) <= Waiting
  BY <1>3, KnownNumbers
<1>6. t \in MessagesAt(h+1) /\ h + 1 \in Nat
  <2>1. h + 1 \in 1..Len(messages) /\ h + 1 \in Nat
    BY <1>2, <1>3
  <2>2. \A m \in 1..Len(messages) : messages[m] \in MessagesAt(m)
    BY DEF StreamInv, Values
  <2> QED BY <2>1, <2>2
<1>7. Len(t) \in Nat /\ Len(t) >= 2 /\ t[1].val = 0 /\ t[2].val = Len(t)
  BY <1>6, SentIs
<1>8. ASSUME NEW k \in 1..Len(t), k <= buflen
      PROVE  buf[bufhead + k - 1] = t[k]
  <2>1. k \in 1..Waiting
    BY <1>2, <1>5, <1>7
  <2>2. Pending[k] = buf[bufhead + k - 1]
    BY <2>1, <1>8 DEF Pending
  <2> QED BY <2>2, <1>4
<1>9. buf[bufhead] = t[1] /\ buf[bufhead+1] = t[2]
  <2>1. 1 \in 1..Len(t) /\ 2 \in 1..Len(t) /\ 1 <= buflen /\ 2 <= buflen
    BY <1>2, <1>7
  <2>2. bufhead + 1 - 1 = bufhead /\ bufhead + 2 - 1 = bufhead + 1
    BY <1>2
  <2> QED BY <2>1, <2>2, <1>8
<1>10. MsgLen = Len(t)
  BY <1>7, <1>9 DEF MsgLen
<1> QED BY <1>3, <1>6, <1>8, <1>10

\* Tracked of a later state, from the layout.
LEMMA TrackedAgain ==
  ASSUME Known' => \E st : /\ Laid(st, Pending', Waiting', messages', Len(handled'))
                           /\ ~torn' => Shape(st)'
  PROVE  Tracked'
BY DEF Tracked, Known

\* Nothing lies elsewhere.
LEMMA PendingKept ==
  ASSUME Waiting' = Waiting,
         \A i \in 1..Waiting : Pending'[i] = Pending[i]
  PROVE  Pending' = Pending
<1>1. Pending = [i \in 1..Waiting |-> Pending[i]]
  BY DEF Pending
<1>2. Pending' = [i \in 1..Waiting |-> Pending'[i]]
  BY DEF Pending
<1> QED BY <1>1, <1>2

\* Before the handshake nothing is sent.
LEMMA InitTracked == ASSUME ServerInit PROVE StreamInv
<1>1. /\ BufSize \in Nat /\ Handshake \in Nat /\ Handshake >= 2 /\ Handshake <= BufSize
  BY Constants
<1>2. Values
  <2>1. \A k \in DOMAIN net : net[k] \in AllBytes(messages)
    BY BytesHave DEF ServerInit
  <2>2. net \in Seq(Byte) /\ Len(net) = Handshake /\ DOMAIN net = 1..Handshake
    BY <1>1, MessageIs DEF ServerInit
  <2>3. net = [k \in 1..Handshake |-> net[k]]
    BY DEF ServerInit, Message
  <2>4. net \in Seq(AllBytes(messages))
    BY <1>1, <2>1, <2>2, <2>3
  <2>5. buf \in [BufPositions -> AllBytes(messages)]
    BY BytesHave DEF ServerInit
  <2>6. /\ messages \in Seq(Seq(Byte)) /\ handled \in Seq(Seq(Byte)) /\ Len(messages) = 0
    BY DEF ServerInit
  <2>7. /\ bufhead \in 0..BufSize /\ buflen \in 0..BufSize /\ pc = "handshake"
    BY <1>1 DEF ServerInit
  <2>9. joined = FALSE /\ torn = FALSE
    BY DEF ServerInit
  <2>8. \A m \in 1..Len(messages) : messages[m] \in MessagesAt(m)
    BY <2>6
  <2> QED BY <2>4, <2>5, <2>6, <2>7, <2>8, <2>9 DEF Values
<1>3. Start /\ Fits /\ Replayed
  BY <1>1 DEF ServerInit, Start, Fits, Replayed
<1>4. Tracked
  <2> DEFINE st == [m \in 1..1 |-> 0]
  <2>1. Waiting = 0
    BY <1>1, MessageIs DEF ServerInit, Waiting, Ahead
  <2>2. Len(messages) = 0 /\ Len(handled) = 0
    BY DEF ServerInit
  <2>3. Laid(st, Pending, Waiting, messages, Len(handled))
    <3> HIDE DEF Pending
    <3> QED BY <2>1, <2>2 DEF Laid
  <2>4. Shape(st)
    BY DEF ServerInit, Shape
  <2> QED BY <2>3, <2>4 DEF Tracked
<1> QED BY <1>2, <1>3, <1>4 DEF StreamInv

\* A message that is sent lies behind those on the way.
LEMMA SendTracked ==
  ASSUME StreamInv, NEW n \in Sizes, ClientSend(n)
  PROVE  StreamInv'
<1> DEFINE t == Message(Len(messages) + 1, n)  h == Len(handled)
<1>1. /\ messages' = Append(messages, t) /\ net' = net \o t
      /\ UNCHANGED <<buf, bufhead, buflen, pc, handled, joined, torn>>
  BY DEF ClientSend, cuts
<1>2. /\ n \in Nat /\ n >= 2 /\ Len(messages) \in Nat /\ messages \in Seq(Seq(Byte))
      /\ net \in Seq(AllBytes(messages)) /\ handled \in Seq(Seq(Byte)) /\ h \in Nat
      /\ buflen \in Nat /\ Len(net) \in Nat
  BY Constants, StreamNumbers
<1>3. t \in Seq(Byte) /\ Len(t) = n /\ DOMAIN t = 1..n /\ t \in MessagesAt(Len(messages)+1)
  <2>1. Len(messages) + 1 \in Nat
    BY <1>2
  <2>2. t \in Seq(Byte) /\ Len(t) = n /\ DOMAIN t = 1..n
    BY <1>2, <2>1, MessageIs
  <2>3. t \in MessagesAt(Len(messages)+1)
    BY DEF MessagesAt
  <2> QED BY <2>2, <2>3
<1> HIDE DEF t
<1>4. /\ messages' \in Seq(Seq(Byte)) /\ Len(messages') = Len(messages) + 1
      /\ messages'[Len(messages)+1] = t
      /\ \A m \in 1..Len(messages) : messages'[m] = messages[m]
  BY <1>1, <1>2, <1>3
<1>5. /\ AllBytes(messages) \subseteq AllBytes(messages')
      /\ t \in Seq(AllBytes(messages'))
  <2>1. /\ AllBytes(messages) \subseteq AllBytes(messages')
        /\ \A k \in 1..n : t[k] \in AllBytes(messages')
    BY <1>1, <1>2, <1>3, BytesGrow
  <2>2. t = [k \in 1..n |-> t[k]]
    BY DEF t, Message
  <2>3. [k \in 1..n |-> t[k]] \in [1..n -> AllBytes(messages')]
    BY <2>1
  <2>4. [1..n -> AllBytes(messages')] \subseteq Seq(AllBytes(messages'))
    BY <1>2
  <2> QED BY <2>1, <2>2, <2>3, <2>4
<1>6. /\ net' \in Seq(AllBytes(messages')) /\ Len(net') = Len(net) + n
      /\ \A i \in 1..Len(net) : net'[i] = net[i]
      /\ \A k \in 1..n : net'[Len(net) + k] = t[k]
  <2>1. net \in Seq(AllBytes(messages'))
    BY <1>2, <1>5
  <2>2. /\ net' \in Seq(AllBytes(messages')) /\ Len(net') = Len(net) + n
        /\ \A i \in 1..Len(net) + n : net'[i] = IF i <= Len(net) THEN net[i] ELSE t[i - Len(net)]
    BY <2>1, <1>1, <1>3, <1>5, ConcatProperties
  <2>3. \A i \in 1..Len(net) : net'[i] = net[i]
    BY <2>2, <1>2
  <2>4. ASSUME NEW k \in 1..n PROVE net'[Len(net) + k] = t[k]
    <3>1. /\ Len(net) + k \in 1..Len(net) + n /\ ~(Len(net) + k <= Len(net))
          /\ Len(net) + k - Len(net) = k
      BY <1>2
    <3> QED BY <2>2, <3>1
  <2> QED BY <2>2, <2>3, <2>4
<1>7. Values'
  <2>1. \A m \in 1..Len(messages') : messages'[m] \in MessagesAt(m)
    <3>1. \A m \in 1..Len(messages) : messages[m] \in MessagesAt(m)
      BY DEF StreamInv, Values
    <3>2. \A m \in 1..Len(messages') : m \in 1..Len(messages) \/ m = Len(messages) + 1
      BY <1>2, <1>4
    <3> QED BY <1>3, <1>4, <3>1, <3>2
  <2>2. buf' \in [BufPositions -> AllBytes(messages')]
    BY <1>1, <1>5 DEF StreamInv, Values
  <2> QED BY <1>1, <1>4, <1>6, <2>1, <2>2 DEF StreamInv, Values, MessagesAt
<1>8. Start' /\ Fits'
  BY <1>1 DEF StreamInv, Start, Fits
<1>9. Replayed'
  <2>1. ASSUME ~joined, ~torn
        PROVE  h <= Len(messages') /\ \A i \in 1..h : handled[i] = messages'[i]
    <3>1. h <= Len(messages) /\ \A i \in 1..h : handled[i] = messages[i]
      BY <2>1 DEF StreamInv, Replayed
    <3> QED BY <3>1, <1>2, <1>4
  <2>2. ASSUME ~joined, handled # <<>>
        PROVE  messages' # <<>> /\ handled[1] = messages'[1]
    <3>1. messages # <<>> /\ handled[1] = messages[1]
      BY <2>2 DEF StreamInv, Replayed
    <3> QED BY <3>1, <1>2, <1>4
  <2> QED BY <1>1, <2>1, <2>2 DEF Replayed
<1>10. Tracked'
  <2> SUFFICES ASSUME Known
               PROVE  \E st : /\ Laid(st, Pending', Waiting', messages', h)
                              /\ ~torn => Shape(st)'
    BY <1>1, TrackedAgain DEF Known
  <2>1. PICK st : Laid(st, Pending, Waiting, messages, h) /\ (~torn => Shape(st))
    BY DEF StreamInv, Tracked, Known
  <2>2. /\ Waiting \in Nat /\ Ahead \in Nat /\ Len(net) >= Ahead /\ Waiting >= buflen
        /\ h <= Len(messages) /\ (Waiting > 0 => h < Len(messages))
    BY KnownNumbers
  <2>3. Ahead' = Ahead /\ Waiting' = Waiting + n
    BY <1>1, <1>2, <1>6, <2>2 DEF Waiting, Ahead
  <2>8. Pending' = [i \in 1..Waiting + n |-> IF i <= buflen THEN buf[bufhead + i - 1]
                                            ELSE net'[i - buflen + Ahead]]
    BY <1>1, <2>3 DEF Pending
  <2>4. Extended(Pending', Pending, Waiting, t)
    <3>1. ASSUME NEW i \in 1..Waiting PROVE Pending'[i] = Pending[i]
      <4>1. i \in 1..Waiting'
        BY <2>2, <2>3, <1>2
      <4>2. i <= buflen \/ i - buflen + Ahead \in 1..Len(net)
        BY <1>2, <2>2 DEF Waiting
      <4> QED BY <4>1, <4>2, <1>1, <1>6, <2>3 DEF Pending
    <3>2. ASSUME NEW k \in 1..n PROVE Pending'[Waiting + k] = t[k]
      <4>1. Waiting + k \in 1..Waiting' /\ ~(Waiting + k <= buflen)
        BY <2>2, <2>3, <1>2
      <4>2. Waiting + k - buflen + Ahead = Len(net) + k
        BY <1>2, <2>2 DEF Waiting
      <4>3. Pending'[Waiting + k] = net'[Waiting + k - buflen + Ahead]
        <5>1. Waiting + k \in 1..Waiting + n
          BY <4>1, <2>3
        <5> QED BY <4>1, <5>1, <2>2, <2>8, <1>2
      <4> QED BY <4>2, <4>3, <1>6
    <3> QED BY <3>1, <3>2, <1>3 DEF Extended
  <2>5. PICK st2 : Laid(st2, Pending', Waiting + n, messages', h) /\ Agree(st2, st, messages, h)
    <3>1. Len(t) >= 1
      BY <1>2, <1>3
    <3>2. \E st2 : /\ Laid(st2, Pending', Waiting + Len(t), Append(messages, t), h)
                   /\ Agree(st2, st, messages, h)
      BY <3>1, <1>2, <1>3, <2>1, <2>2, <2>4, LaidSend
    <3> QED BY <3>2, <1>1, <1>3
  <2>7. ASSUME h < Len(messages) PROVE h < Len(messages') /\ messages'[h+1] = messages[h+1]
    <3>1. h + 1 \in 1..Len(messages)
      BY <2>7, <1>2
    <3> QED BY <2>7, <3>1, <1>2, <1>4
  <2>6. ASSUME ~torn PROVE Shape(st2)'
    <3>1. pc = "recv" =>
            bufhead = 0 /\ (buflen = 0 \/ (h < Len(messages') /\ buflen < Len(messages'[h+1])))
      <4>1. h < Len(messages) => h < Len(messages') /\ messages'[h+1] = messages[h+1]
        BY <2>7
      <4> QED BY <4>1, <2>1, <2>6 DEF Shape
    <3>2. ASSUME pc = "parse"
          PROVE  /\ buflen > 0
                 /\ \/ \E m \in h+2..Len(messages')+1 : buflen = st2[m]
                    \/ bufhead = 0 /\ buflen < Len(messages'[h+1])
      <4>1. buflen > 0
        BY <3>2, <2>1, <2>6 DEF Shape
      <4>2. h < Len(messages) /\ messages'[h+1] = messages[h+1]
        BY <4>1, <2>2, <2>7, <1>2
      <4>3. ASSUME NEW m \in h+2..Len(messages)+1, buflen = st[m]
            PROVE  m \in h+2..Len(messages')+1 /\ buflen = st2[m]
        BY <4>3, <2>5, <1>2, <1>4 DEF Agree
      <4> QED BY <3>2, <4>1, <4>2, <4>3, <2>1, <2>6 DEF Shape
    <3> QED BY <3>1, <3>2, <1>1 DEF Shape
  <2> QED BY <2>3, <2>5, <2>6
<1> QED BY <1>7, <1>8, <1>9, <1>10 DEF StreamInv

\* A byte that waits knows its message and its place there.
LEMMA PlaceOf ==
  ASSUME StreamInv, Len(handled) <= Len(messages), Waiting \in Nat,
         NEW st, Laid(st, Pending, Waiting, messages, Len(handled)),
         NEW i \in 1..Waiting
  PROVE  \E m \in Len(handled)+1..Len(messages), k \in Nat :
           /\ k = i - st[m] /\ st[m] \in Nat /\ k \in 1..Len(messages[m]) /\ i <= st[m+1]
           /\ Pending[i].pos = k /\ Pending[i].msg = m
<1> DEFINE h == Len(handled)
<1>1. h \in Nat /\ Len(messages) \in Nat /\ messages \in Seq(Seq(Byte))
  BY StreamNumbers
<1>2. PICK m \in h+1..Len(messages) : st[m] < i /\ i <= st[m+1]
  BY DEF Laid
<1>3. m \in Nat /\ m \in 1..Len(messages) /\ m \in h+1..Len(messages)+1
  BY <1>1
<1>4. messages[m] \in MessagesAt(m)
  BY <1>3 DEF StreamInv, Values
<1>5. /\ Len(messages[m]) \in Nat
      /\ \A k \in 1..Len(messages[m]) : messages[m][k].msg = m /\ messages[m][k].pos = k
  BY <1>3, <1>4, SentIs
<1>6. st[m] \in Nat /\ st[m+1] = st[m] + Len(messages[m])
  BY <1>3 DEF Laid
<1>7. i - st[m] \in 1..Len(messages[m]) /\ i - st[m] \in Nat /\ st[m] + (i - st[m]) = i
  BY <1>2, <1>5, <1>6
<1>8. Pending[st[m] + (i - st[m])] = messages[m][i - st[m]]
  BY <1>7 DEF Laid
<1>9. Pending[i].pos = i - st[m] /\ Pending[i].msg = m
  BY <1>5, <1>7, <1>8
<1> QED BY <1>2, <1>6, <1>7, <1>9

\* What ends behind the first message ends no nearer than it does.
LEMMA BehindFirst ==
  ASSUME StreamInv, Known, Len(handled) < Len(messages),
         NEW st, Laid(st, Pending, Waiting, messages, Len(handled)),
         NEW m \in Len(handled)+2..Len(messages)+1
  PROVE  st[m] >= Len(messages[Len(handled)+1])
<1> DEFINE h == Len(handled)
<1>1. h \in Nat /\ Len(messages) \in Nat /\ messages \in Seq(Seq(Byte)) /\ Waiting \in Nat
  BY StreamNumbers, KnownNumbers
<1>2. st[h+2] = Len(messages[h+1])
  <2>1. h <= Len(messages)
    BY <1>1
  <2> QED BY <1>1, <2>1, LaidFirst
<1>3. m \in h+1..Len(messages)+1 /\ h + 2 \in h+1..Len(messages)+1
  BY <1>1
<1>4. st[m] \in Nat /\ st[h+2] \in Nat
  BY <1>3 DEF Laid
<1>5. m = h + 2 \/ h + 2 < m
  BY <1>1
<1>6. ASSUME h + 2 < m PROVE st[h+2] < st[m]
  BY <1>3, <1>6 DEF Laid
<1> QED BY <1>2, <1>4, <1>5, <1>6

\* What a recv takes was on the way.
LEMMA ReceiveValues ==
  ASSUME StreamInv, NEW n \in Nat, NEW at \in Nat, Receive(n, at)
  PROVE  /\ n <= Len(net) /\ at + n <= BufSize
         /\ net' \in Seq(AllBytes(messages)) /\ Len(net') = Len(net) - n
         /\ \A i \in 1..Len(net) - n : net'[i] = net[n + i]
         /\ buf' \in [BufPositions -> AllBytes(messages)]
         /\ \A p \in 0..BufSize-1 : buf'[p] = IF p \in at..at+n-1 THEN net[p - at + 1] ELSE buf[p]
<1>1. /\ n <= Len(net) /\ at + n <= BufSize /\ net' = SubSeq(net, n + 1, Len(net))
      /\ buf' = [p \in BufPositions |-> IF p \in at..at+n-1 THEN net[p - at + 1] ELSE buf[p]]
  BY DEF Receive, Room
<1>2. net \in Seq(AllBytes(messages)) /\ Len(net) \in Nat /\ BufSize \in Nat
  BY StreamNumbers
<1>3. /\ net' \in Seq(AllBytes(messages)) /\ Len(net') = Len(net) - n
      /\ \A i \in 1..Len(net) - n : net'[i] = net[n + i]
  <2>1. \A i \in n+1..Len(net) : net[i] \in AllBytes(messages)
    BY <1>2
  <2>2. /\ SubSeq(net, n + 1, Len(net)) \in Seq(AllBytes(messages))
        /\ Len(SubSeq(net, n + 1, Len(net))) =
             IF n + 1 <= Len(net) THEN Len(net) - (n + 1) + 1 ELSE 0
        /\ \A i \in 1..Len(net) - (n + 1) + 1 :
             SubSeq(net, n + 1, Len(net))[i] = net[n + 1 + i - 1]
    BY <1>2, <2>1, SubSeqProperties
  <2>3. Len(net') = Len(net) - n
    BY <1>1, <1>2, <2>2
  <2>4. ASSUME NEW i \in 1..Len(net) - n PROVE net'[i] = net[n + i]
    <3>1. i \in 1..Len(net) - (n + 1) + 1 /\ n + 1 + i - 1 = n + i
      BY <1>2
    <3> QED BY <1>1, <2>2, <3>1
  <2> QED BY <1>1, <2>2, <2>3, <2>4
<1>4. ASSUME NEW p \in BufPositions
      PROVE  (IF p \in at..at+n-1 THEN net[p - at + 1] ELSE buf[p]) \in AllBytes(messages)
  <2>1. p \in at..at+n-1 => p - at + 1 \in 1..Len(net)
    BY <1>1, <1>2
  <2>2. buf[p] \in AllBytes(messages)
    BY DEF StreamInv, Values
  <2> QED BY <2>1, <2>2, <1>2
<1>5. buf' \in [BufPositions -> AllBytes(messages)]
  BY <1>1, <1>4
<1> QED BY <1>1, <1>3, <1>5 DEF BufPositions

\* The handshake alone leaves the messages on the way; more or less of it ends
\* what is claimed.
LEMMA HandshakeTracked ==
  ASSUME StreamInv, NEW n \in Nat, n >= 1, RecvHandshake(n)
  PROVE  StreamInv'
<1>1. /\ pc = "handshake" /\ pc' = (IF n < Handshake THEN "closed" ELSE "recv")
      /\ joined' = (n > Handshake) /\ Receive(n, 0)
      /\ UNCHANGED <<messages, bufhead, buflen, handled, torn>>
  BY DEF RecvHandshake
<1>2. /\ ~joined /\ ~torn /\ handled = <<>> /\ buflen = 0 /\ bufhead = 0
  BY <1>1 DEF StreamInv, Start
<1>3. /\ BufSize \in Nat /\ Handshake \in Nat /\ Handshake >= 2 /\ Len(net) \in Nat
      /\ Len(messages) \in Nat
  BY Constants, StreamNumbers
<1>4. /\ net' \in Seq(AllBytes(messages)) /\ Len(net') = Len(net) - n /\ n <= Len(net)
      /\ \A i \in 1..Len(net) - n : net'[i] = net[n + i]
      /\ buf' \in [BufPositions -> AllBytes(messages)]
  BY <1>1, ReceiveValues
<1>5. joined' \in BOOLEAN /\ pc' \in {"closed", "recv"}
  BY <1>1
<1>6. Values'
  BY <1>1, <1>4, <1>5 DEF StreamInv, Values, MessagesAt
<1>7. Start' /\ Fits' /\ Replayed'
  BY <1>1, <1>2, <1>3, <1>5 DEF Start, Fits, Replayed
<1>8. Tracked'
  <2> SUFFICES ASSUME Known'
               PROVE  \E st : /\ Laid(st, Pending', Waiting', messages', Len(handled'))
                              /\ ~torn' => Shape(st)'
    BY TrackedAgain
  <2>1. n = Handshake /\ pc' = "recv"
    <3>1. ~(n < Handshake) /\ pc' = "recv"
      BY <1>1 DEF Known
    <3>2. ~(n > Handshake)
      BY <1>1 DEF Known
    <3> QED BY <3>1, <3>2, <1>3
  <2>2. PICK st : Laid(st, Pending, Waiting, messages, Len(handled)) /\ (~torn => Shape(st))
    BY <1>1, <1>2 DEF StreamInv, Tracked
  <2>3. Waiting = Len(net) - Handshake /\ Waiting' = Waiting
    BY <1>1, <1>2, <1>3, <1>4, <2>1 DEF Waiting, Ahead
  <2>4. Pending' = Pending
    <3>1. ASSUME NEW i \in 1..Waiting PROVE Pending'[i] = Pending[i]
      <4>1. Pending[i] = net[i + Handshake]
        <5>1. ~(i <= buflen) /\ i - buflen + Handshake = i + Handshake
          BY <1>2, <1>3, <2>3
        <5> QED BY <5>1, <1>1 DEF Pending, Ahead
      <4>2. Pending'[i] = net'[i]
        <5>1. ~(i <= buflen') /\ i - buflen' + 0 = i /\ i \in 1..Waiting'
          BY <1>1, <1>2, <2>3
        <5>2. Ahead' = 0
          BY <2>1 DEF Ahead
        <5> QED BY <5>1, <5>2 DEF Pending
      <4>3. i \in 1..Len(net) - n /\ n + i = i + Handshake
        BY <1>3, <2>1, <2>3
      <4> QED BY <4>1, <4>2, <4>3, <1>4
    <3> QED BY <2>3, <3>1, PendingKept
  <2>5. Shape(st)'
    BY <1>1, <1>2, <2>1 DEF Shape
  <2> QED BY <1>1, <2>2, <2>3, <2>4, <2>5
<1> QED BY <1>6, <1>7, <1>8 DEF StreamInv

\* A recv appends to what is in use; unless it is torn it ends where Shape says.
LEMMA RecvTracked ==
  ASSUME StreamInv, NEW n \in Nat, n >= 1, Recv(n)
  PROVE  StreamInv'
<1> DEFINE h == Len(handled)
<1>1. /\ pc = "recv" /\ pc' = "parse" /\ buflen' = buflen + n /\ torn' = (torn \/ ~CleanCut(n))
      /\ Receive(n, buflen) /\ UNCHANGED <<messages, bufhead, handled, joined>>
  BY DEF Recv
<1>2. /\ BufSize \in Nat /\ Len(net) \in Nat /\ buflen \in Nat /\ bufhead \in Nat
      /\ Len(messages) \in Nat /\ h \in Nat /\ messages \in Seq(Seq(Byte)) /\ Filled(messages)
  BY StreamNumbers
<1>3. /\ n <= Len(net) /\ buflen + n <= BufSize
      /\ net' \in Seq(AllBytes(messages)) /\ Len(net') = Len(net) - n
      /\ \A i \in 1..Len(net) - n : net'[i] = net[n + i]
      /\ buf' \in [BufPositions -> AllBytes(messages)]
      /\ \A p \in 0..BufSize-1 :
           buf'[p] = IF p \in buflen..buflen+n-1 THEN net[p - buflen + 1] ELSE buf[p]
  BY <1>1, <1>2, ReceiveValues
<1>4. torn' \in BOOLEAN /\ (~torn' => ~torn /\ CleanCut(n)) /\ buflen' \in 0..BufSize
  <2>1. buflen' \in 0..BufSize
    BY <1>1, <1>2, <1>3
  <2>2. torn \in BOOLEAN
    BY DEF StreamInv, Values
  <2>3. torn' = (torn \/ ~CleanCut(n))
    BY <1>1
  <2>4. torn' \in BOOLEAN /\ (~torn' => ~torn /\ CleanCut(n))
    BY <2>2, <2>3, Zenon
  <2> QED BY <2>1, <2>4
<1>5. Values'
  BY <1>1, <1>3, <1>4 DEF StreamInv, Values, MessagesAt
<1>6. ~joined /\ ~torn => bufhead = 0
  BY <1>1 DEF StreamInv, Tracked, Shape
<1>7. Start' /\ Replayed'
  BY <1>1, <1>4 DEF StreamInv, Start, Replayed
<1>8. Fits'
  BY <1>1, <1>2, <1>3, <1>4, <1>6 DEF Fits
<1>9. Tracked'
  <2> SUFFICES ASSUME Known'
               PROVE  \E st : /\ Laid(st, Pending', Waiting', messages, h)
                              /\ ~torn' => Shape(st)'
    BY <1>1, TrackedAgain
  <2>1. Known
    BY <1>1, <1>4 DEF Known
  <2>2. PICK st : Laid(st, Pending, Waiting, messages, h) /\ (~torn => Shape(st))
    BY <2>1 DEF StreamInv, Tracked, Known
  <2>3. bufhead = 0
    BY <1>6, <2>1, KnownNumbers DEF Known
  <2>4. Waiting = buflen + Len(net) /\ Waiting' = Waiting /\ Waiting \in Nat /\ h <= Len(messages)
    BY <1>1, <1>2, <1>3, <2>1, KnownNumbers DEF Waiting, Ahead
  <2>5. \A i \in 1..Waiting : Pending[i] = IF i <= buflen THEN buf[i - 1] ELSE net[i - buflen]
    <3> SUFFICES ASSUME NEW i \in 1..Waiting
                 PROVE  Pending[i] = IF i <= buflen THEN buf[i - 1] ELSE net[i - buflen]
      OBVIOUS
    <3>1. bufhead + i - 1 = i - 1 /\ i - buflen + 0 = i - buflen /\ Ahead = 0
      BY <1>1, <1>2, <2>3 DEF Ahead
    <3> QED BY <3>1 DEF Pending
  <2>8. \A j \in 1..Len(net) : Pending[buflen + j] = net[j]
    <3> SUFFICES ASSUME NEW j \in 1..Len(net) PROVE Pending[buflen + j] = net[j]
      OBVIOUS
    <3> DEFINE i == buflen + j
    <3>1. i \in 1..Waiting /\ ~(i <= buflen) /\ i - buflen = j
      BY <1>2, <2>4
    <3> HIDE DEF i
    <3>2. Pending[i] = IF i <= buflen THEN buf[i - 1] ELSE net[i - buflen]
      BY <3>1, <2>5
    <3>3. Pending[i] = net[j]
      BY <3>1, <3>2
    <3> QED BY <3>3 DEF i
  <2>6. Pending' = Pending
    <3> SUFFICES ASSUME NEW i \in 1..Waiting PROVE Pending'[i] = Pending[i]
      BY <2>4, PendingKept
    <3>1. Pending'[i] = IF i <= buflen + n THEN buf'[i - 1] ELSE net'[i - (buflen + n)]
      <4>1. /\ bufhead' + i - 1 = i - 1 /\ i - buflen' + 0 = i - (buflen + n)
            /\ Ahead' = 0 /\ i \in 1..Waiting'
        BY <1>1, <1>2, <2>3, <2>4 DEF Ahead
      <4> QED BY <4>1, <1>1 DEF Pending
    <3>2. CASE i <= buflen
      <4>1. i <= buflen + n /\ i - 1 \in 0..BufSize-1 /\ i - 1 \notin buflen..buflen+n-1
        BY <3>2, <1>2, <1>3
      <4> QED BY <4>1, <3>1, <3>2, <1>3, <2>5
    <3>3. CASE i > buflen /\ i <= buflen + n
      <4>1. i - 1 \in 0..BufSize-1 /\ i - 1 \in buflen..buflen+n-1
        BY <3>3, <1>2, <1>3
      <4>2. ~(i <= buflen) /\ i - 1 - buflen + 1 = i - buflen
        BY <3>3, <1>2
      <4>3. buf'[i - 1] = net[i - buflen]
        BY <4>1, <4>2, <1>3
      <4> QED BY <4>2, <4>3, <3>1, <3>3, <2>5
    <3>4. CASE i > buflen + n
      <4>1. /\ ~(i <= buflen + n) /\ ~(i <= buflen)
            /\ i - (buflen + n) \in 1..Len(net) - n /\ n + (i - (buflen + n)) = i - buflen
        BY <3>4, <1>2, <1>3, <2>4
      <4>2. net'[i - (buflen + n)] = net[i - buflen]
        BY <4>1, <1>3
      <4> QED BY <4>1, <4>2, <3>1, <2>5
    <3> QED BY <3>2, <3>3, <3>4, <1>2
  <2>7. ASSUME ~torn' PROVE Shape(st)'
    <3>1. Shape(st) /\ CleanCut(n)
      BY <2>2, <2>7, <1>4
    <3>2. buflen + n \in 1..Waiting /\ buflen + 1 \in 1..Waiting
      <4>1. buflen \in Nat /\ Len(net) \in Nat /\ n <= Len(net) /\ Waiting = buflen + Len(net)
        BY <1>2, <1>3, <2>4
      <4> QED BY <4>1
    <3>3. h < Len(messages)
      BY <3>2, <1>2, <2>1, KnownNumbers
    <3>4. SUFFICES \/ \E m \in h+2..Len(messages)+1 : buflen + n = st[m]
                   \/ buflen + n < Len(messages[h+1])
      BY <1>1, <1>2, <2>3 DEF Shape
    <3>5. CASE n = Len(net)
      <4>1. st[Len(messages)+1] = buflen + n
        BY <3>5, <2>2, <2>4 DEF Laid
      <4>2. Len(messages) + 1 \in h+2..Len(messages)+1
        BY <3>3, <1>2
      <4> QED BY <4>1, <4>2
    <3>6. CASE n < Len(net) /\ net[n+1].pos = 1
      <4>1. n + 1 \in 1..Len(net) /\ buflen + (n + 1) \in 1..Waiting
        BY <3>6, <1>2, <2>4
      <4>2. PICK i \in 1..Waiting : i = buflen + (n + 1) /\ Pending[i].pos = 1
        BY <3>6, <4>1, <2>8
      <4>3. PICK m \in h+1..Len(messages), k \in Nat :
              /\ k = i - st[m] /\ st[m] \in Nat /\ k \in 1..Len(messages[m]) /\ i <= st[m+1]
              /\ Pending[i].pos = k /\ Pending[i].msg = m
        BY <2>2, <2>4, PlaceOf
      <4>7. i - st[m] = 1 /\ i \in Nat /\ st[m] \in Nat
        BY <4>2, <4>3
      <4>4. buflen + n = st[m]
        <5> DEFINE a == st[m]
        <5>1. buflen \in Nat /\ n \in Nat
          BY <1>2
        <5>2. i = buflen + (n + 1) /\ i - a = 1 /\ i \in Nat /\ a \in Nat
          BY <4>2, <4>7
        <5> HIDE DEF a
        <5>3. buflen + n = a
          BY <5>1, <5>2, OneBehind, ZenonT(20)
        <5> QED BY <5>3 DEF a
      <4>5. m # h + 1
        BY <4>4, <2>2, <1>2 DEF Laid
      <4>6. m \in h+2..Len(messages)+1
        BY <4>5, <1>2
      <4> QED BY <4>4, <4>6
    <3>7. CASE n < Len(net) /\ net[n].msg = net[1].msg
      <4>1. n \in 1..Len(net) /\ 1 \in 1..Len(net)
        BY <3>7, <1>2
      <4>2. Pending[buflen + n].msg = net[n].msg /\ Pending[buflen + 1].msg = net[1].msg
        BY <4>1, <2>8
      <4>3. buflen < Len(messages[h+1])
        <5>1. Len(messages[h+1]) \in Nat /\ Len(messages[h+1]) >= 1
          BY <3>3, <1>2 DEF Filled
        <5> QED BY <5>1, <3>1, <1>1 DEF Shape
      <4>4. st[h+2] = Len(messages[h+1]) /\ st[h+2] \in Nat
            /\ \A k \in 1..Len(messages[h+1]) : Pending[k] = messages[h+1][k]
        <5>1. h <= Len(messages)
          BY <2>4
        <5>2. st[h+2] = Len(messages[h+1]) /\ Leads(Pending, messages, h)
          BY <3>3, <5>1, <1>2, <2>2, <2>4, LaidFirst
        <5>3. h + 1 \in 1..Len(messages)
          BY <3>3, <1>2
        <5>4. Len(messages[h+1]) \in Nat
          BY <5>3, <1>2
        <5> QED BY <5>2, <5>4 DEF Leads
      <4>5. Pending[buflen + 1].msg = h + 1
        <5>1. buflen + 1 \in 1..Len(messages[h+1])
          BY <4>3, <4>4, <1>2
        <5>2. h + 1 \in Nat /\ messages[h+1] \in MessagesAt(h+1)
          BY <3>3, <1>2 DEF StreamInv, Values
        <5>3. messages[h+1][buflen + 1].msg = h + 1
          BY <5>1, <5>2, SentIs
        <5> QED BY <5>1, <5>3, <4>4
      <4>6. PICK m \in h+1..Len(messages) :
              Pending[buflen + n].msg = m /\ buflen + n <= st[m+1]
        <5> DEFINE i == buflen + n
        <5>1. i \in 1..Waiting
          BY <3>2
        <5> HIDE DEF i
        <5>2. \E m \in h+1..Len(messages), k \in Nat :
              /\ k = i - st[m] /\ st[m] \in Nat /\ k \in 1..Len(messages[m]) /\ i <= st[m+1]
              /\ Pending[i].pos = k /\ Pending[i].msg = m
          BY <5>1, <2>2, <2>4, PlaceOf
        <5> QED BY <5>2 DEF i
      <4>7. m = h + 1
        BY <4>2, <4>5, <4>6, <3>7
      <4>8. buflen + n <= st[h+2]
        <5>1. m + 1 = h + 2
          BY <4>7, <1>2
        <5> QED BY <4>6, <5>1
      <4>9. buflen + n = st[h+2] \/ buflen + n < Len(messages[h+1])
        <5>1. buflen + n \in Int /\ st[h+2] \in Int
          BY <4>4, <1>2
        <5>2. buflen + n = st[h+2] \/ buflen + n < st[h+2]
          BY <4>8, <5>1, LessOrSame
        <5> QED BY <4>4, <5>2
      <4>10. h + 2 \in h+2..Len(messages)+1
        BY <3>3, <1>2
      <4> QED BY <4>9, <4>10
    <3> QED BY <3>1, <3>5, <3>6, <3>7, <1>2, <1>3 DEF CleanCut
  <2> QED BY <1>1, <2>2, <2>4, <2>6, <2>7
<1> QED BY <1>5, <1>7, <1>8, <1>9 DEF StreamInv

\* With no room left the connection ends.
LEMMA NothingTracked ==
  ASSUME StreamInv, RecvNothing
  PROVE  StreamInv'
<1>1. pc' = "closed" /\ UNCHANGED <<messages, net, buf, bufhead, buflen, handled, joined, torn>>
  BY DEF RecvNothing, cuts
<1> QED BY <1>1 DEF StreamInv, Values, Start, Fits, Replayed, Tracked, MessagesAt

\* One byte is not looked at: it is the start of a message.
LEMMA TooShortTracked ==
  ASSUME StreamInv, TooShort
  PROVE  StreamInv'
<1> DEFINE h == Len(handled)
<1>1. /\ pc = "parse" /\ pc' = "recv" /\ buflen < 2
      /\ UNCHANGED <<messages, net, buf, bufhead, buflen, handled, joined, torn>>
  BY DEF TooShort, cuts
<1>2. Values' /\ Start' /\ Fits' /\ Replayed'
  BY <1>1 DEF StreamInv, Values, Start, Fits, Replayed, MessagesAt
<1>3. Tracked'
  <2> SUFFICES ASSUME Known'
               PROVE  \E st : /\ Laid(st, Pending', Waiting', messages', h)
                              /\ ~torn' => Shape(st)'
    BY <1>1, TrackedAgain
  <2>1. Known
    BY <1>1 DEF Known
  <2>2. PICK st : Laid(st, Pending, Waiting, messages, h) /\ (~torn => Shape(st))
    BY <2>1 DEF StreamInv, Tracked, Known
  <2>3. Waiting' = Waiting /\ Pending' = Pending
    BY <1>1 DEF Waiting, Pending, Ahead
  <2>4. ASSUME ~torn PROVE Shape(st)'
    <3>1. /\ buflen > 0
          /\ \/ \E m \in h+2..Len(messages)+1 : buflen = st[m]
             \/ bufhead = 0 /\ buflen < Len(messages[h+1])
      BY <1>1, <2>2, <2>4 DEF Shape
    <3>2. h < Len(messages)
      BY <2>1, <3>1, KnownNumbers, StreamNumbers
    <3>3. ASSUME NEW m \in h+2..Len(messages)+1, buflen = st[m] PROVE FALSE
      <4>1. st[m] >= Len(messages[h+1])
        BY <2>1, <2>2, <3>2, <3>3, BehindFirst
      <4>2. Len(messages[h+1]) \in Nat /\ Len(messages[h+1]) >= 2
        <5>1. h + 1 \in Nat /\ h + 1 \in 1..Len(messages)
          BY <3>2, StreamNumbers
        <5>2. messages[h+1] \in MessagesAt(h+1)
          BY <5>1 DEF StreamInv, Values
        <5> QED BY <5>1, <5>2, SentIs
      <4> QED BY <3>3, <4>1, <4>2, <1>1, StreamNumbers
    <3> QED BY <1>1, <3>1, <3>2, <3>3 DEF Shape
  <2> QED BY <1>1, <2>2, <2>3, <2>4
<1> QED BY <1>2, <1>3 DEF StreamInv

\* No length is zero where the server looks right.
LEMMA ZeroTracked ==
  ASSUME StreamInv, ZeroLength
  PROVE  StreamInv'
<1>1. /\ LooksFor /\ MsgLen = 0 /\ bufhead' = 0 /\ pc = "parse" /\ pc' = "recv"
      /\ UNCHANGED <<messages, net, buf, buflen, handled, joined, torn>>
  BY DEF ZeroLength, LooksFor, cuts
<1>2. bufhead' \in 0..BufSize /\ buflen <= BufSize /\ buflen \in Nat
  BY <1>1, StreamNumbers
<1>3. Values' /\ Start' /\ Fits' /\ Replayed'
  BY <1>1, <1>2 DEF StreamInv, Values, Start, Fits, Replayed, MessagesAt
<1>4. ~Known
  <2> SUFFICES ASSUME Known PROVE FALSE
    OBVIOUS
  <2>1. /\ MsgLen = Len(messages[Len(handled)+1])
        /\ messages[Len(handled)+1] \in MessagesAt(Len(handled)+1)
    BY <1>1, LooksRight
  <2>2. Len(handled) + 1 \in Nat
    BY StreamNumbers
  <2>3. Len(messages[Len(handled)+1]) >= 2 /\ Len(messages[Len(handled)+1]) \in Nat
    BY <2>1, <2>2, SentIs
  <2> QED BY <1>1, <2>1, <2>3
<1>5. Tracked'
  BY <1>1, <1>4 DEF Tracked, Known
<1> QED BY <1>3, <1>5 DEF StreamInv

\* The part of a message is at the start of buf already, where the server looks
\* right: nothing moves.
LEMMA IncompleteTracked ==
  ASSUME StreamInv, Incomplete
  PROVE  StreamInv'
<1> DEFINE h == Len(handled)
<1>1. /\ LooksFor /\ MsgLen > buflen /\ pc = "parse" /\ pc' = "recv"
      /\ buf' = [p \in BufPositions |-> IF p < buflen THEN buf[bufhead + p] ELSE buf[p]]
      /\ bufhead + buflen <= BufSize
      /\ UNCHANGED <<messages, net, bufhead, buflen, handled, joined, torn>>
  BY DEF Incomplete, LooksFor, cuts
<1>2. /\ buflen \in Nat /\ bufhead \in Nat /\ BufSize \in Nat /\ buflen <= BufSize /\ h \in Nat
      /\ Len(messages) \in Nat
  BY StreamNumbers
<1>3. buf' \in [BufPositions -> AllBytes(messages)]
  <2> SUFFICES ASSUME NEW p \in BufPositions
               PROVE  (IF p < buflen THEN buf[bufhead + p] ELSE buf[p]) \in AllBytes(messages)
    BY <1>1
  <2>1. p < buflen => bufhead + p \in BufPositions
    BY <1>1, <1>2 DEF BufPositions
  <2>2. buf \in [BufPositions -> AllBytes(messages)]
    BY DEF StreamInv, Values
  <2> QED BY <2>1, <2>2
<1>4. Values' /\ Start' /\ Fits' /\ Replayed'
  BY <1>1, <1>3 DEF StreamInv, Values, Start, Fits, Replayed, MessagesAt
<1>5. Tracked'
  <2> SUFFICES ASSUME Known'
               PROVE  \E st : /\ Laid(st, Pending', Waiting', messages', h)
                              /\ ~torn' => Shape(st)'
    BY <1>1, TrackedAgain
  <2>1. Known
    BY <1>1 DEF Known
  <2>2. PICK st : Laid(st, Pending, Waiting, messages, h) /\ (~torn => Shape(st))
    BY <2>1 DEF StreamInv, Tracked, Known
  <2>3. /\ h < Len(messages) /\ MsgLen = Len(messages[h+1])
        /\ messages[h+1] \in MessagesAt(h+1)
    BY <1>1, <2>1, LooksRight
  <2>4. Len(messages[h+1]) \in Nat /\ buflen < Len(messages[h+1])
    <3>1. h + 1 \in Nat
      BY <1>2
    <3>2. Len(messages[h+1]) \in Nat
      BY <2>3, <3>1, SentIs
    <3> QED BY <1>1, <1>2, <2>3, <3>2
  <2>5. bufhead = 0
    <3>1. CASE torn
      BY <2>1, <3>1, KnownNumbers DEF Known
    <3>2. CASE ~torn
      <4>1. ASSUME NEW m \in h+2..Len(messages)+1, buflen = st[m] PROVE FALSE
        <5>1. st[m] >= Len(messages[h+1])
          BY <2>1, <2>2, <2>3, <4>1, BehindFirst
        <5> QED BY <4>1, <5>1, <2>4, <1>2
      <4> QED BY <1>1, <2>2, <3>2, <4>1 DEF Shape
    <3> QED BY <3>1, <3>2
  <2>6. Waiting' = Waiting
    BY <1>1 DEF Waiting, Ahead
  <2>7. Pending' = Pending
    <3> SUFFICES ASSUME NEW i \in 1..Waiting PROVE Pending'[i] = Pending[i]
      BY <2>6, PendingKept
    <3>1. Waiting \in Nat
      BY <2>1, KnownNumbers
    <3>2. Pending[i] = IF i <= buflen THEN buf[bufhead + i - 1] ELSE net[i - buflen + Ahead]
      BY DEF Pending
    <3>3. Pending'[i] = IF i <= buflen THEN buf'[bufhead + i - 1] ELSE net[i - buflen + Ahead]
      BY <1>1, <2>6 DEF Pending, Ahead
    <3>4. ASSUME i <= buflen PROVE buf'[bufhead + i - 1] = buf[bufhead + i - 1]
      <4>1. /\ bufhead + i - 1 = i - 1 /\ bufhead + (i - 1) = i - 1
            /\ i - 1 \in BufPositions /\ i - 1 < buflen
        BY <1>2, <2>5, <3>1, <3>4 DEF BufPositions
      <4> QED BY <4>1, <1>1
    <3> QED BY <3>2, <3>3, <3>4
  <2>8. Shape(st)'
    BY <1>1, <2>3, <2>4, <2>5 DEF Shape
  <2> QED BY <1>1, <2>2, <2>6, <2>7, <2>8
<1> QED BY <1>4, <1>5 DEF StreamInv

\* The message is handled as it was sent, and the next one is looked for where
\* it lies.
LEMMA HandleTracked ==
  ASSUME StreamInv, Handle
  PROVE  StreamInv'
<1> DEFINE h == Len(handled)  L == MsgLen
           x == [k \in 1..MsgLen |-> buf[bufhead + k - 1]]
<1>1. /\ LooksFor /\ L \in 1..buflen /\ pc = "parse" /\ bufhead + buflen <= BufSize
      /\ handled' = Append(handled, x) /\ Advance
      /\ UNCHANGED <<messages, net, buf, joined, torn>>
  BY DEF Handle, LooksFor, cuts
<1>2. /\ buflen \in Nat /\ bufhead \in Nat /\ BufSize \in Nat /\ buflen <= BufSize /\ h \in Nat
      /\ Len(messages) \in Nat /\ handled \in Seq(Seq(Byte)) /\ messages \in Seq(Seq(Byte))
      /\ Filled(messages) /\ Len(net) \in Nat /\ AllBytes(messages) \subseteq Byte
  BY StreamNumbers
<1>3. L \in Nat /\ L >= 1 /\ L <= buflen
  BY <1>1, <1>2
<1>4. \/ /\ buflen > L /\ bufhead' = bufhead + L /\ buflen' = buflen - L /\ pc' = "parse"
      \/ /\ buflen = L /\ bufhead' = 0 /\ buflen' = 0 /\ pc' = "recv"
  BY <1>1, <1>2, <1>3 DEF Advance
<1>5. x \in Seq(Byte)
  <2>1. ASSUME NEW k \in 1..L PROVE buf[bufhead + k - 1] \in Byte
    <3>1. bufhead + k - 1 \in BufPositions
      BY <1>1, <1>2, <1>3 DEF BufPositions
    <3>2. buf \in [BufPositions -> AllBytes(messages)]
      BY DEF StreamInv, Values
    <3> QED BY <3>1, <3>2, <1>2
  <2>2. x \in [1..L -> Byte]
    BY <2>1
  <2> HIDE DEF x, L
  <2> QED BY <2>2, <1>3
<1> HIDE DEF x
<1>6. /\ handled' \in Seq(Seq(Byte)) /\ Len(handled') = h + 1 /\ handled' # <<>>
      /\ handled'[h+1] = x /\ \A i \in 1..h : handled'[i] = handled[i]
  <2>1. handled' = Append(handled, x)
    BY <1>1
  <2>2. /\ Append(handled, x) \in Seq(Seq(Byte)) /\ Len(Append(handled, x)) = h + 1
        /\ Append(handled, x)[h+1] = x /\ \A i \in 1..h : Append(handled, x)[i] = handled[i]
    BY <1>2, <1>5
  <2>3. Append(handled, x) # <<>>
    <3>1. Len(Append(handled, x)) > 0
      BY <1>2, <2>2
    <3>2. Len(<<>>) = 0
      OBVIOUS
    <3>3. ASSUME Append(handled, x) = <<>> PROVE FALSE
      BY <3>1, <3>2, <3>3
    <3> QED BY <3>3
  <2> QED BY <2>1, <2>2, <2>3
<1>7. bufhead' \in 0..BufSize /\ buflen' \in 0..BufSize /\ pc' \in {"parse", "recv"}
  BY <1>1, <1>2, <1>3, <1>4
<1>8. Values'
  BY <1>1, <1>6, <1>7 DEF StreamInv, Values, MessagesAt
<1>9. Start'
  BY <1>6, <1>7 DEF Start
<1>10. Fits'
  BY <1>1, <1>2, <1>3, <1>4 DEF Fits
<1>11. ASSUME Known
       PROVE  h < Len(messages) /\ L = Len(messages[h+1]) /\ x = messages[h+1]
  <2>1. /\ h < Len(messages) /\ L = Len(messages[h+1]) /\ messages[h+1] \in MessagesAt(h+1)
        /\ \A k \in 1..Len(messages[h+1]) : k <= buflen => buf[bufhead + k - 1] = messages[h+1][k]
    BY <1>1, <1>11, LooksRight
  <2>2. messages[h+1] \in Seq(Byte)
    <3>1. h + 1 \in Nat
      BY <1>2
    <3> QED BY <2>1, <3>1, SentIs
  <2>3. \A k \in 1..L : x[k] = messages[h+1][k]
    <3>1. \A k \in 1..L : buf[bufhead + k - 1] = messages[h+1][k]
      BY <2>1, <1>2, <1>3
    <3> QED BY <3>1 DEF x
  <2>4. Len(x) = L
    <3> HIDE DEF L
    <3> QED BY <1>3, <1>5 DEF x, L
  <2>5. x = messages[h+1]
    <3> HIDE DEF L
    <3>1. Len(x) = Len(messages[h+1])
      BY <2>1, <2>4
    <3>2. \A k \in 1..Len(x) : x[k] = messages[h+1][k]
      BY <2>3, <2>4
    <3> QED BY <1>5, <2>2, <3>1, <3>2, SeqEqual
  <2> QED BY <2>1, <2>5
<1>12. Replayed'
  <2>1. ASSUME ~joined, ~torn
        PROVE  h + 1 <= Len(messages) /\ \A i \in 1..h+1 : handled'[i] = messages[i]
    <3>1. Known
      BY <1>1, <2>1 DEF Known
    <3>2. \A i \in 1..h : handled[i] = messages[i]
      BY <2>1 DEF StreamInv, Replayed
    <3>3. \A i \in 1..h+1 : i \in 1..h \/ i = h + 1
      BY <1>2
    <3>4. h < Len(messages) /\ x = messages[h+1]
      BY <3>1, <1>11
    <3>5. h + 1 <= Len(messages)
      BY <3>4, <1>2
    <3>6. \A i \in 1..h+1 : handled'[i] = messages[i]
      BY <3>2, <3>3, <3>4, <1>6
    <3> QED BY <3>5, <3>6
  <2>2. ASSUME ~joined PROVE messages # <<>> /\ handled'[1] = messages[1]
    <3>1. CASE handled = <<>>
      <4>1. Known /\ h = 0
        BY <1>1, <2>2, <3>1 DEF Known
      <4> QED BY <4>1, <1>2, <1>6, <1>11
    <3>2. CASE handled # <<>>
      <4>1. messages # <<>> /\ handled[1] = messages[1]
        BY <2>2, <3>2 DEF StreamInv, Replayed
      <4>2. 1 \in 1..h
        BY <3>2, <1>2
      <4> QED BY <4>1, <4>2, <1>6
    <3> QED BY <3>1, <3>2
  <2> QED BY <1>1, <1>6, <2>1, <2>2 DEF Replayed
<1>13. Tracked'
  <2> SUFFICES ASSUME Known'
               PROVE  \E st : /\ Laid(st, Pending', Waiting', messages, h + 1)
                              /\ Shape(st)'
    BY <1>1, <1>6, TrackedAgain
  <2>1. Known /\ ~torn
    BY <1>1, <1>6 DEF Known
  <2>2. PICK st : Laid(st, Pending, Waiting, messages, h) /\ Shape(st)
    BY <2>1 DEF StreamInv, Tracked, Known
  <2>3. h < Len(messages) /\ L = Len(messages[h+1])
    BY <2>1, <1>11
  <2>4. Waiting = buflen + Len(net) /\ Waiting' = Waiting - L /\ Waiting \in Nat
    <3>1. Ahead = 0 /\ Ahead' = 0
      BY <1>1, <1>7 DEF Ahead
    <3>2. Waiting = buflen + Len(net) /\ Waiting' = buflen' + Len(net)
      BY <3>1, <1>1, <1>2, <1>7 DEF Waiting
    <3> QED BY <3>2, <1>2, <1>3, <1>4
  <2>5. \A i \in 1..Waiting :
          Pending[i] = IF i <= buflen THEN buf[bufhead + i - 1] ELSE net[i - buflen]
    <3> SUFFICES ASSUME NEW i \in 1..Waiting
                 PROVE  Pending[i] = IF i <= buflen THEN buf[bufhead + i - 1] ELSE net[i - buflen]
      OBVIOUS
    <3>1. i - buflen + 0 = i - buflen /\ Ahead = 0
      BY <1>1, <1>2 DEF Ahead
    <3> QED BY <3>1 DEF Pending
  <2>6. \A i \in 1..Waiting - L :
          Pending'[i] = IF i <= buflen' THEN buf[bufhead' + i - 1] ELSE net[i - buflen']
    <3> SUFFICES ASSUME NEW i \in 1..Waiting - L
                 PROVE  Pending'[i] = IF i <= buflen' THEN buf[bufhead' + i - 1]
                                      ELSE net[i - buflen']
      OBVIOUS
    <3>1. i - buflen' + 0 = i - buflen' /\ Ahead' = 0 /\ i \in 1..Waiting'
      BY <1>7, <2>4 DEF Ahead
    <3> QED BY <3>1, <1>1 DEF Pending
  <2>7. Behind(Pending', Pending, Waiting, L)
    <3> SUFFICES ASSUME NEW i \in 1..Waiting - L PROVE Pending'[i] = Pending[i + L]
      BY DEF Behind
    <3>1. i + L \in 1..Waiting
      BY <1>3, <2>4
    <3>2. Pending[i + L] = IF i + L <= buflen THEN buf[bufhead + (i + L) - 1]
                           ELSE net[(i + L) - buflen]
      BY <3>1, <2>5
    <3>3. CASE buflen > L
      <4>1. bufhead' = bufhead + L /\ buflen' = buflen - L
        BY <3>3, <1>2, <1>3, <1>4
      <4>2. /\ i <= buflen' <=> i + L <= buflen
            /\ bufhead' + i - 1 = bufhead + (i + L) - 1 /\ i - buflen' = (i + L) - buflen
        BY <4>1, <1>2, <1>3, <2>4
      <4> QED BY <4>2, <3>2, <2>6
    <3>4. CASE buflen = L
      <4>1. bufhead' = 0 /\ buflen' = 0
        BY <3>4, <1>2, <1>3, <1>4
      <4>2. ~(i <= buflen') /\ ~(i + L <= buflen) /\ i - buflen' = (i + L) - buflen
        BY <3>4, <4>1, <1>2, <1>3, <2>4
      <4> QED BY <4>2, <3>2, <2>6
    <3> QED BY <3>3, <3>4, <1>4
  <2>8. PICK st2 : /\ Laid(st2, Pending', Waiting - L, messages, h + 1)
                   /\ Nearer(st2, st, messages, h, L)
    BY <1>2, <2>2, <2>3, <2>4, <2>7, LaidTake
  <2>9. Shape(st2)'
    <3>1. CASE buflen = L
      BY <3>1, <1>2, <1>3, <1>4 DEF Shape
    <3>2. CASE buflen > L
      <4>1. PICK m \in h+2..Len(messages)+1 : buflen = st[m]
        BY <3>2, <1>1, <1>2, <2>2, <2>3 DEF Shape
      <4>2. m # h + 2
        <5>1. st[h+2] = L
          <6>1. h <= Len(messages)
            BY <1>2, <2>3
          <6>2. st[h+2] = Len(messages[h+1])
            BY <6>1, <1>2, <2>2, <2>3, <2>4, LaidFirst
          <6> QED BY <6>2, <2>3
        <5> QED BY <3>2, <4>1, <5>1, <1>2, <1>3
      <4>3. m \in (h+1)+2..Len(messages)+1
        BY <4>2, <1>2
      <4>4. st2[m] = buflen - L
        BY <4>1, <2>8 DEF Nearer
      <4>5. buflen' = buflen - L /\ buflen' > 0 /\ pc' = "parse"
        BY <3>2, <1>2, <1>3, <1>4
      <4> QED BY <4>3, <4>4, <4>5, <1>1, <1>6 DEF Shape
    <3> QED BY <3>1, <3>2, <1>4
  <2> QED BY <2>4, <2>8, <2>9
<1> QED BY <1>8, <1>9, <1>10, <1>12, <1>13 DEF StreamInv
-----------------------------------------------------------------------------
\* The step that makes StreamInv inductive.
LEMMA StreamStep ==
  ASSUME StreamInv, [ServerNext]_serverVars
  PROVE  StreamInv'
<1>1. ASSUME NEW n \in Sizes, ClientSend(n) PROVE StreamInv'
  BY <1>1, SendTracked
<1>2. ASSUME NEW n \in 1..Len(net), RecvHandshake(n) \/ Recv(n) PROVE StreamInv'
  <2>1. n \in Nat /\ n >= 1
    BY StreamNumbers
  <2> QED BY <1>2, <2>1, HandshakeTracked, RecvTracked
<1>3. CASE RecvNothing
  BY <1>3, NothingTracked
<1>4. CASE Parse
  BY <1>4, TooShortTracked, ZeroTracked, IncompleteTracked, HandleTracked DEF Parse
<1>5. CASE UNCHANGED serverVars
  <2>1. UNCHANGED <<messages, net, buf, bufhead, buflen, pc, handled, joined, torn>>
    BY <1>5 DEF serverVars, cuts
  <2>2. Values' /\ Start' /\ Fits' /\ Replayed'
    BY <2>1 DEF StreamInv, Values, MessagesAt, Start, Fits, Replayed
  <2>3. Pending' = Pending /\ Waiting' = Waiting
    BY <2>1 DEF Pending, Waiting, Ahead
  <2>4. \A st : Shape(st)' = Shape(st)
    BY <2>1 DEF Shape
  <2>5. Tracked'
    BY <2>1, <2>3, <2>4 DEF StreamInv, Tracked
  <2> QED BY <2>2, <2>5 DEF StreamInv
<1> QED BY <1>1, <1>2, <1>3, <1>4, <1>5 DEF ServerNext

\* What StreamInv is for.
LEMMA StreamGives ==
  ASSUME StreamInv
  PROVE  InBuffer /\ ReplayedIfWhole
<1>1. InBuffer
  <2>1. ServerTypeOK
    BY DEF StreamInv, Values, ServerTypeOK, AllBytes
  <2>2. ~joined /\ ~torn => bufhead + buflen <= BufSize
    BY DEF StreamInv, Fits
  <2> QED BY <2>1, <2>2 DEF InBuffer
<1>2. ASSUME ~joined, ~torn PROVE EventsReplayed
  <2>1. Len(handled) <= Len(messages) /\ \A i \in 1..Len(handled) : handled[i] = messages[i]
    BY <1>2 DEF StreamInv, Replayed
  <2>2. /\ handled \in Seq(Seq(Byte)) /\ messages \in Seq(Seq(Byte))
        /\ Len(handled) \in Nat /\ Len(messages) \in Nat
    BY StreamNumbers
  <2>3. SubSeq(handled, 1, Len(handled)) = SubSeq(messages, 1, Len(handled))
    BY <2>1, <2>2
  <2> QED BY <2>1, <2>3 DEF EventsReplayed, IsPrefix
<1>3. FirstReplayed
  BY DEF StreamInv, Replayed, FirstReplayed
<1> QED BY <1>1, <1>2, <1>3 DEF ReplayedIfWhole

\* The inductive invariant of the control messages holds.
THEOREM StreamInvariance == ServerSpec => []StreamInv
<1>1. ServerInit => StreamInv
  BY InitTracked
<1>2. StreamInv /\ [ServerNext]_serverVars => StreamInv'
  BY StreamStep
<1> QED BY <1>1, <1>2, PTL DEF ServerSpec

\* InBuffer, for any buffer, handshake, sizes and payload: of a connection whose
\* handshake came alone, no byte is looked at as received that was not, as long
\* as no message is torn.
THEOREM LooksInBuffer == ServerSpec => []InBuffer
<1>1. StreamInv => InBuffer
  BY StreamGives
<1> QED BY <1>1, StreamInvariance, PTL

\* ReplayedIfWhole: what tcp_again does to buf, bufhead and buflen, however the
\* bytes are cut, keeps the messages as they were sent and in order, for any
\* buffer and messages, unless the handshake was joined or a message torn.
THEOREM MessagesReplayed == ServerSpec => []ReplayedIfWhole
<1>1. StreamInv => ReplayedIfWhole
  BY StreamGives
<1> QED BY <1>1, StreamInvariance, PTL
=============================================================================
