------------------------------ MODULE PktQueue ------------------------------
(***************************************************************************)
(* One channel of the encoder packet queue of core/encoder-common.cpp and  *)
(* the frame source of module/server-live555 that consumes it.             *)
(*                                                                         *)
(* An encoder thread appends encoded packets to a ring of BufSize bytes;   *)
(* the live555 thread reads the first packet, copies its bytes OUTSIDE the *)
(* queue's lock and pops it afterwards, having cut it in two when the      *)
(* frame buffer downstream is too small.  Each critical section of the     *)
(* queue's mutex is one action, so an append may fall between any two      *)
(* steps of the consumer.                                                  *)
(*                                                                         *)
(* The bytes are modelled: byte k of packet p is <<p, k>>.  The fields pkt *)
(* and off of a queued packet are what its timestamp (pts_tv) identifies   *)
(* and, a history field, which part of the packet it is.                   *)
(***************************************************************************)
EXTENDS Naturals, FiniteSets, SequencesExt

CONSTANTS
  BufSize,      \* pktqueue_initqsize, the bytes of the ring
  Sizes,        \* the sizes of the packets the encoder produces
  FrameLimits,  \* the values fMaxSize may have
  CutsLarge,    \* TRUE: split large packets (video); FALSE: truncate (audio)
  MaxPackets    \* bound of the model: how many packets are appended

ASSUME PktQueueAssumption ==
  /\ BufSize \in Nat \ {0}
  /\ Sizes \subseteq Nat \ {0}
  /\ FrameLimits \subseteq Nat \ {0}
  /\ CutsLarge \in BOOLEAN
  /\ MaxPackets \in Nat

VARIABLES
  buf,       \* q->buf
  head,      \* q->head
  tail,      \* q->tail
  datasize,  \* q->datasize
  pktlist,   \* pktlist[channelId]
  offered,   \* how many packets the encoder has passed to append
  rpc,       \* where the consumer is in deliverFrame
  rpkt,      \* its local copy of the first packet
  rmax,      \* fMaxSize
  rbuf,      \* fTo, the frame buffer downstream
  delivered  \* the last frame handed downstream, with its timestamp

qvars == <<buf, head, tail, datasize, pktlist>>
rvars == <<rpc, rpkt, rmax, rbuf, delivered>>
vars  == <<buf, head, tail, datasize, pktlist, offered,
           rpc, rpkt, rmax, rbuf, delivered>>

Positions == 0..BufSize-1
Byte == Nat \X Nat
Packet == [data : Positions, size : 1..BufSize, padding : 0..BufSize,
           pkt : Nat, off : Nat]

Bytes(p, o, n) == [k \in 0..n-1 |-> <<p, o + k>>]
NoBytes == Bytes(0, 0, 0)
NoPacket == [data |-> 0, size |-> 1, padding |-> 0, pkt |-> 0, off |-> 0]

Init ==
  /\ buf = [p \in Positions |-> <<0, 0>>]
  /\ head = 0 /\ tail = 0 /\ datasize = 0
  /\ pktlist = <<>>
  /\ offered = 0
  /\ rpc = "idle" /\ rpkt = NoPacket /\ rmax = 0 /\ rbuf = NoBytes
  /\ delivered = [pkt |-> 0, bytes |-> NoBytes]

(***************************************************************************)
(* encoder_pktqueue_append                                                 *)
(***************************************************************************)
\* Mutant: the size check is off by one.
FitsOneOver(used, n) == used + n <= BufSize + 1

Fits(used, n) == used + n <= BufSize

\* The end of the ring is too short for n bytes: the packet goes to its start,
\* and the bytes skipped become padding of the last packet.
Wraps(n) == Fits(datasize, n) /\ BufSize - tail < n
Pads(n) == Wraps(n) /\ pktlist # <<>>
Clears(n) == Wraps(n) /\ pktlist = <<>>

PaddedList(n) ==
  IF Pads(n) THEN [pktlist EXCEPT ![Len(pktlist)].padding = BufSize - tail]
             ELSE pktlist
Used(n) == IF Pads(n) THEN datasize + (BufSize - tail)
           ELSE IF Clears(n) THEN 0 ELSE datasize
Start(n) == IF Wraps(n) THEN 0 ELSE tail
Stores(n) == Fits(datasize, n) /\ Fits(Used(n), n)

\* A position after the last byte of the ring is its first byte.
Wrapped(p) == IF p = BufSize THEN 0 ELSE p

AppendStored(n) ==
  /\ offered < MaxPackets
  /\ Stores(n)
  /\ buf' = [p \in Positions |->
               IF p \in Start(n)..Start(n)+n-1
               THEN <<offered + 1, p - Start(n)>> ELSE buf[p]]
  /\ pktlist' = Append(PaddedList(n),
                       [data |-> Start(n), size |-> n, padding |-> 0,
                        pkt |-> offered + 1, off |-> 0])
  /\ head' = IF Clears(n) THEN 0 ELSE head
  /\ tail' = Wrapped(Start(n) + n)
  /\ datasize' = Used(n) + n
  /\ offered' = offered + 1
  /\ UNCHANGED rvars

\* The packet is dropped; when the queue was found too full only after the
\* wrap, the padding stays.
AppendDropped(n) ==
  /\ offered < MaxPackets
  /\ ~Stores(n)
  /\ pktlist' = PaddedList(n)
  /\ head' = IF Clears(n) THEN 0 ELSE head
  /\ tail' = Start(n)
  /\ datasize' = Used(n)
  /\ offered' = offered + 1
  /\ UNCHANGED <<buf, rvars>>

(***************************************************************************)
(* deliverFrame of the live555 sources: front, split or truncate, copy     *)
(* without the lock, pop.                                                  *)
(***************************************************************************)
TooLarge == rpkt.size > rmax
FrameSize == IF TooLarge THEN rmax ELSE rpkt.size

\* encoder_pktqueue_front; an empty queue ends the delivery at once.
ReadFront(m) ==
  /\ rpc = "idle"
  /\ pktlist # <<>>
  /\ rpc' = "got"
  /\ rpkt' = Head(pktlist)
  /\ rmax' = m
  /\ UNCHANGED <<qvars, offered, rbuf, delivered>>

\* encoder_pktqueue_split_packet(offset = data + fMaxSize)
SplitsAt(offset) ==
  /\ pktlist # <<>>
  /\ Head(pktlist).data < offset
  /\ offset < Head(pktlist).data + Head(pktlist).size

\* Mutant: the first part keeps the padding behind the second.
SplitKeepsPadding(offset) ==
  LET first == Head(pktlist)
      n == offset - first.data
  IN <<[first EXCEPT !.size = n],
       [first EXCEPT !.data = offset, !.size = @ - n, !.off = @ + n]>> \o Tail(pktlist)

\* Mutant: the second part goes to the end of the queue.
SplitRestLast(offset) ==
  LET first == Head(pktlist)
      n == offset - first.data
  IN <<[first EXCEPT !.size = n, !.padding = 0]>> \o Tail(pktlist)
       \o <<[first EXCEPT !.data = offset, !.size = @ - n, !.off = @ + n]>>

Split(offset) ==
  LET first == Head(pktlist)
      n == offset - first.data
      front == [first EXCEPT !.size = n, !.padding = 0]
      rest == [first EXCEPT !.data = offset, !.size = @ - n, !.off = @ + n]
  IN <<front, rest>> \o Tail(pktlist)

SplitFront ==
  /\ rpc = "got" /\ CutsLarge /\ TooLarge
  /\ rpc' = "cut"
  /\ pktlist' = IF SplitsAt(rpkt.data + rmax)
                THEN Split(rpkt.data + rmax) ELSE pktlist
  /\ UNCHANGED <<buf, head, tail, datasize, offered, rpkt, rmax, rbuf, delivered>>

\* memmove(fTo, data, fFrameSize), from the ring and without its lock.
CopyFrame ==
  /\ rpc = "cut" \/ (rpc = "got" /\ ~(CutsLarge /\ TooLarge))
  /\ rpc' = "copied"
  /\ rbuf' = [k \in 0..FrameSize-1 |-> buf[rpkt.data + k]]
  /\ UNCHANGED <<qvars, offered, rpkt, rmax, delivered>>

\* Mutant: the padding behind the packet stays in use.
PopLosesPadding ==
  LET first == Head(pktlist)
      h == Wrapped(head + first.size)
  IN IF pktlist = <<>>
     THEN UNCHANGED <<head, tail, datasize, pktlist>>
     ELSE /\ pktlist' = Tail(pktlist)
          /\ datasize' = datasize - first.size
          /\ head' = IF h = tail THEN 0 ELSE h
          /\ tail' = IF h = tail THEN 0 ELSE tail

\* encoder_pktqueue_pop_front
PopFront ==
  LET first == Head(pktlist)
      h == Wrapped(head + first.size + first.padding)
  IN IF pktlist = <<>>
     THEN UNCHANGED <<head, tail, datasize, pktlist>>
     ELSE /\ pktlist' = Tail(pktlist)
          /\ datasize' = datasize - first.size - first.padding
          /\ head' = IF h = tail THEN 0 ELSE h
          /\ tail' = IF h = tail THEN 0 ELSE tail

FinishFrame ==
  /\ rpc = "copied"
  /\ PopFront
  /\ rpc' = "idle"
  /\ rpkt' = NoPacket /\ rmax' = 0 /\ rbuf' = NoBytes
  /\ delivered' = [pkt |-> rpkt.pkt, bytes |-> rbuf]
  /\ UNCHANGED <<buf, offered>>

\* encoder_pktqueue_reset_channel, called by the last source's destructor on
\* the live555 thread: never in the middle of a delivery.
Reset ==
  /\ rpc = "idle"
  /\ pktlist' = <<>>
  /\ head' = 0 /\ tail' = 0 /\ datasize' = 0
  /\ UNCHANGED <<buf, offered, rvars>>

Next ==
  \/ \E n \in Sizes : AppendStored(n)
  \/ \E n \in Sizes : AppendDropped(n)
  \/ \E m \in FrameLimits : ReadFront(m)
  \/ SplitFront
  \/ CopyFrame
  \/ FinishFrame
  \/ Reset

Spec == Init /\ [][Next]_vars
-----------------------------------------------------------------------------
(***************************************************************************)
(* Properties                                                              *)
(***************************************************************************)
\* Every variable stays in its range; head and tail always index the ring.
TypeOK ==
  /\ buf \in [Positions -> Byte]
  /\ head \in Positions /\ tail \in Positions
  /\ datasize \in 0..BufSize
  /\ pktlist \in Seq(Packet)
  /\ offered \in 0..MaxPackets
  /\ rpc \in {"idle", "got", "cut", "copied"}
  /\ rpkt \in Packet
  /\ rmax \in FrameLimits \cup {0}
  /\ rpc # "idle" => rmax # 0

\* No append, wrap or split ever disturbs a byte of a queued packet: the ring
\* holds, for each entry of pktlist, the bytes of the packet it stands for.
ContentIntact ==
  \A i \in 1..Len(pktlist) : \A k \in 0..pktlist[i].size-1 :
    buf[pktlist[i].data + k] = <<pktlist[i].pkt, pktlist[i].off + k>>

\* The bytes of the ring the queued packets hold, the padding behind them
\* included: <<i, k>> is byte k of entry i, so their number is the sum of the
\* sizes and paddings of the list.
Span(p) == p.size + p.padding
Held(list) == UNION {{i} \X (1..Span(list[i])) : i \in 1..Len(list)}

\* datasize, which alone decides whether a packet is dropped, is exactly the
\* bytes and the padding of the queued packets: a wrap, a drop after a wrap, a
\* split and a pop neither leak space nor count it twice.
SpaceAccounted == datasize = Cardinality(Held(pktlist))

\* The consumer's pointer outlives the lock: until it pops, the first packet
\* is the one it read (or the part it cut from it), whatever is appended.
FrontStable ==
  rpc # "idle" =>
    /\ pktlist # <<>>
    /\ Head(pktlist).data = rpkt.data
    /\ Head(pktlist).pkt = rpkt.pkt /\ Head(pktlist).off = rpkt.off
    /\ Head(pktlist).size = IF rpc # "got" /\ CutsLarge THEN FrameSize ELSE rpkt.size

\* The bytes copied without the lock are bytes of the packet whose timestamp
\* goes with the frame, starting where that packet was read.
CopyIntact ==
  rpc = "copied" => rbuf = Bytes(rpkt.pkt, rpkt.off, FrameSize)

(***************************************************************************)
(* The layout of the ring, the inductive strengthening of the properties   *)
(* above: each entry starts where the one before it ends, the first at     *)
(* head, the last ending at tail; read from head, the entries do not       *)
(* overlap; and datasize is the distance from head to tail.                *)
(***************************************************************************)
End(p) == p.data + Span(p)
Offset(h, x) == IF x >= h THEN x - h ELSE x - h + BufSize

RingOK(list, h, t, d) ==
  /\ list = <<>> => h = 0 /\ t = 0 /\ d = 0
  /\ list # <<>> =>
       /\ h = list[1].data
       /\ t = Wrapped(End(list[Len(list)]))
       /\ d = IF t > h THEN t - h ELSE t - h + BufSize
  /\ \A i \in 1..Len(list) :
       /\ End(list[i]) <= BufSize
       /\ list[i].padding > 0 => End(list[i]) = BufSize
       /\ Offset(h, list[i].data) + Span(list[i]) <= d
  /\ \A i \in 1..Len(list)-1 : list[i+1].data = Wrapped(End(list[i]))
  /\ \A i, j \in 1..Len(list) : i < j =>
       Offset(h, list[i].data) + Span(list[i]) <= Offset(h, list[j].data)

RingLayout == RingOK(pktlist, head, tail, datasize)

\* What makes the properties above inductive: an append overwrites no queued
\* byte because the packets lie between head and tail in this layout, and what
\* the consumer reads without the lock is the first of them.
IInv == TypeOK /\ RingLayout /\ ContentIntact /\ FrontStable /\ CopyIntact

Entries(list) ==
  [i \in 1..Len(list) |->
     [pkt |-> list[i].pkt, off |-> list[i].off, size |-> list[i].size]]

Fifo == INSTANCE PktFifo WITH queue <- Entries(pktlist)

\* The ring implements the bounded first-in first-out queue of module PktFifo:
\* no packet is reordered, repeated or lost except by a full queue, by a reset
\* or, truncated, by a small frame buffer.
FifoSpec == Fifo!Spec
=============================================================================
