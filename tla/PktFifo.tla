------------------------------ MODULE PktFifo ------------------------------
(***************************************************************************)
(* What one channel of the encoder packet queue promises to its users, a   *)
(* bounded first-in first-out queue of packets: core/encoder-common.cpp    *)
(* implements it with a ring of bytes (module PktQueue).                   *)
(*                                                                         *)
(* A chunk is a run of consecutive bytes of one packet; a packet enters as *)
(* one chunk, and the consumer may cut the oldest chunk in two before it   *)
(* takes it.  Packets are numbered in the order they are offered; byte k   *)
(* of packet p is the pair <<p, k>>.                                       *)
(***************************************************************************)
EXTENDS Naturals, Sequences

CONSTANTS
  BufSize,      \* capacity of the channel in bytes
  Sizes,        \* the sizes a packet may have
  FrameLimits,  \* the space a consumer may have when it takes a chunk
  MaxPackets    \* bound of the model: how many packets are offered

VARIABLES
  offered,      \* how many packets have been offered to the channel
  queue,        \* the chunks waiting, oldest first
  delivered     \* the last chunk a consumer got, with the bytes it saw

vars == <<offered, queue, delivered>>

Chunk == [pkt : 1..MaxPackets, off : Nat, size : Nat]

\* The n bytes of packet p that start at byte o of it.
Bytes(p, o, n) == [k \in 0..n-1 |-> <<p, o + k>>]

Nothing == [pkt |-> 0, bytes |-> Bytes(0, 0, 0)]

Init ==
  /\ offered = 0
  /\ queue = <<>>
  /\ delivered = Nothing

\* A packet that finds the channel with room for it is queued whole.
Accept(n) ==
  /\ offered < MaxPackets
  /\ offered' = offered + 1
  /\ queue' = Append(queue, [pkt |-> offered + 1, off |-> 0, size |-> n])
  /\ UNCHANGED delivered

\* A packet may be lost, but never by an empty channel that could hold it.
Drop(n) ==
  /\ offered < MaxPackets
  /\ queue # <<>> \/ n > BufSize
  /\ offered' = offered + 1
  /\ UNCHANGED <<queue, delivered>>

\* The consumer keeps the first n bytes of the oldest chunk for its next take.
Split(n) ==
  /\ queue # <<>>
  /\ n < Head(queue).size
  /\ queue' = <<[Head(queue) EXCEPT !.size = n],
                [Head(queue) EXCEPT !.off = @ + n, !.size = @ - n]>>
              \o Tail(queue)
  /\ UNCHANGED <<offered, delivered>>

\* The consumer takes the oldest chunk and sees the first m bytes of it.
Take(m) ==
  /\ queue # <<>>
  /\ m <= Head(queue).size
  /\ delivered' = [pkt   |-> Head(queue).pkt,
                   bytes |-> Bytes(Head(queue).pkt, Head(queue).off, m)]
  /\ queue' = Tail(queue)
  /\ UNCHANGED offered

\* The last client left: everything that waits is thrown away.
Clear ==
  /\ queue' = <<>>
  /\ UNCHANGED <<offered, delivered>>

Next ==
  \/ \E n \in Sizes : Accept(n) \/ Drop(n)
  \/ \E n \in FrameLimits : Split(n)
  \/ \E m \in 1..BufSize : Take(m)
  \/ Clear

Spec == Init /\ [][Next]_vars
=============================================================================
