--------------------------- MODULE PktQueueProofs ---------------------------
(***************************************************************************)
(* Proofs about the encoder packet queue, for every ring size, packet size *)
(* and frame size.  The four lemmas say what padding, appending, splitting *)
(* and popping do to the layout of the ring (RingOK); the invariant adds   *)
(* the content of the ring and the state of the consumer to it.  From the  *)
(* layout alone follows that datasize counts the bytes of the packets, and *)
(* the ring implements the queue of PktFifo.                               *)
(***************************************************************************)
EXTENDS PktQueue, SequenceTheorems, FiniteSetTheorems, FunctionTheorems,
        WellFoundedInduction, TLAPS

\* The fields of a packet are numbers.
LEMMA PacketFields ==
  ASSUME NEW p \in Packet
  PROVE  /\ p.data \in Nat /\ p.data < BufSize
         /\ p.size \in Nat /\ 1 <= p.size
         /\ p.padding \in Nat
         /\ p.pkt \in Nat /\ p.off \in Nat
         /\ Span(p) \in Nat /\ 1 <= Span(p)
         /\ Span(p) = p.size + p.padding
         /\ End(p) \in Nat
         /\ End(p) = p.data + p.size + p.padding
BY PktQueueAssumption DEF Packet, Positions, Span, End

\* The two cases of a distance from the head of the ring.
LEMMA OffsetCases ==
  ASSUME NEW h \in Nat, NEW x \in Nat
  PROVE  /\ Offset(h, x) \in Int
         /\ x >= h => Offset(h, x) = x - h
         /\ x < h => Offset(h, x) = (x - h) + BufSize
BY PktQueueAssumption DEF Offset

\* Padding the last packet up to the end of the ring keeps the layout, with
\* the tail moved to the start of the ring.
LEMMA PadLayout ==
  ASSUME NEW L \in Seq(Packet), NEW h \in Positions, NEW t \in Positions,
         NEW d \in 0..BufSize, NEW n \in Nat \ {0},
         RingOK(L, h, t, d), L # <<>>, d + n <= BufSize, BufSize - t < n,
         NEW M \in Seq(Packet), Len(M) = Len(L),
         \A i \in 1..Len(L) :
           /\ M[i].data = L[i].data /\ M[i].size = L[i].size
           /\ M[i].padding = IF i = Len(L) THEN BufSize - t ELSE L[i].padding
  PROVE  /\ d + (BufSize - t) \in 0..BufSize
         /\ RingOK(M, h, 0, d + (BufSize - t))
<1> DEFINE k == Len(L)
           last == L[k]
<1>1. k \in Nat \ {0} /\ last \in Packet /\ BufSize \in Nat \ {0}
  BY PktQueueAssumption, EmptySeq, ElementOfSeq
<1>2. /\ h = L[1].data
      /\ t = Wrapped(End(last))
      /\ d = IF t > h THEN t - h ELSE t - h + BufSize
      /\ End(last) <= BufSize
      /\ last.padding > 0 => End(last) = BufSize
  BY <1>1 DEF RingOK
<1>3. /\ h \in Nat /\ h < BufSize /\ t \in Nat /\ t < BufSize
      /\ d \in Nat /\ n \in Nat /\ BufSize \in Nat
  BY <1>1 DEF Positions
<1>4. t > h /\ t = End(last) /\ last.padding = 0
  <2>1. t > h
    BY <1>2, <1>3
  <2>2. t = End(last)
    BY <2>1, <1>2, <1>3 DEF Wrapped
  <2>3. last.padding = 0
    <3>1. last.padding \in Nat
      BY <1>1, PacketFields
    <3> QED BY <3>1, <2>2, <1>2, <1>3
  <2> QED BY <2>1, <2>2, <2>3
<1>5. d + (BufSize - t) = BufSize - h /\ BufSize - h \in 0..BufSize
  BY SMTT(30), <1>2, <1>3, <1>4
<1>6. \A i \in 1..k :
        /\ L[i] \in Packet /\ M[i] \in Packet
        /\ M[i].data = L[i].data
        /\ i # k => /\ Span(M[i]) = Span(L[i]) /\ End(M[i]) = End(L[i])
                    /\ M[i].padding = L[i].padding
        /\ i = k => End(M[i]) = BufSize /\ Span(M[i]) = Span(L[i]) + (BufSize - t)
  <2> TAKE i \in 1..k
  <2>1. L[i] \in Packet /\ M[i] \in Packet
    BY <1>1, ElementOfSeq
  <2>2. CASE i # k
    BY <2>1, <2>2 DEF Span, End
  <2>3. CASE i = k
    <3>1. /\ End(L[k]) = L[k].data + L[k].size + L[k].padding
          /\ Span(L[k]) = L[k].size + L[k].padding
          /\ End(M[k]) = M[k].data + M[k].size + M[k].padding
          /\ Span(M[k]) = M[k].size + M[k].padding
          /\ L[k].data \in Nat /\ L[k].size \in Nat
      BY <2>1, <2>3, PacketFields
    <3> QED BY <2>1, <2>3, <3>1, <1>1, <1>3, <1>4
  <2> QED BY <2>1, <2>2, <2>3
<1>7. \A i \in 1..k : /\ End(M[i]) <= BufSize
                      /\ M[i].padding > 0 => End(M[i]) = BufSize
                      /\ Offset(h, M[i].data) + Span(M[i]) <= BufSize - h
  <2> TAKE i \in 1..k
  <2>1. /\ End(L[i]) <= BufSize
        /\ L[i].padding > 0 => End(L[i]) = BufSize
        /\ Offset(h, L[i].data) + Span(L[i]) <= d
    BY DEF RingOK
  <2>2. /\ L[i].data \in Nat /\ Span(L[i]) \in Nat
        /\ End(L[i]) = L[i].data + Span(L[i])
    BY <1>6, PacketFields DEF End
  <2>3. CASE i # k
    <3>1. /\ M[i].data = L[i].data /\ Span(M[i]) = Span(L[i])
          /\ End(M[i]) = End(L[i]) /\ M[i].padding = L[i].padding
      BY <2>3, <1>6
    <3>2. Offset(h, L[i].data) \in Int
      BY <2>2, <1>3, OffsetCases
    <3> QED BY SMTT(30), <3>1, <3>2, <2>1, <2>2, <1>2, <1>3, <1>4
  <2>4. CASE i = k
    <3>1. /\ M[i].data = L[i].data /\ Span(M[i]) = Span(L[i]) + (BufSize - t)
          /\ End(M[i]) = BufSize /\ t = End(L[i])
      BY <2>4, <1>4, <1>6
    <3>2. L[i].data >= h
      <4>1. d = t - h /\ t = L[i].data + Span(L[i])
        BY <3>1, <2>2, <1>2, <1>4
      <4>2. CASE L[i].data < h
        <5>1. (L[i].data - h) + BufSize + Span(L[i]) <= d
          BY <4>2, <2>1, <2>2, <1>3, OffsetCases
        <5> QED BY SMTT(30), <5>1, <4>1, <2>2, <1>3
      <4> QED BY <4>2, <2>2, <1>3
    <3>3. Offset(h, L[i].data) = L[i].data - h
      BY <3>2, <2>2, <1>3, OffsetCases
    <3>4. End(M[i]) <= BufSize /\ (M[i].padding > 0 => End(M[i]) = BufSize)
      BY <3>1, <1>3
    <3>5. Offset(h, M[i].data) = L[i].data - h
      BY <3>1, <3>3
    <3>6. Offset(h, M[i].data) + Span(M[i]) <= BufSize - h
      BY SMTT(30), <3>1, <3>5, <2>2, <1>3
    <3> QED BY <3>4, <3>6
  <2> QED BY <2>3, <2>4
<1>8. \A i \in 1..k-1 : M[i+1].data = Wrapped(End(M[i]))
  BY <1>1, <1>6 DEF RingOK
<1>9. \A i, j \in 1..k : i < j =>
        Offset(h, M[i].data) + Span(M[i]) <= Offset(h, M[j].data)
  BY <1>1, <1>6 DEF RingOK
<1>10. /\ h = M[1].data
       /\ 0 = Wrapped(End(M[k]))
       /\ BufSize - h = IF 0 > h THEN 0 - h ELSE 0 - h + BufSize
  BY SMTT(30), <1>1, <1>2, <1>3, <1>6 DEF Wrapped
<1>11. RingOK(M, h, 0, BufSize - h)
  BY <1>1, <1>7, <1>8, <1>9, <1>10, EmptySeq DEF RingOK
<1> QED BY <1>5, <1>11

\* Where there is room, the tail is datasize bytes after the head.
LEMMA TailOffset ==
  ASSUME NEW L \in Seq(Packet), NEW h \in Positions, NEW t \in Positions,
         NEW d \in 0..BufSize, RingOK(L, h, t, d), d < BufSize
  PROVE  /\ Offset(h, t) = d
         /\ t >= h => d = t - h
         /\ t < h => d = (t - h) + BufSize
<1>1. h \in Nat /\ t \in Nat /\ d \in Nat /\ BufSize \in Nat
  BY PktQueueAssumption DEF Positions
<1>2. CASE L = <<>>
  <2>1. h = 0 /\ t = 0 /\ d = 0
    BY <1>2 DEF RingOK
  <2> QED BY <2>1, <1>1, OffsetCases
<1>3. CASE L # <<>>
  <2>1. d = IF t > h THEN t - h ELSE t - h + BufSize
    BY <1>3 DEF RingOK
  <2>2. CASE t > h
    BY <2>1, <2>2, <1>1, OffsetCases
  <2>3. CASE t <= h
    <3>1. d = (t - h) + BufSize /\ t < h
      BY <2>1, <2>3, <1>1
    <3> QED BY <3>1, <1>1, OffsetCases
  <2> QED BY <2>2, <2>3, <1>1
<1> QED BY <1>2, <1>3

\* A packet stored at the tail keeps the layout, and none of its bytes is a
\* byte of a packet that was already queued.
LEMMA AppendLayout ==
  ASSUME NEW L \in Seq(Packet), NEW h \in Positions, NEW t \in Positions,
         NEW d \in 0..BufSize, RingOK(L, h, t, d),
         NEW p \in Packet, p.data = t, p.padding = 0,
         d + p.size <= BufSize, t + p.size <= BufSize
  PROVE  /\ RingOK(Append(L, p), h, Wrapped(t + p.size), d + p.size)
         /\ \A i \in 1..Len(L) :
              End(L[i]) <= t \/ t + p.size <= L[i].data
<1> DEFINE k == Len(L)
           M == Append(L, p)
           u == Wrapped(t + p.size)
<1>1. /\ h \in Nat /\ h < BufSize /\ t \in Nat /\ t < BufSize
      /\ d \in Nat /\ BufSize \in Nat /\ k \in Nat
  BY PktQueueAssumption, LenProperties DEF Positions
<1>2. /\ p.size \in Nat /\ p.size >= 1 /\ Span(p) = p.size
      /\ End(p) = t + p.size
  BY <1>1, PacketFields
<1>3. /\ Offset(h, t) = d
      /\ t >= h => d = t - h
      /\ t < h => d = (t - h) + BufSize
  BY <1>1, <1>2, TailOffset
<1>4. /\ M # <<>> /\ Len(M) = k + 1 /\ M[k + 1] = p
      /\ \A i \in 1..k : M[i] = L[i]
  BY <1>1
<1>5. \A i \in 1..k :
        /\ L[i] \in Packet /\ L[i].data \in Nat /\ Span(L[i]) \in Nat
        /\ Span(L[i]) >= 1
        /\ End(L[i]) = L[i].data + Span(L[i])
        /\ End(L[i]) <= BufSize
        /\ L[i].padding > 0 => End(L[i]) = BufSize
        /\ Offset(h, L[i].data) \in Int
        /\ Offset(h, L[i].data) + Span(L[i]) <= d
  BY <1>1, ElementOfSeq, PacketFields, OffsetCases DEF RingOK, End
<1>6. d + p.size = IF u > h THEN u - h ELSE u - h + BufSize
  <2>1. CASE t + p.size = BufSize
    <3>1. u = 0
      BY <2>1 DEF Wrapped
    <3>2. t >= h
      BY <2>1, <1>1, <1>2, <1>3
    <3>3. d + p.size = BufSize - h
      BY SMTT(30), <3>2, <2>1, <1>1, <1>2, <1>3
    <3> QED BY <3>1, <3>3, <1>1
  <2>2. CASE t + p.size # BufSize
    <3>1. u = t + p.size
      BY <2>2 DEF Wrapped
    <3> QED BY SMTT(30), <3>1, <2>2, <1>1, <1>2, <1>3
  <2> QED BY <2>1, <2>2
<1>7. h = M[1].data
  <2>1. CASE L = <<>>
    BY <2>1, <1>3, <1>4 DEF RingOK
  <2>2. CASE L # <<>>
    BY <2>2, <1>1, <1>4, EmptySeq DEF RingOK
  <2> QED BY <2>1, <2>2
<1>8. \A i \in 1..k+1 :
        /\ End(M[i]) <= BufSize
        /\ M[i].padding > 0 => End(M[i]) = BufSize
        /\ Offset(h, M[i].data) + Span(M[i]) <= d + p.size
  <2> TAKE i \in 1..k+1
  <2>1. CASE i = k + 1
    BY <2>1, <1>1, <1>2, <1>3, <1>4
  <2>2. CASE i # k + 1
    <3>1. i \in 1..k
      BY <2>2, <1>1
    <3> QED BY <3>1, <1>1, <1>2, <1>4, <1>5
  <2> QED BY <2>1, <2>2
<1>9. \A i \in 1..k : M[i+1].data = Wrapped(End(M[i]))
  <2> TAKE i \in 1..k
  <2>1. CASE i = k
    BY <2>1, <1>1, <1>4, EmptySeq DEF RingOK
  <2>2. CASE i # k
    <3>1. i \in 1..k-1 /\ i + 1 \in 1..k
      BY <2>2, <1>1
    <3> QED BY <3>1, <1>4 DEF RingOK
  <2> QED BY <2>1, <2>2
<1>10. \A i, j \in 1..k+1 : i < j =>
         Offset(h, M[i].data) + Span(M[i]) <= Offset(h, M[j].data)
  <2> SUFFICES ASSUME NEW i \in 1..k+1, NEW j \in 1..k+1, i < j
               PROVE  Offset(h, M[i].data) + Span(M[i]) <= Offset(h, M[j].data)
    OBVIOUS
  <2>1. i \in 1..k
    BY <1>1
  <2>2. CASE j = k + 1
    BY <2>1, <2>2, <1>3, <1>4, <1>5
  <2>3. CASE j # k + 1
    <3>1. j \in 1..k
      BY <2>3, <1>1
    <3> QED BY <3>1, <2>1, <1>4 DEF RingOK
  <2> QED BY <2>2, <2>3
<1>11. RingOK(M, h, u, d + p.size)
  <2>1. u = Wrapped(End(M[Len(M)]))
    BY <1>2, <1>4
  <2>2. Len(M) = k + 1 /\ Len(M) - 1 = k /\ M # <<>>
    BY <1>1, <1>4
  <2> HIDE DEF M, u
  <2> QED BY <2>1, <2>2, <1>6, <1>7, <1>8, <1>9, <1>10 DEF RingOK
<1>12. ASSUME NEW i \in 1..k
       PROVE  End(L[i]) <= t \/ t + p.size <= L[i].data
  <2>0. /\ L[i].data \in Nat /\ Span(L[i]) \in Nat
        /\ End(L[i]) = L[i].data + Span(L[i])
        /\ Offset(h, L[i].data) + Span(L[i]) <= d
    BY <1>5
  <2>1. CASE L[i].data >= h
    <3>1. (L[i].data - h) + Span(L[i]) <= d
      BY <2>0, <2>1, <1>1, OffsetCases
    <3>2. CASE t >= h
      BY <3>1, <3>2, <2>0, <1>1, <1>3
    <3>3. CASE t < h
      <4>1. t + p.size <= h
        BY <3>3, <1>1, <1>2, <1>3
      <4> QED BY <4>1, <2>1, <2>0, <1>1, <1>2
    <3> QED BY <3>2, <3>3, <1>1
  <2>2. CASE L[i].data < h
    <3>1. (L[i].data - h) + BufSize + Span(L[i]) <= d
      BY <2>0, <2>2, <1>1, OffsetCases
    <3> QED BY <3>1, <2>0, <1>1, <1>3
  <2> QED BY <2>0, <2>1, <2>2, <1>1
<1> QED BY <1>11, <1>12

\* M is L with its first packet cut in two at position o.
IsCut(L, M, o) ==
  /\ Len(M) = Len(L) + 1
  /\ M[1].data = L[1].data /\ M[1].size = o - L[1].data /\ M[1].padding = 0
  /\ M[2].data = o /\ M[2].size = L[1].size - (o - L[1].data)
  /\ M[2].padding = L[1].padding
  /\ \A i \in 3..Len(M) : M[i] = L[i-1]

\* Cutting the first packet in two keeps the layout.
LEMMA SplitLayout ==
  ASSUME NEW L \in Seq(Packet), NEW h \in Positions, NEW t \in Positions,
         NEW d \in 0..BufSize, RingOK(L, h, t, d), L # <<>>,
         NEW o \in Nat, L[1].data < o, o < L[1].data + L[1].size,
         NEW M \in Seq(Packet), IsCut(L, M, o)
  PROVE  RingOK(M, h, t, d)
<1> DEFINE k == Len(L)
<1>1. /\ h \in Nat /\ h < BufSize /\ t \in Nat /\ t < BufSize
      /\ d \in Nat /\ BufSize \in Nat /\ k \in Nat /\ k >= 1
  BY PktQueueAssumption, EmptySeq DEF Positions
<1>2. /\ h = L[1].data
      /\ t = Wrapped(End(L[k]))
      /\ d = IF t > h THEN t - h ELSE t - h + BufSize
  BY DEF RingOK
<1>3. \A i \in 1..k :
        /\ L[i] \in Packet /\ L[i].data \in Nat /\ Span(L[i]) \in Nat
        /\ Span(L[i]) >= 1
        /\ End(L[i]) <= BufSize
        /\ L[i].padding > 0 => End(L[i]) = BufSize
        /\ Offset(h, L[i].data) \in Int
        /\ Offset(h, L[i].data) + Span(L[i]) <= d
  BY <1>1, ElementOfSeq, PacketFields, OffsetCases DEF RingOK
<1>4. /\ L[1].size \in Nat /\ L[1].padding \in Nat
      /\ Span(L[1]) = L[1].size + L[1].padding
      /\ End(L[1]) = h + L[1].size + L[1].padding
  <2>1. L[1] \in Packet
    BY <1>1, <1>3
  <2> QED BY <2>1, <1>2, PacketFields
<1>cut. /\ M[1].data = h /\ M[1].size = o - h /\ M[1].padding = 0
      /\ M[2].data = o /\ M[2].size = L[1].size - (o - h)
      /\ M[2].padding = L[1].padding
      /\ Len(M) = k + 1
      /\ h < o /\ o < h + L[1].size
  BY <1>2 DEF IsCut
<1>5. /\ Span(M[1]) = o - h /\ End(M[1]) = o /\ o < BufSize
      /\ Span(M[2]) = Span(L[1]) - (o - h) /\ End(M[2]) = End(L[1])
  <2>1. M[1] \in Packet /\ M[2] \in Packet
    BY <1>1, <1>cut, ElementOfSeq
  <2>2. /\ Span(M[1]) = o - h /\ End(M[1]) = o
    <3>1. /\ End(M[1]) = M[1].data + M[1].size + M[1].padding
          /\ Span(M[1]) = M[1].size + M[1].padding
      BY <2>1, PacketFields
    <3> QED BY <3>1, <1>1, <1>cut
  <2>3. /\ Span(M[2]) = Span(L[1]) - (o - h) /\ End(M[2]) = End(L[1])
    <3>1. /\ End(M[2]) = M[2].data + M[2].size + M[2].padding
          /\ Span(M[2]) = M[2].size + M[2].padding
      BY <2>1, PacketFields
    <3> QED BY SMTT(30), <3>1, <1>1, <1>4, <1>cut
  <2>4. o < BufSize
    <3>1. End(L[1]) <= BufSize
      BY <1>1, <1>3
    <3> QED BY SMTT(30), <3>1, <1>1, <1>4, <1>cut
  <2> QED BY <2>2, <2>3, <2>4
<1>6. /\ Offset(h, M[1].data) = 0
      /\ Offset(h, M[2].data) = o - h
      /\ Offset(h, L[1].data) = 0
  <2>1. Offset(h, h) = h - h /\ Offset(h, o) = o - h
    BY <1>1, <1>cut, OffsetCases
  <2> QED BY <2>1, <1>1, <1>2, <1>cut
<1>7. \A i \in 2..k+1 :
        /\ End(M[i]) = End(L[i-1])
        /\ M[i].padding = L[i-1].padding
        /\ Offset(h, M[i].data) + Span(M[i])
             = Offset(h, L[i-1].data) + Span(L[i-1])
        /\ i > 2 => M[i].data = L[i-1].data
  <2> TAKE i \in 2..k+1
  <2>1. CASE i = 2
    <3>1. Span(L[1]) \in Nat
      BY <1>1, <1>3
    <3> QED BY <3>1, <2>1, <1>1, <1>5, <1>6, <1>cut
  <2>2. CASE i # 2
    <3>1. i \in 3..Len(M)
      BY <2>2, <1>1, <1>cut
    <3>2. M[i] = L[i-1]
      BY <3>1 DEF IsCut
    <3> QED BY <3>2
  <2> QED BY <2>1, <2>2
<1>8. \A i \in 1..k+1 :
        /\ End(M[i]) <= BufSize
        /\ M[i].padding > 0 => End(M[i]) = BufSize
        /\ Offset(h, M[i].data) + Span(M[i]) <= d
  <2> TAKE i \in 1..k+1
  <2>1. CASE i = 1
    <3>1. /\ End(M[i]) <= BufSize
          /\ M[i].padding > 0 => End(M[i]) = BufSize
      BY <2>1, <1>1, <1>5, <1>cut
    <3>2. Offset(h, M[i].data) + Span(M[i]) = o - h
      BY <2>1, <1>1, <1>5, <1>6
    <3>3. o - h <= Span(L[1]) /\ Span(L[1]) <= d /\ Span(L[1]) \in Nat
      <4>1. /\ Span(L[1]) \in Nat /\ Offset(h, L[1].data) + Span(L[1]) <= d
        BY <1>1, <1>3
      <4> QED BY SMTT(30), <4>1, <1>1, <1>4, <1>6, <1>cut
    <3> QED BY <3>1, <3>2, <3>3, <1>1
  <2>2. CASE i # 1
    <3>1. i \in 2..k+1 /\ i - 1 \in 1..k
      BY <2>2, <1>1
    <3> QED BY <3>1, <1>3, <1>7
  <2> QED BY <2>1, <2>2
<1>9. \A i \in 1..k : M[i+1].data = Wrapped(End(M[i]))
  <2> TAKE i \in 1..k
  <2>1. CASE i = 1
    BY <2>1, <1>1, <1>5, <1>cut DEF Wrapped
  <2>2. CASE i # 1
    <3>1. /\ i \in 2..k+1 /\ i + 1 \in 2..k+1 /\ i + 1 > 2 /\ i - 1 \in 1..k-1
          /\ (i + 1) - 1 = i /\ (i - 1) + 1 = i
      BY <2>2, <1>1
    <3>2. L[i].data = Wrapped(End(L[i-1]))
      BY <3>1 DEF RingOK
    <3> QED BY <3>1, <3>2, <1>7
  <2> QED BY <2>1, <2>2
<1>10. \A i, j \in 1..k+1 : i < j =>
         Offset(h, M[i].data) + Span(M[i]) <= Offset(h, M[j].data)
  <2> SUFFICES ASSUME NEW i \in 1..k+1, NEW j \in 1..k+1, i < j
               PROVE  Offset(h, M[i].data) + Span(M[i]) <= Offset(h, M[j].data)
    OBVIOUS
  <2>1. CASE j = 2
    <3>1. i = 1
      BY <2>1
    <3> QED BY <3>1, <2>1, <1>1, <1>5, <1>6
  <2>2. CASE j # 2
    <3>1. j \in 2..k+1 /\ j > 2 /\ j - 1 \in 1..k /\ j - 1 > 1 /\ 1 \in 1..k
      BY <2>2, <1>1
    <3>2. M[j].data = L[j-1].data
      BY <3>1, <1>7
    <3>3. CASE i = 1
      <4>1. Offset(h, L[1].data) + Span(L[1]) <= Offset(h, L[j-1].data)
        BY <3>1 DEF RingOK
      <4>2. Offset(h, M[1].data) + Span(M[1]) <= Span(L[1]) /\ Span(L[1]) \in Nat
        <5>1. Span(L[1]) \in Nat
          BY <3>1, <1>3
        <5> QED BY SMTT(30), <5>1, <1>1, <1>4, <1>5, <1>6, <1>cut
      <4>3. Offset(h, L[j-1].data) \in Int
        BY <3>1, <1>3
      <4>4. Offset(h, M[1].data) + Span(M[1]) \in Int
        BY <1>1, <1>5, <1>6
      <4> QED BY <4>1, <4>2, <4>3, <4>4, <3>2, <3>3, <1>6
    <3>4. CASE i # 1
      <4>1. i \in 2..k+1 /\ i - 1 \in 1..k /\ i - 1 < j - 1
        BY <3>4, <1>1
      <4>2. Offset(h, L[i-1].data) + Span(L[i-1]) <= Offset(h, L[j-1].data)
        BY <3>1, <4>1 DEF RingOK
      <4> QED BY <4>1, <4>2, <3>2, <1>7
    <3> QED BY <3>3, <3>4
  <2> QED BY <2>1, <2>2
<1>11. /\ M # <<>> /\ Len(M) - 1 = k /\ h = M[1].data
       /\ End(M[Len(M)]) = End(L[k])
  BY <1>1, <1>7, <1>cut, EmptySeq
<1> QED BY <1>1, <1>2, <1>8, <1>9, <1>10, <1>11 DEF RingOK

\* Moving the head past s bytes brings every later position s bytes closer.
LEMMA ShiftOffset ==
  ASSUME NEW h \in Positions, NEW s \in Nat, h + s <= BufSize,
         NEW x \in Positions, s <= Offset(h, x)
  PROVE  Offset(Wrapped(h + s), x) = Offset(h, x) - s
<1>1. /\ h \in Nat /\ h < BufSize /\ x \in Nat /\ x < BufSize /\ BufSize \in Nat
  BY PktQueueAssumption DEF Positions
<1>2. CASE h + s = BufSize
  <2>1. Wrapped(h + s) = 0
    BY <1>2 DEF Wrapped
  <2>2. Offset(0, x) = x
    BY <1>1, OffsetCases
  <2>3. x < h
    <3>1. CASE x >= h
      <4>1. Offset(h, x) = x - h
        BY <3>1, <1>1, OffsetCases
      <4> QED BY <4>1, <1>1, <1>2
    <3> QED BY <3>1, <1>1
  <2>4. Offset(h, x) = (x - h) + BufSize
    BY <2>3, <1>1, OffsetCases
  <2> QED BY <2>1, <2>2, <2>4, <1>1, <1>2
<1>3. CASE h + s # BufSize
  <2>1. Wrapped(h + s) = h + s
    BY <1>3 DEF Wrapped
  <2>2. CASE x >= h
    <3>1. Offset(h, x) = x - h
      BY <2>2, <1>1, OffsetCases
    <3>2. x >= h + s
      BY <3>1, <1>1
    <3>3. Offset(h + s, x) = x - (h + s)
      BY <3>2, <1>1, OffsetCases
    <3> QED BY <2>1, <3>1, <3>3, <1>1
  <2>3. CASE x < h
    <3>1. Offset(h, x) = (x - h) + BufSize
      BY <2>3, <1>1, OffsetCases
    <3>2. x < h + s
      BY <2>3, <1>1
    <3>3. Offset(h + s, x) = (x - (h + s)) + BufSize
      BY SMTT(30), <3>2, <1>1, OffsetCases
    <3> QED BY <2>1, <3>1, <3>3, <1>1
  <2> QED BY <2>2, <2>3, <1>1
<1> QED BY <1>2, <1>3

\* Removing the first packet keeps the layout; the ring starts again at its
\* first byte when the head meets the tail.
LEMMA PopLayout ==
  ASSUME NEW L \in Seq(Packet), NEW h \in Positions, NEW t \in Positions,
         NEW d \in 0..BufSize, RingOK(L, h, t, d), L # <<>>,
         NEW u, u = Wrapped(End(L[1])), NEW e, e = d - Span(L[1])
  PROVE  /\ u \in Positions
         /\ e \in 0..BufSize
         /\ u = t <=> Len(L) = 1
         /\ RingOK(Tail(L), IF u = t THEN 0 ELSE u, IF u = t THEN 0 ELSE t, e)
<1> DEFINE k == Len(L)
           M == Tail(L)
           s == Span(L[1])
<1>1. /\ h \in Nat /\ h < BufSize /\ t \in Nat /\ t < BufSize
      /\ d \in Nat /\ d <= BufSize /\ BufSize \in Nat /\ k \in Nat /\ k >= 1
  BY PktQueueAssumption, EmptySeq DEF Positions
<1>2. /\ h = L[1].data
      /\ t = Wrapped(End(L[k]))
      /\ d = IF t > h THEN t - h ELSE t - h + BufSize
  BY DEF RingOK
<1>3. \A i \in 1..k :
        /\ L[i] \in Packet /\ L[i].data \in Positions
        /\ Span(L[i]) \in Nat /\ Span(L[i]) >= 1
        /\ End(L[i]) = L[i].data + Span(L[i])
        /\ End(L[i]) <= BufSize
        /\ L[i].padding > 0 => End(L[i]) = BufSize
        /\ Offset(h, L[i].data) + Span(L[i]) <= d
  <2> TAKE i \in 1..k
  <2>1. L[i] \in Packet
    BY ElementOfSeq
  <2>2. L[i].data \in Positions
    BY <2>1 DEF Packet
  <2>3. Span(L[i]) \in Nat /\ Span(L[i]) >= 1 /\ End(L[i]) = L[i].data + Span(L[i])
    BY <2>1, PacketFields DEF End
  <2> QED BY <2>1, <2>2, <2>3 DEF RingOK
<1>4. s \in Nat /\ s >= 1 /\ End(L[1]) = h + s /\ h + s <= BufSize /\ s <= d
  <2>1. Offset(h, h) = h - h
    BY <1>1, OffsetCases
  <2> QED BY <2>1, <1>1, <1>2, <1>3
<1>5. u \in Positions /\ e \in 0..BufSize /\ u = Wrapped(h + s)
  BY <1>1, <1>4 DEF Wrapped, Positions
<1>6. /\ M \in Seq(Packet) /\ Len(M) = k - 1
      /\ \A i \in 1..k-1 : M[i] = L[i+1] /\ i + 1 \in 1..k
  BY <1>1, HeadTailProperties
<1> HIDE DEF M
<1>7. CASE k = 1
  <2>1. M = <<>>
    BY <1>1, <1>6, <1>7, EmptySeq
  <2>2. u = t
    BY <1>2, <1>7
  <2>3. d = s
    <3>1. t = Wrapped(h + s)
      BY <1>5, <2>2
    <3>2. CASE h + s = BufSize
      <4>1. t = 0
        BY <3>1, <3>2 DEF Wrapped
      <4>2. d = 0 - h + BufSize
        BY <4>1, <1>1, <1>2
      <4> QED BY <4>2, <3>2, <1>1, <1>4
    <3>3. CASE h + s # BufSize
      <4>1. t = h + s /\ t > h
        BY <3>1, <3>3, <1>1, <1>4 DEF Wrapped
      <4>2. d = t - h
        BY <4>1, <1>2
      <4> QED BY <4>1, <4>2, <1>1, <1>4
    <3> QED BY <3>2, <3>3
  <2>4. e = 0
    BY <2>3, <1>4
  <2>5. RingOK(M, 0, 0, 0)
    BY <2>1, EmptySeq DEF RingOK
  <2> QED BY <2>2, <2>4, <2>5, <1>5, <1>7 DEF M
<1>8. CASE k > 1
  <2>1. /\ 1 \in 1..k-1 /\ 1 \in 1..k /\ 2 \in 1..k /\ 1 < 2 /\ 1 + 1 = 2
    BY <1>1, <1>8
  <2>2. L[2].data = u
    BY <2>1 DEF RingOK
  <2>3. \A i \in 2..k : s <= Offset(h, L[i].data)
    <3> TAKE i \in 2..k
    <3>1. i \in 1..k /\ 1 < i
      BY <1>1
    <3>2. Offset(h, L[1].data) + Span(L[1]) <= Offset(h, L[i].data)
      BY <2>1, <3>1 DEF RingOK
    <3>3. Offset(h, L[1].data) = 0
      <4>1. Offset(h, h) = h - h
        BY <1>1, OffsetCases
      <4> QED BY <4>1, <1>1, <1>2
    <3> QED BY <3>2, <3>3, <1>4
  <2>4. \A i \in 2..k : Offset(u, L[i].data) = Offset(h, L[i].data) - s
    <3> TAKE i \in 2..k
    <3>1. i \in 1..k
      BY <1>1
    <3> QED BY <3>1, <2>3, <1>3, <1>4, <1>5, ShiftOffset
  <2>5. \A i \in 2..k : Offset(h, L[i].data) \in Int
    <3> TAKE i \in 2..k
    <3>1. i \in 1..k
      BY <1>1
    <3>2. L[i].data \in Nat
      BY <3>1, <1>3, PktQueueAssumption DEF Positions
    <3> QED BY <3>2, <1>1, OffsetCases
  <2>6. s < d
    <3>1. /\ Offset(h, L[2].data) + Span(L[2]) <= d
          /\ Span(L[2]) \in Nat /\ Span(L[2]) >= 1
      BY <2>1, <1>3
    <3>2. s <= Offset(h, L[2].data) /\ Offset(h, L[2].data) \in Int
      BY <1>8, <1>1, <2>3, <2>5
    <3> QED BY <3>1, <3>2, <1>1, <1>4
  <2>7. u # t /\ e = IF t > u THEN t - u ELSE t - u + BufSize
    <3>1. CASE h + s = BufSize
      <4>1. u = 0
        BY <3>1, <1>5 DEF Wrapped
      <4>2. t <= h
        BY <3>1, <2>6, <1>1, <1>2, <1>4
      <4>3. d = t - h + BufSize
        BY <4>2, <1>1, <1>2
      <4> QED BY <4>1, <4>3, <3>1, <2>6, <1>1, <1>4
    <3>2. CASE h + s # BufSize
      <4>1. u = h + s
        BY <3>2, <1>5 DEF Wrapped
      <4>2. CASE t > h
        BY SMTT(30), <4>1, <4>2, <2>6, <1>1, <1>2, <1>4
      <4>3. CASE t <= h
        <5>1. d = t - h + BufSize
          BY <4>3, <1>1, <1>2
        <5> QED BY <4>1, <4>3, <5>1, <1>1, <1>4
      <4> QED BY <4>2, <4>3, <1>1
    <3> QED BY <3>1, <3>2
  <2>8. /\ M # <<>> /\ u = M[1].data /\ t = Wrapped(End(M[Len(M)]))
    <3>1. M[1] = L[2] /\ k - 1 \in 1..k-1 /\ (k - 1) + 1 = k
      BY <2>1, <1>1, <1>6, <1>8
    <3>2. M[k-1] = L[k]
      BY <3>1, <1>6
    <3> QED BY <3>1, <3>2, <2>2, <1>2, <1>6, <1>8, EmptySeq
  <2>9. \A i \in 1..k-1 :
          /\ End(M[i]) <= BufSize
          /\ M[i].padding > 0 => End(M[i]) = BufSize
          /\ Offset(u, M[i].data) + Span(M[i]) <= e
    <3> TAKE i \in 1..k-1
    <3>1. M[i] = L[i+1] /\ i + 1 \in 1..k /\ i + 1 \in 2..k
      BY <1>1, <1>6
    <3>2. Offset(u, M[i].data) = Offset(h, L[i+1].data) - s
      BY <3>1, <2>4
    <3>3. /\ Offset(h, L[i+1].data) + Span(L[i+1]) <= d
          /\ Offset(h, L[i+1].data) \in Int /\ Span(L[i+1]) \in Nat
      BY <3>1, <2>5, <1>3
    <3>4. Offset(u, M[i].data) + Span(M[i]) <= e
      BY <3>1, <3>2, <3>3, <1>1, <1>4
    <3> QED BY <3>1, <3>4, <1>3
  <2>10. \A i \in 1..(k-1)-1 : M[i+1].data = Wrapped(End(M[i]))
    <3> TAKE i \in 1..(k-1)-1
    <3>1. /\ i \in 1..k-1 /\ i + 1 \in 1..k-1
      BY <1>1
    <3>2. M[i] = L[i+1] /\ M[i+1] = L[(i+1)+1]
      BY <3>1, <1>6
    <3> QED BY <3>1, <3>2 DEF RingOK
  <2>11. \A i, j \in 1..k-1 : i < j =>
           Offset(u, M[i].data) + Span(M[i]) <= Offset(u, M[j].data)
    <3> SUFFICES ASSUME NEW i \in 1..k-1, NEW j \in 1..k-1, i < j
                 PROVE  Offset(u, M[i].data) + Span(M[i]) <= Offset(u, M[j].data)
      OBVIOUS
    <3>1. /\ M[i] = L[i+1] /\ i + 1 \in 1..k /\ i + 1 \in 2..k
          /\ M[j] = L[j+1] /\ j + 1 \in 1..k /\ j + 1 \in 2..k
          /\ i + 1 < j + 1
      BY <1>1, <1>6
    <3>2. Offset(h, L[i+1].data) + Span(L[i+1]) <= Offset(h, L[j+1].data)
      BY <3>1 DEF RingOK
    <3>3. /\ Offset(u, M[i].data) = Offset(h, L[i+1].data) - s
          /\ Offset(u, M[j].data) = Offset(h, L[j+1].data) - s
      BY <3>1, <2>4
    <3>4. /\ Offset(h, L[i+1].data) \in Int /\ Offset(h, L[j+1].data) \in Int
          /\ Span(L[i+1]) \in Nat
      BY <3>1, <2>5, <1>3
    <3> QED BY <3>1, <3>2, <3>3, <3>4, <1>4
  <2>12. RingOK(M, u, t, e)
    <3> HIDE DEF M, k
    <3> QED BY <2>7, <2>8, <2>9, <2>10, <2>11, <1>6 DEF RingOK
  <2>13. /\ (IF u = t THEN 0 ELSE u) = u
         /\ (IF u = t THEN 0 ELSE t) = t
    BY <2>7
  <2>14. RingOK(M, IF u = t THEN 0 ELSE u, IF u = t THEN 0 ELSE t, e)
    BY <2>12, <2>13
  <2>15. Len(L) # 1
    <3>1. k # 1
      <4> HIDE DEF k
      <4> QED BY <1>1, <1>8
    <3> QED BY <3>1
  <2> QED BY <2>7, <2>14, <2>15, <1>5 DEF M
<1>9. k = 1 \/ k > 1
  <2> HIDE DEF k
  <2> QED BY <1>1
<1> QED BY <1>7, <1>8, <1>9

\* Two lists whose packets hold the same bytes.
SameBytes(L, M) ==
  /\ Len(M) = Len(L)
  /\ \A i \in 1..Len(L) :
       /\ M[i].data = L[i].data /\ M[i].size = L[i].size
       /\ M[i].pkt = L[i].pkt /\ M[i].off = L[i].off

\* What the type invariant says of the variables a step reads.
LEMMA TypeFacts ==
  ASSUME TypeOK
  PROVE  /\ head \in Nat /\ head < BufSize /\ tail \in Nat /\ tail < BufSize
         /\ datasize \in Nat /\ datasize <= BufSize
         /\ BufSize \in Nat /\ BufSize >= 1
         /\ Len(pktlist) \in Nat
BY PktQueueAssumption, LenProperties DEF TypeOK, Positions

\* What append finds after its size checks, whether it wrapped or not.
LEMMA RoomLayout ==
  ASSUME TypeOK, RingLayout, NEW n \in Sizes
  PROVE  /\ ~Clears(n)
         /\ PaddedList(n) \in Seq(Packet)
         /\ SameBytes(pktlist, PaddedList(n))
         /\ Start(n) \in Positions
         /\ Used(n) \in 0..BufSize
         /\ RingOK(PaddedList(n), head, Start(n), Used(n))
         /\ Stores(n) => Start(n) + n <= BufSize /\ Used(n) + n <= BufSize
<1>1. n \in Nat \ {0}
  BY PktQueueAssumption
<1>2. /\ pktlist \in Seq(Packet) /\ head \in Positions /\ tail \in Positions
      /\ datasize \in 0..BufSize /\ RingOK(pktlist, head, tail, datasize)
  BY DEF TypeOK, RingLayout
<1>3. ~Clears(n)
  <2>1. CASE pktlist = <<>>
    <3>1. tail = 0 /\ datasize = 0
      BY <2>1, <1>2 DEF RingOK
    <3> QED BY <3>1, <1>1, TypeFacts DEF Clears, Wraps, Fits
  <2>2. CASE pktlist # <<>>
    BY <2>2 DEF Clears
  <2> QED BY <2>1, <2>2
<1>4. CASE ~Wraps(n)
  <2>1. /\ PaddedList(n) = pktlist /\ Start(n) = tail /\ Used(n) = datasize
    BY <1>3, <1>4 DEF PaddedList, Start, Used, Pads
  <2>2. SameBytes(pktlist, pktlist)
    BY DEF SameBytes
  <2>3. Stores(n) => tail + n <= BufSize /\ datasize + n <= BufSize
    BY <1>1, <1>4, TypeFacts DEF Stores, Wraps, Fits
  <2> QED BY <2>1, <2>2, <2>3, <1>2, <1>3
<1>5. CASE Wraps(n)
  <2> DEFINE M == PaddedList(n)
             k == Len(pktlist)
  <2>1. /\ pktlist # <<>> /\ Pads(n)
        /\ datasize + n <= BufSize /\ BufSize - tail < n
    BY <1>3, <1>5 DEF Clears, Pads, Wraps, Fits
  <2>2. /\ M = [pktlist EXCEPT ![k].padding = BufSize - tail]
        /\ Start(n) = 0 /\ Used(n) = datasize + (BufSize - tail)
    BY <2>1, <1>5 DEF PaddedList, Start, Used
  <2>3. k \in 1..k /\ pktlist[k] \in Packet /\ BufSize - tail \in 0..BufSize
    BY <2>1, <1>2, EmptySeq, ElementOfSeq, TypeFacts
  <2> DEFINE q == [pktlist[k] EXCEPT !.padding = BufSize - tail]
  <2>4. /\ q \in Packet /\ q.data = pktlist[k].data /\ q.size = pktlist[k].size
        /\ q.pkt = pktlist[k].pkt /\ q.off = pktlist[k].off
        /\ q.padding = BufSize - tail
    BY <2>3 DEF Packet
  <2>5. M = [pktlist EXCEPT ![k] = q]
    BY <2>2
  <2>6. /\ M \in Seq(Packet) /\ Len(M) = k
        /\ \A j \in 1..k : M[j] = IF j = k THEN q ELSE pktlist[j]
    <3> HIDE DEF q, M
    <3> QED BY <2>3, <2>4, <2>5, <1>2, ExceptSeq
  <2>7. SameBytes(pktlist, M)
    <3> HIDE DEF q, M
    <3> QED BY <2>4, <2>6 DEF SameBytes
  <2>8. \A j \in 1..Len(pktlist) :
          /\ M[j].data = pktlist[j].data /\ M[j].size = pktlist[j].size
          /\ M[j].padding = IF j = Len(pktlist) THEN BufSize - tail
                                                ELSE pktlist[j].padding
    <3> HIDE DEF q, M
    <3> QED BY <2>4, <2>6
  <2>9. /\ datasize + (BufSize - tail) \in 0..BufSize
        /\ RingOK(M, head, 0, datasize + (BufSize - tail))
    <3> HIDE DEF q, M
    <3> QED BY <2>1, <2>6, <2>8, <1>1, <1>2, PadLayout
  <2>10. Start(n) \in Positions
    BY <2>2, TypeFacts DEF Positions
  <2>11. Stores(n) => Start(n) + n <= BufSize /\ Used(n) + n <= BufSize
    BY <2>2, <1>1, TypeFacts DEF Stores, Fits
  <2> QED BY <2>2, <2>6, <2>7, <2>9, <2>10, <2>11, <1>3
<1> QED BY <1>4, <1>5

\* Content and consumer state only depend on what SameBytes compares.
LEMMA SameBytesFront ==
  ASSUME TypeOK, FrontStable, NEW M \in Seq(Packet), SameBytes(pktlist, M),
         rpc # "idle"
  PROVE  /\ M # <<>> /\ 1 \in 1..Len(pktlist)
         /\ M[1].data = rpkt.data /\ M[1].pkt = rpkt.pkt /\ M[1].off = rpkt.off
         /\ M[1].size = IF rpc # "got" /\ CutsLarge THEN FrameSize ELSE rpkt.size
<1>1. pktlist \in Seq(Packet) /\ pktlist # <<>>
  BY DEF TypeOK, FrontStable
<1>2. 1 \in 1..Len(pktlist) /\ Len(M) = Len(pktlist) /\ M # <<>>
  BY <1>1, EmptySeq DEF SameBytes
<1>3. Head(pktlist) = pktlist[1]
  BY <1>1
<1> QED BY <1>2, <1>3 DEF FrontStable, SameBytes

\* A packet that append stores, after the wrap or without it, keeps IInv.
LEMMA AppendStoredInv ==
  ASSUME IInv, NEW n \in Sizes, AppendStored(n)
  PROVE  IInv'
<1> DEFINE L == pktlist
           M == PaddedList(n)
           t == Start(n)
           d == Used(n)
           p == [data |-> t, size |-> n, padding |-> 0,
                 pkt |-> offered + 1, off |-> 0]
           k == Len(L)
<1> USE DEF IInv
<1>1. /\ n \in Nat /\ n >= 1 /\ offered \in Nat /\ k \in Nat
      /\ BufSize \in Nat /\ BufSize >= 1
      /\ L \in Seq(Packet) /\ head \in Positions
  BY PktQueueAssumption, TypeFacts DEF TypeOK
<1>2. /\ ~Clears(n) /\ M \in Seq(Packet) /\ SameBytes(L, M)
      /\ t \in Positions /\ d \in 0..BufSize /\ RingOK(M, head, t, d)
      /\ t + n <= BufSize /\ d + n <= BufSize /\ Len(M) = k
  BY RoomLayout DEF AppendStored, SameBytes
<1>3. t \in Nat /\ t < BufSize /\ d \in Nat
  BY <1>1, <1>2 DEF Positions
<1>4. /\ p \in Packet /\ p.data = t /\ p.size = n /\ p.padding = 0
      /\ p.pkt = offered + 1 /\ p.off = 0
  BY <1>1, <1>2, <1>3 DEF Packet
<1>5. /\ pktlist' = Append(M, p)
      /\ head' = head /\ tail' = Wrapped(t + n) /\ datasize' = d + n
      /\ offered' = offered + 1 /\ offered < MaxPackets
      /\ buf' = [x \in Positions |->
                   IF x \in t..t+n-1 THEN <<offered + 1, x - t>> ELSE buf[x]]
      /\ UNCHANGED rvars
  BY <1>2 DEF AppendStored
<1> HIDE DEF M, t, d, p
<1>6. /\ RingOK(Append(M, p), head, Wrapped(t + n), d + n)
      /\ \A i \in 1..k : End(M[i]) <= t \/ t + n <= M[i].data
  BY <1>1, <1>2, <1>4, AppendLayout
<1>7. TypeOK'
  <2>1. tail' \in Positions
    BY <1>1, <1>2, <1>3, <1>5 DEF Wrapped, Positions
  <2>2. datasize' \in 0..BufSize
    BY <1>1, <1>2, <1>3, <1>5
  <2>3. buf' \in [Positions -> Byte]
    <3>1. buf \in [Positions -> Byte]
      BY DEF TypeOK
    <3>2. ASSUME NEW x \in Positions, x \in t..t+n-1
          PROVE  <<offered + 1, x - t>> \in Byte
      BY <3>2, <1>1, <1>3 DEF Byte, Positions
    <3> QED BY <3>1, <3>2, <1>5
  <2>4. pktlist' \in Seq(Packet)
    BY <1>2, <1>4, <1>5
  <2>5. offered' \in 0..MaxPackets
    BY <1>1, <1>5, PktQueueAssumption
  <2>6. /\ rpc' \in {"idle", "got", "cut", "copied"} /\ rpkt' \in Packet
        /\ rmax' \in FrameLimits \cup {0} /\ (rpc' # "idle" => rmax' # 0)
    BY <1>5 DEF TypeOK, rvars
  <2> QED BY <2>1, <2>2, <2>3, <2>4, <2>5, <2>6, <1>1, <1>5 DEF TypeOK
<1>8. RingLayout'
  BY <1>5, <1>6 DEF RingLayout
<1>9. /\ Len(pktlist') = k + 1 /\ pktlist'[k+1] = p
      /\ \A i \in 1..k : pktlist'[i] = M[i]
      /\ pktlist' # <<>>
  BY <1>1, <1>2, <1>4, <1>5
<1>10. ContentIntact'
  <2> SUFFICES ASSUME NEW i \in 1..k+1, NEW b \in 0..pktlist'[i].size-1
               PROVE  buf'[pktlist'[i].data + b]
                        = <<pktlist'[i].pkt, pktlist'[i].off + b>>
    BY <1>9 DEF ContentIntact
  <2>1. CASE i = k + 1
    <3>1. pktlist'[i] = p
      BY <2>1, <1>9
    <3>2. b \in 0..n-1 /\ t + b \in Positions /\ t + b \in t..t+n-1
      BY SMTT(30), <3>1, <1>1, <1>2, <1>3, <1>4 DEF Positions
    <3>3. buf'[t + b] = <<offered + 1, (t + b) - t>>
      BY <3>2, <1>5
    <3>4. (t + b) - t = 0 + b
      BY <3>2, <1>3
    <3> QED BY <3>1, <3>3, <3>4, <1>4
  <2>2. CASE i # k + 1
    <3>1. i \in 1..k
      BY <2>2, <1>1
    <3>2. pktlist'[i] = M[i]
      BY <3>1, <1>9
    <3>3. /\ M[i].data = L[i].data /\ M[i].size = L[i].size
          /\ M[i].pkt = L[i].pkt /\ M[i].off = L[i].off
      BY <3>1, <1>2 DEF SameBytes
    <3>4. buf[L[i].data + b] = <<L[i].pkt, L[i].off + b>>
      BY <3>1, <3>2, <3>3 DEF ContentIntact
    <3>5. /\ M[i] \in Packet /\ End(M[i]) <= BufSize
      BY <3>1, <1>2, ElementOfSeq DEF RingOK
    <3>6. /\ M[i].data \in Nat /\ M[i].size \in Nat
          /\ M[i].padding \in Nat
          /\ End(M[i]) = M[i].data + M[i].size + M[i].padding
      BY <3>5, PacketFields
    <3>7. b \in Nat /\ b < M[i].size
      BY <3>2, <3>6
    <3> DEFINE x == M[i].data + b
    <3>8. /\ x \in Nat /\ M[i].data <= x /\ x < End(M[i])
      BY SMTT(30), <3>6, <3>7
    <3> HIDE DEF x
    <3>9. x \in Positions /\ x \in Int
      BY SMTT(30), <3>5, <3>6, <3>8, <1>1 DEF Positions
    <3>10. x \notin t..t+n-1
      <4>1. End(M[i]) <= t \/ t + n <= M[i].data
        BY <3>1, <1>6
      <4>2. x < t \/ t + n <= x
        BY SMTT(30), <4>1, <3>6, <3>8, <1>1, <1>3
      <4> QED BY <4>2, <3>9, <1>1, <1>3
    <3>11. buf'[x] = buf[x]
      BY <3>9, <3>10, <1>5
    <3> QED BY <3>2, <3>3, <3>4, <3>11 DEF x
  <2> QED BY <2>1, <2>2
<1>11. FrontStable'
  <2> SUFFICES ASSUME rpc # "idle"
               PROVE  FrontStable'
    BY <1>5 DEF FrontStable, rvars
  <2>1. /\ Len(L) >= 1
        /\ M[1].data = rpkt.data /\ M[1].pkt = rpkt.pkt /\ M[1].off = rpkt.off
        /\ M[1].size = IF rpc # "got" /\ CutsLarge THEN FrameSize ELSE rpkt.size
    BY <1>2, SameBytesFront
  <2>2. Head(pktlist') = M[1]
    <3>1. 1 \in 1..k
      BY <2>1, <1>1
    <3>2. Head(pktlist') = pktlist'[1]
      BY <1>9
    <3> QED BY <3>1, <3>2, <1>9
  <2>3. FrameSize' = FrameSize /\ rpc' = rpc /\ rpkt' = rpkt
    BY <1>5 DEF FrameSize, TooLarge, rvars
  <2> QED BY <2>1, <2>2, <2>3, <1>9 DEF FrontStable
<1>12. CopyIntact'
  BY <1>5 DEF CopyIntact, FrameSize, TooLarge, rvars
<1> QED BY <1>7, <1>8, <1>10, <1>11, <1>12

\* A packet that append refuses, padding included, keeps IInv.
LEMMA AppendDroppedInv ==
  ASSUME IInv, NEW n \in Sizes, AppendDropped(n)
  PROVE  IInv'
<1> DEFINE M == PaddedList(n)
<1> USE DEF IInv
<1>1. /\ ~Clears(n) /\ M \in Seq(Packet) /\ SameBytes(pktlist, M)
      /\ Start(n) \in Positions /\ Used(n) \in 0..BufSize
      /\ RingOK(M, head, Start(n), Used(n))
  BY RoomLayout
<1>2. /\ pktlist' = M /\ head' = head /\ tail' = Start(n) /\ datasize' = Used(n)
      /\ offered' = offered + 1 /\ offered < MaxPackets
      /\ UNCHANGED <<buf, rvars>>
  BY <1>1 DEF AppendDropped
<1> HIDE DEF M
<1>3. TypeOK'
  <2>1. offered' \in 0..MaxPackets
    BY <1>2, PktQueueAssumption DEF TypeOK
  <2> QED BY <2>1, <1>1, <1>2 DEF TypeOK, rvars
<1>4. RingLayout'
  BY <1>1, <1>2 DEF RingLayout
<1>5. ContentIntact'
  <2> SUFFICES ASSUME NEW i \in 1..Len(M), NEW b \in 0..M[i].size-1
               PROVE  buf[M[i].data + b] = <<M[i].pkt, M[i].off + b>>
    BY <1>2 DEF ContentIntact
  <2>1. /\ i \in 1..Len(pktlist)
        /\ M[i].data = pktlist[i].data /\ M[i].size = pktlist[i].size
        /\ M[i].pkt = pktlist[i].pkt /\ M[i].off = pktlist[i].off
    BY <1>1 DEF SameBytes
  <2> QED BY <2>1 DEF ContentIntact
<1>6. FrontStable'
  <2> SUFFICES ASSUME rpc # "idle"
               PROVE  FrontStable'
    BY <1>2 DEF FrontStable, rvars
  <2>1. /\ M # <<>>
        /\ M[1].data = rpkt.data /\ M[1].pkt = rpkt.pkt /\ M[1].off = rpkt.off
        /\ M[1].size = IF rpc # "got" /\ CutsLarge THEN FrameSize ELSE rpkt.size
    BY <1>1, SameBytesFront
  <2>2. Head(pktlist') = M[1]
    BY <1>1, <1>2
  <2>3. FrameSize' = FrameSize /\ rpc' = rpc /\ rpkt' = rpkt
    BY <1>2 DEF FrameSize, TooLarge, rvars
  <2> QED BY <2>1, <2>2, <2>3, <1>2 DEF FrontStable
<1>7. CopyIntact'
  BY <1>2 DEF CopyIntact, FrameSize, TooLarge, rvars
<1> QED BY <1>3, <1>4, <1>5, <1>6, <1>7

\* Reading the first packet without its lock keeps IInv.
LEMMA ReadFrontInv ==
  ASSUME IInv, NEW m \in FrameLimits, ReadFront(m)
  PROVE  IInv'
<1> USE DEF IInv
<1>1. /\ pktlist # <<>> /\ rpc' = "got" /\ rpkt' = Head(pktlist) /\ rmax' = m
      /\ UNCHANGED <<buf, head, tail, datasize, pktlist, offered>>
  BY DEF ReadFront, qvars
<1>2. Head(pktlist) \in Packet
  BY <1>1, HeadTailProperties DEF TypeOK
<1>3. m # 0
  BY PktQueueAssumption
<1>4. TypeOK'
  BY <1>1, <1>2, <1>3 DEF TypeOK
<1> QED BY <1>1, <1>4 DEF RingLayout, ContentIntact, FrontStable, CopyIntact

\* The list that split_packet leaves.
LEMMA SplitIsCut ==
  ASSUME IInv, rpc = "got", CutsLarge, TooLarge
  PROVE  LET o == rpkt.data + rmax
         IN /\ SplitsAt(o) /\ o \in Nat
            /\ pktlist # <<>> /\ pktlist[1] = Head(pktlist)
            /\ pktlist[1].data < o /\ o < pktlist[1].data + pktlist[1].size
            /\ Split(o) \in Seq(Packet)
            /\ IsCut(pktlist, Split(o), o)
            /\ /\ Split(o)[1].pkt = rpkt.pkt /\ Split(o)[1].off = rpkt.off
               /\ Split(o)[2].pkt = rpkt.pkt /\ Split(o)[2].off = rpkt.off + rmax
<1> DEFINE o == rpkt.data + rmax
           first == Head(pktlist)
           front == [first EXCEPT !.size = o - first.data, !.padding = 0]
           rest == [first EXCEPT !.data = o, !.size = @ - (o - first.data),
                                 !.off = @ + (o - first.data)]
           M == Split(o)
<1>1. /\ pktlist \in Seq(Packet) /\ pktlist # <<>> /\ first \in Packet
      /\ first = pktlist[1]
      /\ rmax \in Nat /\ rmax >= 1 /\ BufSize \in Nat
      /\ first.data = rpkt.data /\ first.pkt = rpkt.pkt /\ first.off = rpkt.off
      /\ first.size = rpkt.size
      /\ rmax < first.size
  <2>1. rmax \in FrameLimits
    BY DEF IInv, TypeOK
  <2>2. rmax \in Nat /\ rmax >= 1 /\ BufSize \in Nat
    BY <2>1, PktQueueAssumption
  <2>3. pktlist \in Seq(Packet) /\ pktlist # <<>>
    BY DEF IInv, TypeOK, FrontStable
  <2>4. first \in Packet /\ first = pktlist[1]
    BY <2>3, HeadTailProperties
  <2>5. /\ first.data = rpkt.data /\ first.pkt = rpkt.pkt /\ first.off = rpkt.off
        /\ first.size = rpkt.size
    BY DEF IInv, FrontStable
  <2>6. rmax < first.size
    <3>1. first.size \in Nat
      BY <2>4, PacketFields
    <3> QED BY <3>1, <2>2, <2>5 DEF TooLarge
  <2> QED BY <2>2, <2>3, <2>4, <2>5, <2>6
<1>2. End(first) <= BufSize
  <2>1. 1 \in 1..Len(pktlist)
    BY <1>1, EmptySeq
  <2> QED BY <2>1, <1>1 DEF IInv, RingLayout, RingOK
<1>3. /\ first.data \in Nat /\ first.size \in Nat /\ first.padding \in Nat
      /\ first.pkt \in Nat /\ first.off \in Nat
      /\ End(first) = first.data + first.size + first.padding
      /\ first.size <= BufSize /\ first.padding <= BufSize
  <2>1. first.size <= BufSize /\ first.padding <= BufSize
    BY <1>1 DEF Packet
  <2> QED BY <2>1, <1>1, PacketFields
<1>4. /\ o \in Nat /\ first.data < o /\ o < first.data + first.size
      /\ o - first.data = rmax /\ o < BufSize
  BY <1>1, <1>2, <1>3
<1>5. SplitsAt(o)
  BY <1>1, <1>4 DEF SplitsAt
<1>6. /\ front \in Packet /\ front.data = first.data
      /\ front.size = o - first.data /\ front.padding = 0
      /\ front.pkt = first.pkt /\ front.off = first.off
  <2>1. o - first.data \in 1..BufSize /\ 0 \in 0..BufSize
    BY <1>1, <1>3, <1>4
  <2> QED BY <2>1, <1>1 DEF Packet
<1>7. /\ rest \in Packet /\ rest.data = o
      /\ rest.size = first.size - (o - first.data)
      /\ rest.padding = first.padding
      /\ rest.pkt = first.pkt /\ rest.off = first.off + rmax
  <2>1. first.size - (o - first.data) \in 1..BufSize
    BY <1>1, <1>3, <1>4
  <2>2. o \in Positions /\ first.off + (o - first.data) \in Nat
    BY SMTT(30), <1>1, <1>3, <1>4 DEF Positions
  <2> QED BY <2>1, <2>2, <1>1, <1>4 DEF Packet
<1>8. M = <<front, rest>> \o Tail(pktlist)
  BY DEF Split
<1> HIDE DEF M, front, rest
<1>9. /\ M \in Seq(Packet) /\ Len(M) = Len(pktlist) + 1
      /\ M[1] = front /\ M[2] = rest
      /\ \A i \in 3..Len(M) : M[i] = pktlist[i-1]
  <2>1. /\ Tail(pktlist) \in Seq(Packet) /\ Len(Tail(pktlist)) = Len(pktlist) - 1
        /\ \A i \in 1..Len(Tail(pktlist)) : Tail(pktlist)[i] = pktlist[i+1]
        /\ Len(pktlist) \in Nat /\ Len(pktlist) >= 1
    BY <1>1, HeadTailProperties, EmptySeq
  <2> DEFINE two == <<front, rest>>
  <2>2. two \in Seq(Packet) /\ Len(two) = 2 /\ two[1] = front /\ two[2] = rest
    BY <1>6, <1>7
  <2> HIDE DEF two
  <2>3. /\ M \in Seq(Packet) /\ Len(M) = 2 + Len(Tail(pktlist))
        /\ \A i \in 1..2 + Len(Tail(pktlist)) :
             M[i] = IF i <= 2 THEN two[i] ELSE Tail(pktlist)[i-2]
    BY <2>1, <2>2, <1>8, ConcatProperties DEF two
  <2>4. Len(M) = Len(pktlist) + 1
    BY <2>1, <2>3
  <2>5. M[1] = front /\ M[2] = rest
    BY <2>1, <2>2, <2>3
  <2>6. ASSUME NEW i \in 3..Len(M)
        PROVE  M[i] = pktlist[i-1]
    <3>1. i - 2 \in 1..Len(Tail(pktlist)) /\ (i - 2) + 1 = i - 1
      BY <2>1, <2>4
    <3>2. M[i] = Tail(pktlist)[i-2]
      BY <2>1, <2>3, <2>4
    <3> QED BY <3>1, <3>2, <2>1
  <2> QED BY <2>3, <2>4, <2>5, <2>6
<1>10. IsCut(pktlist, M, o)
  BY <1>1, <1>6, <1>7, <1>9 DEF IsCut
<1> QED BY <1>1, <1>4, <1>5, <1>6, <1>7, <1>9, <1>10 DEF M

\* Cutting a packet that is larger than a frame keeps IInv.
LEMMA SplitFrontInv ==
  ASSUME IInv, SplitFront
  PROVE  IInv'
<1> DEFINE o == rpkt.data + rmax
           M == Split(o)
           k == Len(pktlist)
<1>1. /\ rpc = "got" /\ CutsLarge /\ TooLarge
      /\ rpc' = "cut"
      /\ UNCHANGED <<buf, head, tail, datasize, offered, rpkt, rmax, rbuf, delivered>>
  BY DEF SplitFront
<1>2. /\ SplitsAt(o) /\ o \in Nat
      /\ pktlist # <<>> /\ pktlist[1] = Head(pktlist)
      /\ pktlist[1].data < o /\ o < pktlist[1].data + pktlist[1].size
      /\ M \in Seq(Packet)
      /\ IsCut(pktlist, M, o)
      /\ M[1].pkt = rpkt.pkt /\ M[1].off = rpkt.off
      /\ M[2].pkt = rpkt.pkt /\ M[2].off = rpkt.off + rmax
  BY <1>1, SplitIsCut
<1>3. pktlist' = M
  BY <1>2 DEF SplitFront
<1> HIDE DEF M
<1>4. /\ pktlist \in Seq(Packet) /\ k \in Nat /\ k >= 1
      /\ rmax \in Nat /\ rmax >= 1 /\ BufSize \in Nat /\ rpkt \in Packet
  <2>1. rmax \in FrameLimits /\ pktlist \in Seq(Packet) /\ rpkt \in Packet
    BY <1>1 DEF IInv, TypeOK
  <2> QED BY <2>1, <1>2, EmptySeq, PktQueueAssumption
<1>5. /\ pktlist[1].data = rpkt.data /\ pktlist[1].size = rpkt.size
      /\ pktlist[1].pkt = rpkt.pkt /\ pktlist[1].off = rpkt.off
      /\ rpkt.data \in Nat /\ rpkt.size \in Nat
  BY <1>1, <1>2, <1>4, PacketFields DEF IInv, FrontStable
<1>6. /\ M[1].data = rpkt.data /\ M[1].size = rmax
      /\ M[2].data = o /\ M[2].size = rpkt.size - rmax
      /\ Len(M) = k + 1 /\ M # <<>> /\ Head(M) = M[1]
  <2>1. /\ M[1].data = rpkt.data /\ M[1].size = o - rpkt.data
        /\ M[2].data = o /\ M[2].size = rpkt.size - (o - rpkt.data)
        /\ Len(M) = k + 1
    BY <1>2, <1>5 DEF IsCut
  <2>2. M # <<>> /\ Head(M) = M[1]
    BY <2>1, <1>2, <1>4, EmptySeq
  <2> QED BY <2>1, <2>2, <1>4, <1>5
<1>7. TypeOK'
  BY <1>1, <1>2, <1>3 DEF IInv, TypeOK
<1>8. RingLayout'
  <2>1. RingOK(M, head, tail, datasize)
    BY <1>2, SplitLayout DEF IInv, TypeOK, RingLayout
  <2> QED BY <2>1, <1>1, <1>3 DEF RingLayout
<1>9. ContentIntact'
  <2> SUFFICES ASSUME NEW i \in 1..k+1, NEW b \in 0..M[i].size-1
               PROVE  buf[M[i].data + b] = <<M[i].pkt, M[i].off + b>>
    BY <1>1, <1>3, <1>6 DEF ContentIntact
  <2>0. \A c \in 0..rpkt.size-1 :
          buf[rpkt.data + c] = <<rpkt.pkt, rpkt.off + c>>
    <3>1. 1 \in 1..k
      BY <1>4
    <3> QED BY <3>1, <1>5 DEF IInv, ContentIntact
  <2>1. CASE i = 1
    <3>1. rmax < rpkt.size
      BY <1>1, <1>4, <1>5 DEF TooLarge
    <3>2. b \in 0..rpkt.size-1
      BY <2>1, <3>1, <1>4, <1>5, <1>6
    <3> QED BY <2>0, <2>1, <3>2, <1>2, <1>6
  <2>2. CASE i = 2
    <3>1. b \in Nat /\ b < rpkt.size - rmax
      BY <2>2, <1>4, <1>5, <1>6
    <3>2. rmax + b \in 0..rpkt.size-1
      BY <3>1, <1>4, <1>5
    <3>3. rpkt.off \in Nat
      BY <1>4, PacketFields
    <3>4. /\ o + b = rpkt.data + (rmax + b)
          /\ (rpkt.off + rmax) + b = rpkt.off + (rmax + b)
      BY <3>1, <3>3, <1>4, <1>5
    <3> QED BY <2>0, <2>2, <3>2, <3>4, <1>2, <1>6
  <2>3. CASE i # 1 /\ i # 2
    <3>1. i \in 3..Len(M) /\ i - 1 \in 1..k
      BY <2>3, <1>4, <1>6
    <3>2. M[i] = pktlist[i-1]
      BY <3>1, <1>2 DEF IsCut
    <3> QED BY <3>1, <3>2 DEF IInv, ContentIntact
  <2> QED BY <2>1, <2>2, <2>3
<1>10. FrontStable'
  <2>1. FrameSize' = rmax
    BY <1>1 DEF FrameSize, TooLarge
  <2> QED BY <2>1, <1>1, <1>2, <1>3, <1>6 DEF FrontStable
<1>11. CopyIntact'
  BY <1>1 DEF CopyIntact
<1> QED BY <1>7, <1>8, <1>9, <1>10, <1>11 DEF IInv

\* Copying the frame without the lock of the queue keeps IInv: this is
\* where FrontStable is used.
LEMMA CopyFrameInv ==
  ASSUME IInv, CopyFrame
  PROVE  IInv'
<1> USE DEF IInv
<1>1. /\ rpc \in {"got", "cut"} /\ rpc' = "copied"
      /\ rpc = "got" => ~(CutsLarge /\ TooLarge)
      /\ rbuf' = [b \in 0..FrameSize-1 |-> buf[rpkt.data + b]]
      /\ UNCHANGED <<buf, head, tail, datasize, pktlist, offered, rpkt, rmax, delivered>>
  BY DEF CopyFrame, qvars
<1>2. FrameSize' = FrameSize
  BY <1>1 DEF FrameSize, TooLarge
<1>3. /\ pktlist # <<>> /\ Head(pktlist) = pktlist[1] /\ 1 \in 1..Len(pktlist)
      /\ pktlist[1] \in Packet
  <2>1. pktlist # <<>> /\ pktlist \in Seq(Packet)
    BY <1>1 DEF FrontStable, TypeOK
  <2> QED BY <2>1, EmptySeq, HeadTailProperties
<1>4. /\ pktlist[1].data = rpkt.data /\ pktlist[1].pkt = rpkt.pkt
      /\ pktlist[1].off = rpkt.off
      /\ pktlist[1].size = IF rpc # "got" /\ CutsLarge THEN FrameSize ELSE rpkt.size
  BY <1>1, <1>3 DEF FrontStable
<1>5. FrameSize \in Nat /\ FrameSize <= pktlist[1].size
  <2>1. rmax \in FrameLimits
    BY <1>1 DEF TypeOK
  <2>2. rmax \in Nat /\ rpkt.size \in Nat
    BY <2>1, PktQueueAssumption, PacketFields DEF TypeOK
  <2> QED BY <2>2, <1>4 DEF FrameSize, TooLarge
<1>6. TypeOK'
  BY <1>1 DEF TypeOK
<1>7. FrontStable'
  <2>1. (rpc # "got" /\ CutsLarge) \/ rpc = "got" \/ ~CutsLarge
    OBVIOUS
  <2>2. CASE CutsLarge /\ rpc = "got"
    <3>1. FrameSize = rpkt.size
      BY <2>2, <1>1 DEF FrameSize
    <3> QED BY <2>2, <3>1, <1>1, <1>2, <1>3, <1>4 DEF FrontStable
  <2>3. CASE ~(CutsLarge /\ rpc = "got")
    BY <2>3, <1>1, <1>2, <1>3, <1>4 DEF FrontStable
  <2> QED BY <2>2, <2>3
<1>8. CopyIntact'
  <2>1. \A b \in 0..FrameSize-1 : buf[rpkt.data + b] = <<rpkt.pkt, rpkt.off + b>>
    <3> TAKE b \in 0..FrameSize-1
    <3>1. pktlist[1].size \in Nat
      BY <1>3, PacketFields
    <3>2. b \in 0..pktlist[1].size-1
      BY <3>1, <1>5
    <3> QED BY <3>2, <1>3, <1>4 DEF ContentIntact
  <2>2. rbuf' = Bytes(rpkt.pkt, rpkt.off, FrameSize)
    BY <2>1, <1>1 DEF Bytes
  <2> QED BY <2>2, <1>1, <1>2 DEF CopyIntact
<1> QED BY <1>1, <1>6, <1>7, <1>8 DEF RingLayout, ContentIntact

\* Removing the packet that was delivered keeps IInv.
LEMMA FinishFrameInv ==
  ASSUME IInv, FinishFrame
  PROVE  IInv'
<1> USE DEF IInv
<1> DEFINE first == pktlist[1]
           M == Tail(pktlist)
           u == Wrapped(End(first))
           e == datasize - Span(first)
<1>1. /\ rpc = "copied" /\ rpc' = "idle" /\ rpkt' = NoPacket /\ rmax' = 0
      /\ UNCHANGED <<buf, offered>>
  BY DEF FinishFrame
<1>2. /\ pktlist \in Seq(Packet) /\ pktlist # <<>> /\ Head(pktlist) = first
      /\ Len(pktlist) \in Nat /\ Len(pktlist) >= 1
      /\ first \in Packet /\ head = first.data
  <2>1. pktlist # <<>> /\ pktlist \in Seq(Packet)
    BY <1>1 DEF FrontStable, TypeOK
  <2> QED BY <2>1, EmptySeq, HeadTailProperties DEF RingLayout, RingOK
<1>3. /\ M \in Seq(Packet) /\ Len(M) = Len(pktlist) - 1
      /\ \A i \in 1..Len(M) : M[i] = pktlist[i+1]
  BY <1>2, HeadTailProperties
<1>4. /\ Wrapped(head + first.size + first.padding) = u
      /\ datasize - first.size - first.padding = e
  <2>1. /\ first.data \in Nat /\ first.size \in Nat /\ first.padding \in Nat
        /\ End(first) = first.data + first.size + first.padding
        /\ Span(first) = first.size + first.padding
    BY <1>2, PacketFields
  <2> QED BY <2>1, <1>2, TypeFacts
<1>5. /\ pktlist' = M /\ datasize' = e
      /\ head' = (IF u = tail THEN 0 ELSE u)
      /\ tail' = (IF u = tail THEN 0 ELSE tail)
  BY <1>2, <1>4 DEF FinishFrame, PopFront
<1> HIDE DEF M, e, u
<1>6. /\ u \in Positions
      /\ e \in 0..BufSize
      /\ RingOK(M, IF u = tail THEN 0 ELSE u, IF u = tail THEN 0 ELSE tail, e)
  BY <1>2, PopLayout DEF TypeOK, RingLayout, M, e, u
<1>7. TypeOK'
  <2>1. NoPacket \in Packet
    BY PktQueueAssumption DEF NoPacket, Packet, Positions
  <2>2. head' \in Positions /\ tail' \in Positions
    <3>1. 0 \in Positions
      BY PktQueueAssumption DEF Positions
    <3> QED BY <3>1, <1>5, <1>6 DEF TypeOK
  <2> QED BY <2>1, <2>2, <1>1, <1>3, <1>5, <1>6 DEF TypeOK
<1>8. RingLayout'
  BY <1>5, <1>6 DEF RingLayout
<1>9. ContentIntact'
  <2> SUFFICES ASSUME NEW i \in 1..Len(M), NEW b \in 0..M[i].size-1
               PROVE  buf[M[i].data + b] = <<M[i].pkt, M[i].off + b>>
    BY <1>1, <1>5 DEF ContentIntact
  <2>1. i + 1 \in 1..Len(pktlist) /\ M[i] = pktlist[i+1]
    BY <1>2, <1>3
  <2> QED BY <2>1 DEF ContentIntact
<1> QED BY <1>1, <1>7, <1>8, <1>9 DEF FrontStable, CopyIntact

\* Emptying the queue while no frame is being delivered keeps IInv.
LEMMA ResetInv ==
  ASSUME IInv, Reset
  PROVE  IInv'
<1>1. /\ rpc = "idle" /\ pktlist' = <<>> /\ head' = 0 /\ tail' = 0 /\ datasize' = 0
      /\ UNCHANGED <<buf, offered, rpc, rpkt, rmax>>
  BY DEF Reset, rvars
<1>2. 0 \in Positions /\ 0 \in 0..BufSize /\ Len(<<>>) = 0 /\ <<>> \in Seq(Packet)
  BY PktQueueAssumption, EmptySeq DEF Positions
<1>3. TypeOK'
  BY <1>1, <1>2 DEF IInv, TypeOK
<1>4. RingLayout'
  <2>1. RingOK(<<>>, 0, 0, 0)
    BY <1>2 DEF RingOK
  <2> QED BY <2>1, <1>1 DEF RingLayout
<1>5. ContentIntact'
  BY <1>1, <1>2 DEF ContentIntact
<1> QED BY <1>1, <1>3, <1>4, <1>5 DEF IInv, FrontStable, CopyIntact

\* The queue that encoder_pktqueue_init leaves satisfies IInv.
LEMMA InitInv == Init => IInv
<1> SUFFICES ASSUME Init PROVE IInv
  OBVIOUS
<1>1. 0 \in Positions /\ 0 \in 0..BufSize /\ Len(<<>>) = 0 /\ <<>> \in Seq(Packet)
  BY PktQueueAssumption, EmptySeq DEF Positions
<1>2. TypeOK
  <2>1. NoPacket \in Packet
    BY PktQueueAssumption DEF NoPacket, Packet, Positions
  <2>2. buf \in [Positions -> Byte]
    BY DEF Init, Byte
  <2>3. 0 \in 0..MaxPackets
    BY PktQueueAssumption
  <2> QED BY <2>1, <2>2, <2>3, <1>1 DEF Init, TypeOK
<1>3. RingLayout
  <2>1. RingOK(<<>>, 0, 0, 0)
    BY <1>1 DEF RingOK
  <2> QED BY <2>1 DEF Init, RingLayout
<1> QED BY <1>1, <1>2, <1>3 DEF Init, IInv, ContentIntact, FrontStable, CopyIntact

\* Every step keeps IInv.
LEMMA NextInv == IInv /\ [Next]_vars => IInv'
<1> SUFFICES ASSUME IInv, [Next]_vars PROVE IInv'
  OBVIOUS
<1>1. ASSUME NEW n \in Sizes, AppendStored(n) PROVE IInv'
  BY <1>1, AppendStoredInv
<1>2. ASSUME NEW n \in Sizes, AppendDropped(n) PROVE IInv'
  BY <1>2, AppendDroppedInv
<1>3. ASSUME NEW m \in FrameLimits, ReadFront(m) PROVE IInv'
  BY <1>3, ReadFrontInv
<1>4. CASE SplitFront
  BY <1>4, SplitFrontInv
<1>5. CASE CopyFrame
  BY <1>5, CopyFrameInv
<1>6. CASE FinishFrame
  BY <1>6, FinishFrameInv
<1>7. CASE Reset
  BY <1>7, ResetInv
<1>8. CASE UNCHANGED vars
  BY <1>8 DEF vars, IInv, TypeOK, RingLayout, ContentIntact, FrontStable,
              CopyIntact, FrameSize, TooLarge
<1> QED BY <1>1, <1>2, <1>3, <1>4, <1>5, <1>6, <1>7, <1>8 DEF Next

\* The invariant holds in every state of the packet queue.
THEOREM Invariance == Spec => []IInv
BY InitInv, NextInv, PTL DEF Spec

\* encoder_pktqueue_append never writes over a packet that still waits, and the
\* positions it computes never leave the ring: for every ring and packet size,
\* the buffer holds exactly the bytes of the queued packets.
THEOREM ContentSafe == Spec => [](TypeOK /\ ContentIntact)
<1>1. IInv => TypeOK /\ ContentIntact
  BY DEF IInv
<1> QED BY <1>1, Invariance, PTL

\* The frame that deliverFrame copies without the queue's lock is the one it
\* read, bytes and timestamp, whatever the encoder appended meanwhile.
THEOREM CopySafe == Spec => [](FrontStable /\ CopyIntact)
<1>1. IInv => FrontStable /\ CopyIntact
  BY DEF IInv
<1> QED BY <1>1, Invariance, PTL
-----------------------------------------------------------------------------
(***************************************************************************)
(* The space of the ring.  Read from head, the packets of RingOK lie end   *)
(* to end, so that counting their bytes from head is a bijection to        *)
(* 1..datasize: the accounting follows from the layout.                    *)
(***************************************************************************)
\* A set of natural numbers has a least one.
LEMMA LeastNumber ==
  ASSUME NEW S, S \subseteq Nat, S # {}
  PROVE  \E m \in S : \A n \in S : m <= n
<1> DEFINE R == {mn \in Nat \X Nat : mn[1] < mn[2]}
<1>1. PICK m \in S : \A n \in S : <<n, m>> \notin R
  <2>1. IsWellFoundedOn(R, Nat)
    BY NatLessThanWellFounded DEF OpToRel
  <2> HIDE DEF R
  <2> QED BY <2>1, WFMin
<1>2. \A n \in S : m <= n
  <2> TAKE n \in S
  <2>1. n \in Nat /\ m \in Nat /\ ~(n < m)
    BY <1>1
  <2> QED BY <2>1
<1> QED BY <1>2

\* What starts where a packet ends starts, measured from the head, where that
\* packet ends; only in a ring that is full does it end at the head.
LEMMA NextOffset ==
  ASSUME NEW h \in Positions, NEW x \in Positions, NEW n \in Nat \ {0},
         x + n <= BufSize, Offset(h, x) + n <= BufSize
  PROVE  \/ Offset(h, Wrapped(x + n)) = Offset(h, x) + n
         \/ Wrapped(x + n) = h /\ Offset(h, x) + n = BufSize
<1>1. h \in Nat /\ x \in Nat /\ BufSize \in Nat /\ h < BufSize /\ x < BufSize
  BY PktQueueAssumption DEF Positions
<1>2. CASE x >= h
  <2>1. Offset(h, x) = x - h
    BY <1>2 DEF Offset
  <2>2. CASE x + n = BufSize
    BY <1>1, <1>2, <2>1, <2>2 DEF Wrapped, Offset
  <2>3. CASE x + n # BufSize
    BY <1>1, <1>2, <2>1, <2>3 DEF Wrapped, Offset
  <2> QED BY <2>2, <2>3
<1>3. CASE x < h
  <2>1. Offset(h, x) = x - h + BufSize
    BY <1>1, <1>3 DEF Offset
  <2>2. x + n <= h /\ x + n # BufSize
    BY <1>1, <2>1
  <2>3. Wrapped(x + n) = x + n
    BY <2>2 DEF Wrapped
  <2>4. CASE x + n = h
    BY <1>1, <2>1, <2>3, <2>4
  <2>5. CASE x + n < h
    BY <1>1, <2>1, <2>3, <2>5 DEF Offset
  <2> QED BY <1>1, <2>2, <2>4, <2>5
<1> QED BY <1>1, <1>2, <1>3

\* Read from the head, the packets of a ring lie end to end, from 0 to datasize.
LEMMA EndToEnd ==
  ASSUME NEW L \in Seq(Packet), NEW h \in Positions, NEW t \in Positions,
         NEW d \in 0..BufSize, RingOK(L, h, t, d), L # <<>>
  PROVE  /\ \A i \in 1..Len(L) : /\ Offset(h, L[i].data) \in Nat
                                 /\ Span(L[i]) \in Nat \ {0}
                                 /\ Offset(h, L[i].data) + Span(L[i]) <= d
         /\ Offset(h, L[1].data) = 0
         /\ \A i \in 1..Len(L)-1 :
              Offset(h, L[i+1].data) = Offset(h, L[i].data) + Span(L[i])
         /\ d = Offset(h, L[Len(L)].data) + Span(L[Len(L)])
<1> DEFINE k == Len(L)
<1>1. /\ k \in Nat \ {0} /\ BufSize \in Nat
      /\ h \in Nat /\ t \in Nat /\ d \in Nat /\ d <= BufSize
      /\ h < BufSize /\ t < BufSize
  BY PktQueueAssumption, EmptySeq DEF Positions
<1>2. \A i \in 1..k : /\ L[i].data \in Positions
                      /\ L[i].data \in Nat /\ L[i].data < BufSize
                      /\ Span(L[i]) \in Nat \ {0}
                      /\ End(L[i]) = L[i].data + Span(L[i])
                      /\ End(L[i]) <= BufSize
                      /\ Offset(h, L[i].data) \in Nat
                      /\ Offset(h, L[i].data) + Span(L[i]) <= d
  <2> TAKE i \in 1..k
  <2>1. L[i] \in Packet
    BY ElementOfSeq
  <2>2. /\ L[i].data \in Nat /\ L[i].data < BufSize
        /\ Span(L[i]) \in Nat \ {0}
        /\ End(L[i]) = L[i].data + Span(L[i])
    BY <2>1, PacketFields DEF End
  <2>3. End(L[i]) <= BufSize /\ Offset(h, L[i].data) + Span(L[i]) <= d
    BY DEF RingOK
  <2>4. Offset(h, L[i].data) \in Nat
    BY <2>2, <1>1 DEF Offset
  <2>5. L[i].data \in Positions
    BY <2>2, <1>1 DEF Positions
  <2> QED BY <2>2, <2>3, <2>4, <2>5
<1>3. Offset(h, L[1].data) = 0
  <2>1. h = L[1].data
    BY DEF RingOK
  <2> QED BY <2>1, <1>1 DEF Offset
<1>4. \A i \in 1..k-1 : Offset(h, L[i+1].data) = Offset(h, L[i].data) + Span(L[i])
  <2> TAKE i \in 1..k-1
  <2>1. i \in 1..k /\ i+1 \in 1..k /\ i < i+1
    BY <1>1
  <2>2. /\ L[i+1].data = Wrapped(L[i].data + Span(L[i]))
        /\ Offset(h, L[i].data) + Span(L[i]) <= Offset(h, L[i+1].data)
    BY <2>1, <1>2 DEF RingOK
  <2>3. Offset(h, L[i].data) + Span(L[i]) <= BufSize
    BY <2>1, <1>1, <1>2
  <2>4. \/ Offset(h, L[i+1].data) = Offset(h, L[i].data) + Span(L[i])
        \/ L[i+1].data = h /\ Offset(h, L[i].data) + Span(L[i]) = BufSize
    BY <2>1, <2>2, <2>3, <1>2, NextOffset
  <2>5. L[i+1].data = h => Offset(h, L[i+1].data) = 0
    BY <1>1 DEF Offset
  <2> QED BY <2>1, <2>2, <2>4, <2>5, <1>1, <1>2
<1>5. d = Offset(h, L[k].data) + Span(L[k])
  <2> DEFINE x == L[k].data
             n == Span(L[k])
  <2>0. /\ x \in Positions /\ n \in Nat \ {0}
        /\ End(L[k]) = x + n /\ x + n <= BufSize
        /\ Offset(h, x) \in Nat /\ Offset(h, x) + n <= d
    BY <1>1, <1>2
  <2>1. /\ t = Wrapped(x + n)
        /\ d = IF t > h THEN t - h ELSE t - h + BufSize
    BY <2>0 DEF RingOK
  <2> HIDE DEF x, n
  <2>2. Offset(h, x) + n <= BufSize
    BY <2>0, <1>1
  <2>3. \/ Offset(h, t) = Offset(h, x) + n
        \/ t = h /\ Offset(h, x) + n = BufSize
    BY <2>0, <2>1, <2>2, NextOffset
  <2>4. ASSUME t = h PROVE d = Offset(h, x) + n
    <3>1. d = BufSize /\ Offset(h, t) = 0
      BY <2>1, <2>4, <1>1 DEF Offset
    <3>2. Offset(h, x) + n # 0
      BY <2>0
    <3> QED BY <2>3, <3>1, <3>2
  <2>5. ASSUME t # h PROVE d = Offset(h, x) + n
    <3>1. d = Offset(h, t)
      BY <2>1, <2>5, <1>1 DEF Offset
    <3> QED BY <2>3, <2>5, <3>1
  <2>6. d = Offset(h, x) + n
    BY <2>4, <2>5
  <2> QED BY <2>6 DEF x, n
<1> QED BY <1>2, <1>3, <1>4, <1>5

\* The layout of the ring accounts for its space: the bytes the packets hold,
\* counted from the head, are the numbers from 1 to datasize.
LEMMA SpaceOfLayout ==
  ASSUME NEW L \in Seq(Packet), NEW h \in Positions, NEW t \in Positions,
         NEW d \in 0..BufSize, RingOK(L, h, t, d)
  PROVE  d = Cardinality(Held(L))
<1> DEFINE at(i) == Offset(h, L[i].data)
           k == Len(L)
           S == Held(L)
<1>0. d \in Nat /\ k \in Nat
  BY PktQueueAssumption, LenProperties
<1>1. CASE L = <<>>
  <2>1. Held(L) = {}
    BY <1>1, EmptySeq DEF Held
  <2> QED BY <1>1, <2>1, FS_EmptySet DEF RingOK
<1>2. CASE L # <<>>
  <2>1. /\ \A i \in 1..k : /\ at(i) \in Nat
                           /\ Span(L[i]) \in Nat \ {0}
                           /\ at(i) + Span(L[i]) <= d
        /\ at(1) = 0
        /\ \A i \in 1..k-1 : at(i+1) = at(i) + Span(L[i])
        /\ d = at(k) + Span(L[k])
    BY <1>2, EndToEnd
  <2>2. \A i, j \in 1..k : i < j => at(i) + Span(L[i]) <= at(j)
    BY DEF RingOK
  <2>3. k >= 1
    BY <1>2, <1>0, EmptySeq
  <2> HIDE DEF at, k
  <2>4. \A s : s \in S <=> /\ s = <<s[1], s[2]>>
                           /\ s[1] \in 1..k /\ s[2] \in 1..Span(L[s[1]])
    BY DEF Held, k
  <2> HIDE DEF S
  <2> DEFINE f == [s \in S |-> at(s[1]) + s[2]]
  <2>5. f \in [S -> 1..d]
    <3> SUFFICES ASSUME NEW s \in S PROVE at(s[1]) + s[2] \in 1..d
      OBVIOUS
    <3>1. s[1] \in 1..k /\ s[2] \in 1..Span(L[s[1]])
      BY <2>4
    <3>2. at(s[1]) \in Nat /\ Span(L[s[1]]) \in Nat /\ at(s[1]) + Span(L[s[1]]) <= d
      BY <3>1, <2>1
    <3> QED BY <3>1, <3>2, <1>0
  <2>6. ASSUME NEW a \in S, NEW b \in S, f[a] = f[b]
        PROVE  a = b
    <3>1. /\ a = <<a[1], a[2]>> /\ a[1] \in 1..k /\ a[2] \in 1..Span(L[a[1]])
          /\ b = <<b[1], b[2]>> /\ b[1] \in 1..k /\ b[2] \in 1..Span(L[b[1]])
      BY <2>4
    <3>2. at(a[1]) + a[2] = at(b[1]) + b[2]
      BY <2>6
    <3>3. /\ at(a[1]) \in Nat /\ Span(L[a[1]]) \in Nat
          /\ at(b[1]) \in Nat /\ Span(L[b[1]]) \in Nat
      BY <3>1, <2>1
    <3>4. ~(a[1] < b[1])
      <4>1. a[1] < b[1] => at(a[1]) + Span(L[a[1]]) <= at(b[1])
        BY <3>1, <2>2
      <4> QED BY <4>1, <3>1, <3>2, <3>3
    <3>5. ~(b[1] < a[1])
      <4>1. b[1] < a[1] => at(b[1]) + Span(L[b[1]]) <= at(a[1])
        BY <3>1, <2>2
      <4> QED BY <4>1, <3>1, <3>2, <3>3
    <3>6. a[1] = b[1]
      BY <3>1, <3>4, <3>5, <1>0 DEF k
    <3>7. a[2] = b[2]
      BY <3>1, <3>2, <3>3, <3>6
    <3> QED BY <3>1, <3>6, <3>7
  <2>7. ASSUME NEW x \in 1..d
        PROVE  \E s \in S : f[s] = x
    <3> DEFINE Z == {i \in 1..k : x <= at(i) + Span(L[i])}
    <3>1. PICK i \in Z : \A j \in Z : i <= j
      <4>1. k \in Z
        BY <2>1, <2>3, <1>0 DEF k
      <4>2. Z \subseteq Nat
        OBVIOUS
      <4> HIDE DEF Z
      <4> QED BY <4>1, <4>2, LeastNumber
    <3>2. i \in 1..k /\ at(i) \in Nat /\ Span(L[i]) \in Nat /\ x <= at(i) + Span(L[i])
      BY <2>1
    <3>3. at(i) < x
      <4>1. CASE i = 1
        BY <4>1, <2>1
      <4>2. CASE i # 1
        <5>1. i - 1 \in 1..k-1 /\ i - 1 \in 1..k /\ i - 1 + 1 = i /\ ~(i <= i - 1)
          BY <3>2, <4>2, <1>0 DEF k
        <5>2. ~(x <= at(i-1) + Span(L[i-1]))
          BY <5>1, <3>1
        <5>3. at(i) = at(i-1) + Span(L[i-1])
          BY <5>1, <2>1
        <5> QED BY <5>2, <5>3, <3>2
      <4> QED BY <4>1, <4>2
    <3>4. x - at(i) \in 1..Span(L[i])
      BY <3>2, <3>3
    <3>5. <<i, x - at(i)>> \in S
      BY <3>2, <3>4, <2>4
    <3>6. f[<<i, x - at(i)>>] = x
      BY <3>2, <3>5
    <3> QED BY <3>5, <3>6
  <2>8. ExistsBijection(S, 1..d)
    <3> HIDE DEF f
    <3>1. f \in Bijection(S, 1..d)
      BY <2>5, <2>6, <2>7 DEF Bijection, Injection, Surjection, IsInjective
    <3> QED BY <3>1 DEF ExistsBijection
  <2>9. IsFiniteSet(1..d) /\ Cardinality(1..d) = d
    BY <1>0, FS_Interval
  <2>10. Cardinality(S) = Cardinality(1..d)
    BY <2>8, <2>9, Fun_ExistsBijSymmetric, FS_Bijection
  <2> QED BY <2>9, <2>10 DEF S
<1> QED BY <1>1, <1>2

\* datasize, by which encoder_pktqueue_append drops packets, is at all times the
\* bytes and the padding of the packets in the list: a wrap, a drop after it, a
\* split and a pop neither leak a byte of the ring nor give one back twice.
THEOREM SpaceKept == Spec => []SpaceAccounted
<1>1. IInv => SpaceAccounted
  BY SpaceOfLayout DEF IInv, TypeOK, RingLayout, SpaceAccounted
<1> QED BY <1>1, Invariance, PTL
-----------------------------------------------------------------------------
(***************************************************************************)
(* The ring and its live555 consumer implement the first-in first-out      *)
(* queue of module PktFifo: each step of PktQueue is, read through         *)
(* Entries(pktlist), a step of PktFifo or leaves its variables alone.      *)
(***************************************************************************)
Entry == [pkt : Nat, off : Nat, size : Nat]

\* What the refinement mapping makes of a list of packets.
LEMMA EntriesSeq ==
  ASSUME NEW L \in Seq(Packet)
  PROVE  /\ Entries(L) \in Seq(Entry)
         /\ Len(Entries(L)) = Len(L)
         /\ \A i \in 1..Len(L) : Entries(L)[i] =
              [pkt |-> L[i].pkt, off |-> L[i].off, size |-> L[i].size]
         /\ Entries(L) = <<>> <=> L = <<>>
<1>1. Len(L) \in Nat
  BY LenProperties
<1>2. \A i \in 1..Len(L) :
        [pkt |-> L[i].pkt, off |-> L[i].off, size |-> L[i].size] \in Entry
  <2> TAKE i \in 1..Len(L)
  <2>1. L[i] \in Packet
    BY ElementOfSeq
  <2> QED BY <2>1, PacketFields DEF Entry
<1>3. Entries(L) \in [1..Len(L) -> Entry]
  BY <1>2 DEF Entries
<1>4. Entries(L) \in Seq(Entry) /\ Len(Entries(L)) = Len(L)
  BY <1>1, <1>3
<1>5. Entries(L) = <<>> <=> L = <<>>
  BY <1>1, <1>4, EmptySeq
<1> QED BY <1>4, <1>5 DEF Entries

\* Lists that agree on the bytes they hold are the same queue.
LEMMA SameEntries ==
  ASSUME NEW L \in Seq(Packet), NEW M \in Seq(Packet), SameBytes(L, M)
  PROVE  Entries(M) = Entries(L)
BY DEF SameBytes, Entries

\* A packet that append stores is one the abstract queue accepts.
LEMMA AppendStoredRefines ==
  ASSUME IInv, NEW n \in Sizes, AppendStored(n)
  PROVE  Fifo!Accept(n)
<1> DEFINE M == PaddedList(n)
           p == [data |-> Start(n), size |-> n, padding |-> 0,
                 pkt |-> offered + 1, off |-> 0]
           c == [pkt |-> offered + 1, off |-> 0, size |-> n]
           k == Len(pktlist)
<1>1. /\ pktlist \in Seq(Packet) /\ M \in Seq(Packet) /\ SameBytes(pktlist, M)
      /\ pktlist' \in Seq(Packet) /\ k \in Nat /\ Len(M) = k
  BY RoomLayout, AppendStoredInv, TypeFacts DEF IInv, TypeOK, SameBytes
<1>2. /\ pktlist' = Append(M, p) /\ offered < MaxPackets
      /\ offered' = offered + 1 /\ delivered' = delivered
  BY DEF AppendStored, rvars
<1> HIDE DEF M
<1>3. c \in Entry
  BY PktQueueAssumption DEF Entry, IInv, TypeOK
<1>4. /\ Entries(M) \in Seq(Entry) /\ Len(Entries(M)) = k
      /\ Entries(M) = Entries(pktlist)
  BY <1>1, EntriesSeq, SameEntries
<1>5. /\ Entries(pktlist') \in Seq(Entry) /\ Len(Entries(pktlist')) = k + 1
      /\ \A i \in 1..k+1 : Entries(pktlist')[i] =
           [pkt |-> pktlist'[i].pkt, off |-> pktlist'[i].off,
            size |-> pktlist'[i].size]
  <2>1. Len(pktlist') = k + 1
    BY <1>1, <1>2
  <2> QED BY <2>1, <1>1, EntriesSeq
<1>6. /\ Append(Entries(M), c) \in Seq(Entry)
      /\ Len(Append(Entries(M), c)) = k + 1
      /\ \A i \in 1..k+1 : Append(Entries(M), c)[i] =
           IF i <= k THEN Entries(M)[i] ELSE c
  BY <1>1, <1>3, <1>4
<1>7. \A i \in 1..k+1 : Entries(pktlist')[i] = Append(Entries(M), c)[i]
  <2> TAKE i \in 1..k+1
  <2>1. CASE i \in 1..k
    <3>1. pktlist'[i] = M[i]
      BY <2>1, <1>1, <1>2
    <3>2. Entries(M)[i] = [pkt |-> M[i].pkt, off |-> M[i].off, size |-> M[i].size]
      BY <2>1, <1>1, EntriesSeq
    <3> QED BY <2>1, <3>1, <3>2, <1>5, <1>6
  <2>2. CASE i = k + 1
    <3>1. pktlist'[i] = p
      BY <2>2, <1>1, <1>2
    <3> QED BY <2>2, <3>1, <1>1, <1>5, <1>6
  <2>3. i \in 1..k \/ i = k + 1
    <3>1. k \in Nat /\ i \in 1..k+1
      BY <1>1
    <3> HIDE DEF k
    <3> QED BY <3>1
  <2> QED BY <2>1, <2>2, <2>3
<1>8. Entries(pktlist') = Append(Entries(pktlist), c)
  <2> HIDE DEF c
  <2> QED BY <1>4, <1>5, <1>6, <1>7, SeqEqual
<1> QED BY <1>2, <1>8 DEF Fifo!Accept

\* A packet that append refuses is one the abstract queue may drop.
LEMMA AppendDroppedRefines ==
  ASSUME IInv, NEW n \in Sizes, AppendDropped(n)
  PROVE  Fifo!Drop(n)
<1>1. /\ pktlist' = PaddedList(n) /\ offered < MaxPackets
      /\ offered' = offered + 1 /\ delivered' = delivered /\ ~Stores(n)
  BY DEF AppendDropped, rvars
<1>2. /\ pktlist \in Seq(Packet) /\ PaddedList(n) \in Seq(Packet)
      /\ SameBytes(pktlist, PaddedList(n)) /\ ~Clears(n)
  BY RoomLayout DEF IInv, TypeOK
<1>3. Entries(pktlist') = Entries(pktlist)
  BY <1>1, <1>2, SameEntries
<1>4. pktlist # <<>> \/ n > BufSize
  <2> SUFFICES ASSUME pktlist = <<>> PROVE n > BufSize
    OBVIOUS
  <2>1. datasize = 0
    BY DEF IInv, RingLayout, RingOK
  <2>2. Used(n) = datasize
    BY <1>2 DEF Used, Pads
  <2>3. n \in Nat /\ BufSize \in Nat
    BY PktQueueAssumption
  <2> QED BY <2>1, <2>2, <2>3, <1>1 DEF Stores, Fits
<1>5. Entries(pktlist) # <<>> \/ n > BufSize
  BY <1>2, <1>4, EntriesSeq
<1> QED BY <1>1, <1>3, <1>5 DEF Fifo!Drop

\* Cutting the first packet in two changes no byte of the abstract queue: it
\* only moves where the packet ends.
LEMMA SplitFrontRefines ==
  ASSUME IInv, SplitFront
  PROVE  \E n \in FrameLimits : Fifo!Split(n)
<1> DEFINE o == rpkt.data + rmax
           M == Split(o)
           Q == Entries(pktlist)
           first == Head(Q)
           front == [first EXCEPT !.size = rmax]
           rest == [first EXCEPT !.off = @ + rmax, !.size = @ - rmax]
           k == Len(pktlist)
<1>1. /\ rpc = "got" /\ CutsLarge /\ TooLarge
      /\ offered' = offered /\ delivered' = delivered
      /\ rmax \in FrameLimits /\ rmax \in Nat
  BY PktQueueAssumption DEF SplitFront, IInv, TypeOK
<1>2. /\ SplitsAt(o) /\ pktlist \in Seq(Packet)
      /\ pktlist # <<>> /\ pktlist[1] = Head(pktlist)
      /\ M \in Seq(Packet)
      /\ IsCut(pktlist, M, o)
      /\ M[1].pkt = rpkt.pkt /\ M[1].off = rpkt.off
      /\ M[2].pkt = rpkt.pkt /\ M[2].off = rpkt.off + rmax
  BY <1>1, SplitIsCut DEF IInv, TypeOK
<1>3. pktlist' = M
  BY <1>2 DEF SplitFront
<1>4. /\ k \in Nat /\ k >= 1 /\ 1 \in 1..k
      /\ pktlist[1].data = rpkt.data /\ pktlist[1].size = rpkt.size
      /\ pktlist[1].pkt = rpkt.pkt /\ pktlist[1].off = rpkt.off
      /\ rpkt.data \in Nat /\ rpkt.size \in Nat /\ rpkt.off \in Nat
      /\ rmax < rpkt.size
  <2>1. rpkt \in Packet
    BY DEF IInv, TypeOK
  <2>2. k \in Nat /\ k >= 1 /\ 1 \in 1..k
    BY <1>2, EmptySeq
  <2>3. rmax < rpkt.size
    BY <1>1, <2>1, PacketFields DEF TooLarge
  <2> QED BY <2>1, <2>2, <2>3, <1>1, <1>2, PacketFields DEF IInv, FrontStable
<1>5. /\ Q \in Seq(Entry) /\ Len(Q) = k /\ Q # <<>>
      /\ first = [pkt |-> rpkt.pkt, off |-> rpkt.off, size |-> rpkt.size]
      /\ first \in Entry
      /\ \A i \in 1..k : Q[i] =
           [pkt |-> pktlist[i].pkt, off |-> pktlist[i].off,
            size |-> pktlist[i].size]
  <2>1. /\ Q \in Seq(Entry) /\ Len(Q) = k /\ Q # <<>>
        /\ \A i \in 1..k : Q[i] =
             [pkt |-> pktlist[i].pkt, off |-> pktlist[i].off,
              size |-> pktlist[i].size]
    BY <1>2, EntriesSeq
  <2>2. first = Q[1] /\ first \in Entry
    BY <2>1, HeadTailProperties
  <2> QED BY <2>1, <2>2, <1>4
<1>6. /\ front = [pkt |-> rpkt.pkt, off |-> rpkt.off, size |-> rmax]
      /\ rest = [pkt |-> rpkt.pkt, off |-> rpkt.off + rmax,
                 size |-> rpkt.size - rmax]
      /\ front \in Entry /\ rest \in Entry
  <2>1. rpkt.size - rmax \in Nat /\ rpkt.off + rmax \in Nat
    BY <1>1, <1>4
  <2>2. rmax \in Nat /\ rpkt.pkt \in Nat /\ rpkt.off \in Nat
    BY <1>1, <1>4, PacketFields DEF IInv, TypeOK
  <2> DEFINE whole == [pkt |-> rpkt.pkt, off |-> rpkt.off, size |-> rpkt.size]
  <2>3. first = whole
    BY <1>5
  <2>4. /\ front = [pkt |-> rpkt.pkt, off |-> rpkt.off, size |-> rmax]
        /\ rest = [pkt |-> rpkt.pkt, off |-> rpkt.off + rmax,
                   size |-> rpkt.size - rmax]
    <3>1. /\ front = [whole EXCEPT !.size = rmax]
          /\ rest = [whole EXCEPT !.off = @ + rmax, !.size = @ - rmax]
      <4> HIDE DEF first, whole
      <4> QED BY <2>3
    <3> HIDE DEF front, rest
    <3> QED BY <3>1
  <2> HIDE DEF front, rest
  <2> QED BY <2>1, <2>2, <2>4 DEF Entry
<1> HIDE DEF M, front, rest, Q
<1>7. /\ M[1].size = rmax /\ M[2].size = rpkt.size - rmax /\ Len(M) = k + 1
      /\ \A i \in 3..k+1 : M[i] = pktlist[i-1]
  <2>1. /\ M[1].size = o - rpkt.data /\ M[2].size = rpkt.size - (o - rpkt.data)
        /\ Len(M) = k + 1
        /\ \A i \in 3..Len(M) : M[i] = pktlist[i-1]
    BY <1>2, <1>4 DEF IsCut
  <2> QED BY <2>1, <1>1, <1>4
<1>8. /\ Entries(M) \in Seq(Entry) /\ Len(Entries(M)) = k + 1
      /\ \A i \in 1..k+1 : Entries(M)[i] =
           [pkt |-> M[i].pkt, off |-> M[i].off, size |-> M[i].size]
  BY <1>2, <1>7, EntriesSeq
<1> DEFINE two == <<front, rest>>
           rear == Tail(Q)
           N == two \o rear
<1>9. /\ N \in Seq(Entry) /\ Len(N) = k + 1
      /\ N[1] = front /\ N[2] = rest
      /\ \A i \in 3..k+1 : N[i] = Q[i-1]
  <2>1. /\ rear \in Seq(Entry) /\ Len(rear) = k - 1
        /\ \A i \in 1..k-1 : rear[i] = Q[i+1]
    BY <1>5, HeadTailProperties
  <2>2. two \in Seq(Entry) /\ Len(two) = 2 /\ two[1] = front /\ two[2] = rest
    BY <1>6
  <2> HIDE DEF two, rear
  <2>3. /\ N \in Seq(Entry) /\ Len(N) = 2 + (k - 1)
        /\ \A i \in 1..2+(k-1) :
             N[i] = IF i <= 2 THEN two[i] ELSE rear[i-2]
    <3>1. /\ N \in Seq(Entry) /\ Len(N) = Len(two) + Len(rear)
          /\ \A i \in 1..Len(two)+Len(rear) :
               N[i] = IF i <= Len(two) THEN two[i] ELSE rear[i-Len(two)]
      BY <2>1, <2>2, ConcatProperties
    <3> HIDE DEF N
    <3> QED BY <3>1, <2>1, <2>2
  <2>4. Len(N) = k + 1 /\ N[1] = front /\ N[2] = rest
    BY <2>2, <2>3, <1>4
  <2>5. ASSUME NEW i \in 3..k+1
        PROVE  N[i] = Q[i-1]
    <3>1. i - 2 \in 1..k-1 /\ (i - 2) + 1 = i - 1
      BY <1>4
    <3>2. N[i] = rear[i-2]
      BY <2>3, <1>4
    <3> QED BY <3>1, <3>2, <2>1
  <2> QED BY <2>3, <2>4, <2>5
<1> HIDE DEF N
<1>10. \A i \in 1..k+1 : Entries(M)[i] = N[i]
  <2> TAKE i \in 1..k+1
  <2>1. CASE i = 1
    BY <2>1, <1>2, <1>6, <1>7, <1>8, <1>9
  <2>2. CASE i = 2
    BY <2>2, <1>2, <1>6, <1>7, <1>8, <1>9
  <2>3. CASE i # 1 /\ i # 2
    <3>1. i \in 3..k+1 /\ i - 1 \in 1..k
      BY <2>3, <1>4
    <3>2. M[i] = pktlist[i-1] /\ N[i] = Q[i-1]
      BY <3>1, <1>7, <1>9
    <3> QED BY <3>1, <3>2, <1>5, <1>8
  <2> QED BY <2>1, <2>2, <2>3
<1>11. Entries(M) = N
  BY <1>8, <1>9, <1>10, SeqEqual
<1>12. rmax < first.size
  BY <1>4, <1>5
<1>13. Fifo!Split(rmax)
  BY <1>1, <1>3, <1>5, <1>11, <1>12 DEF Fifo!Split, N, Q, front, rest
<1> QED BY <1>1, <1>13

\* Removing a delivered packet takes one entry from the abstract queue.
LEMMA FinishFrameRefines ==
  ASSUME IInv, FinishFrame
  PROVE  \E m \in 1..BufSize : Fifo!Take(m)
<1> DEFINE Q == Entries(pktlist)
           k == Len(pktlist)
<1>1. /\ rpc = "copied" /\ offered' = offered
      /\ delivered' = [pkt |-> rpkt.pkt, bytes |-> rbuf]
      /\ pktlist # <<>> /\ pktlist' = Tail(pktlist)
  BY DEF FinishFrame, PopFront, IInv, FrontStable
<1>2. /\ pktlist \in Seq(Packet) /\ k \in Nat /\ k >= 1 /\ 1 \in 1..k
      /\ Head(pktlist) = pktlist[1] /\ pktlist[1] \in Packet
  BY <1>1, EmptySeq, HeadTailProperties DEF IInv, TypeOK
<1>3. /\ pktlist[1].pkt = rpkt.pkt /\ pktlist[1].off = rpkt.off
      /\ pktlist[1].size = IF rpc # "got" /\ CutsLarge THEN FrameSize ELSE rpkt.size
      /\ rbuf = Bytes(rpkt.pkt, rpkt.off, FrameSize)
  BY <1>1, <1>2 DEF IInv, FrontStable, CopyIntact
<1>4. /\ FrameSize \in 1..BufSize /\ FrameSize <= pktlist[1].size
  <2>1. /\ rmax \in FrameLimits /\ rmax \in Nat /\ rmax >= 1 /\ BufSize \in Nat
        /\ rpkt \in Packet
    BY <1>1, PktQueueAssumption DEF IInv, TypeOK
  <2>2. rpkt.size \in Nat /\ rpkt.size >= 1 /\ rpkt.size <= BufSize
    <3>1. rpkt.size \in 1..BufSize
      BY <2>1 DEF Packet
    <3> QED BY <3>1, <2>1
  <2> QED BY <2>1, <2>2, <1>3 DEF FrameSize, TooLarge
<1>5. /\ Q \in Seq(Entry) /\ Len(Q) = k /\ Q # <<>>
      /\ \A i \in 1..k : Q[i] =
           [pkt |-> pktlist[i].pkt, off |-> pktlist[i].off,
            size |-> pktlist[i].size]
  BY <1>1, <1>2, EntriesSeq
<1>6. Head(Q) = [pkt |-> rpkt.pkt, off |-> rpkt.off, size |-> pktlist[1].size]
  <2>1. Head(Q) = Q[1]
    BY <1>5
  <2> QED BY <2>1, <1>2, <1>3, <1>5
<1>7. Entries(pktlist') = Tail(Q)
  <2>1. /\ Tail(pktlist) \in Seq(Packet) /\ Len(Tail(pktlist)) = k - 1
        /\ \A i \in 1..k-1 : Tail(pktlist)[i] = pktlist[i+1]
    BY <1>1, <1>2, HeadTailProperties
  <2>2. /\ Tail(Q) \in Seq(Entry) /\ Len(Tail(Q)) = k - 1
        /\ \A i \in 1..k-1 : Tail(Q)[i] = Q[i+1]
    BY <1>5, HeadTailProperties
  <2> DEFINE M == Tail(pktlist)
             N == Tail(Q)
  <2>3. /\ Entries(M) \in Seq(Entry) /\ Len(Entries(M)) = k - 1
        /\ \A i \in 1..k-1 : Entries(M)[i] =
             [pkt |-> M[i].pkt, off |-> M[i].off, size |-> M[i].size]
    <3> HIDE DEF M
    <3> QED BY <2>1, EntriesSeq DEF M
  <2> HIDE DEF M, N, Q
  <2>4. \A i \in 1..k-1 : Entries(M)[i] = N[i]
    <3> TAKE i \in 1..k-1
    <3>1. i + 1 \in 1..k
      BY <1>2
    <3>2. M[i] = pktlist[i+1] /\ N[i] = Q[i+1]
      BY <2>1, <2>2 DEF M, N
    <3> QED BY <3>1, <3>2, <2>3, <1>5
  <2>5. Entries(M) = N
    <3>1. N \in Seq(Entry) /\ Len(N) = k - 1
      BY <2>2 DEF N
    <3> QED BY <3>1, <2>3, <2>4, SeqEqual
  <2> QED BY <2>5, <1>1 DEF M, N
<1>8. delivered' = [pkt   |-> Head(Q).pkt,
                    bytes |-> Fifo!Bytes(Head(Q).pkt, Head(Q).off, FrameSize)]
  <2> HIDE DEF Q
  <2>1. Head(Q).pkt = rpkt.pkt /\ Head(Q).off = rpkt.off
    BY <1>6
  <2>2. rbuf = Fifo!Bytes(rpkt.pkt, rpkt.off, FrameSize)
    BY <1>3 DEF Bytes, Fifo!Bytes
  <2> QED BY <2>1, <2>2, <1>1
<1>9. FrameSize <= Head(Q).size
  BY <1>4, <1>6
<1> HIDE DEF Q
<1>10. Fifo!Take(FrameSize)
  BY <1>1, <1>5, <1>7, <1>8, <1>9 DEF Fifo!Take, Q
<1> QED BY <1>4, <1>10

\* The empty ring is the empty abstract queue.
LEMMA InitRefines == Init => Fifo!Init
<1> SUFFICES ASSUME Init PROVE Fifo!Init
  OBVIOUS
<1>1. Entries(<<>>) = <<>>
  BY EntriesSeq, EmptySeq
<1> QED BY <1>1 DEF Init, Fifo!Init, Fifo!Nothing, NoBytes, Bytes, Fifo!Bytes

\* Every step of the ring is a step of the abstract queue or no step of it.
LEMMA NextRefines == IInv /\ [Next]_vars => [Fifo!Next]_(Fifo!vars)
<1> SUFFICES ASSUME IInv, [Next]_vars PROVE [Fifo!Next]_(Fifo!vars)
  OBVIOUS
<1> USE DEF Fifo!Next, Fifo!vars
<1>1. ASSUME NEW n \in Sizes, AppendStored(n) PROVE Fifo!Next
  BY <1>1, AppendStoredRefines
<1>2. ASSUME NEW n \in Sizes, AppendDropped(n) PROVE Fifo!Next
  BY <1>2, AppendDroppedRefines
<1>3. ASSUME NEW m \in FrameLimits, ReadFront(m) PROVE UNCHANGED Fifo!vars
  BY <1>3 DEF ReadFront, qvars
<1>4. CASE SplitFront
  BY <1>4, SplitFrontRefines
<1>5. CASE CopyFrame
  BY <1>5 DEF CopyFrame, qvars
<1>6. CASE FinishFrame
  BY <1>6, FinishFrameRefines
<1>7. CASE Reset
  <2>1. Entries(<<>>) = <<>>
    BY EntriesSeq, EmptySeq
  <2>2. Fifo!Clear
    BY <1>7, <2>1 DEF Reset, rvars, Fifo!Clear
  <2> QED BY <2>2
<1>8. CASE UNCHANGED vars
  BY <1>8 DEF vars
<1> QED BY <1>1, <1>2, <1>3, <1>4, <1>5, <1>6, <1>7, <1>8 DEF Next

\* encoder_pktqueue_append, _split_packet, _pop_front and _reset together are a
\* bounded first-in first-out queue: packets leave in the order the encoder
\* appended them, with the bytes it appended, none twice; a packet is lost only
\* to a queue that holds others or is too small for it, or to a reset.
THEOREM Refinement == Spec => FifoSpec
BY Invariance, InitRefines, NextRefines, PTL DEF Spec, Fifo!Spec, FifoSpec
=============================================================================
