---------------------------- MODULE ClientProofs ----------------------------
(***************************************************************************)
(* Proofs about the client.                                                *)
(*                                                                         *)
(* The audio path, for any settings of the queue, any packets, any room in *)
(* the decoder buffer and any period.  The samples on their way are the    *)
(* packets of the queue, what is decoded and what is filled: the invariant *)
(* keeps these in order and without a gap, and cutting or joining          *)
(* sequences, which is all the steps do, changes neither their order nor   *)
(* which samples there are.                                                *)
(*                                                                         *)
(* The video path, from VideoInv on, for any packets, any decoder buffer   *)
(* and any pool of two buffers or more.                                    *)
(***************************************************************************)
EXTENDS ClientAudio, ClientVideo, SequenceTheorems, FiniteSetTheorems, FunctionTheorems, TLAPS

Lt(A, B) == \A a \in A, b \in B : a < b

Increasing(s) == \A i, j \in DOMAIN s : i < j => s[i] < s[j]

\* Packets in order: the samples of each, and each packet before the next.
Ordered(packets) ==
  /\ \A i \in DOMAIN packets : Increasing(packets[i])
  /\ \A i, j \in DOMAIN packets : i < j => Lt(ToSet(packets[i]), ToSet(packets[j]))

\* What is filled of the period, and what is decoded and not yet played.
Taken == IF sdl = "idle" THEN <<>> ELSE stream
Rest == SubSeq(audiobuf, abpos + 1, Len(audiobuf))

Typed == TypeOK /\ queue \in Seq(Seq(1..received))

\* More is decoded when the buffer is empty, and one packet at a time.
Stages ==
  /\ sdl \in {"get", "decode"} => audiobuf = <<>> /\ abpos = 0
  /\ sdl # "decode" => avpkt = <<>>

InOrder ==
  /\ Increasing(Taken) /\ Increasing(Rest) /\ Increasing(avpkt) /\ Ordered(queue)
  /\ Lt({last}, ToSet(Taken) \cup ToSet(Rest) \cup ToSet(avpkt) \cup Samples(queue))
  /\ Lt(ToSet(Taken), ToSet(Rest) \cup ToSet(avpkt) \cup Samples(queue))
  /\ Lt(ToSet(Rest), ToSet(avpkt) \cup Samples(queue))
  /\ Lt(ToSet(avpkt), Samples(queue))

NoGap ==
  \A s \in (last + 1)..received :
    s \in ToSet(Taken) \cup ToSet(Rest) \cup ToSet(avpkt) \cup Samples(queue) \cup lost

IInv == Typed /\ Stages /\ InOrder /\ NoGap /\ QueueBounded
-----------------------------------------------------------------------------
\* The samples of a sequence.
LEMMA Elements ==
  ASSUME NEW S, NEW s \in Seq(S)
  PROVE  /\ ToSet(s) = {s[i] : i \in 1..Len(s)} /\ ToSet(s) \subseteq S
         /\ ToSet(<<>>) = {}
BY DEF ToSet

\* Joining two sequences of samples.
LEMMA Joined ==
  ASSUME NEW N, NEW a \in Seq(1..N), NEW b \in Seq(1..N)
  PROVE  /\ a \o b \in Seq(1..N) /\ Len(a \o b) = Len(a) + Len(b)
         /\ ToSet(a \o b) = ToSet(a) \cup ToSet(b)
         /\ Increasing(a \o b) <=> (Increasing(a) /\ Increasing(b) /\ Lt(ToSet(a), ToSet(b)))
<1> DEFINE c == a \o b
<1>1. /\ c \in Seq(1..N) /\ Len(c) = Len(a) + Len(b)
      /\ \A i \in 1..Len(a) : c[i] = a[i]
      /\ \A i \in 1..Len(b) : c[Len(a) + i] = b[i]
      /\ \A i \in 1..Len(c) : (i \in 1..Len(a) /\ c[i] = a[i])
                                \/ (i - Len(a) \in 1..Len(b) /\ c[i] = b[i - Len(a)])
  BY ConcatProperties
<1>2. /\ DOMAIN a = 1..Len(a) /\ DOMAIN b = 1..Len(b) /\ DOMAIN c = 1..Len(c)
      /\ Len(a) \in Nat /\ Len(b) \in Nat
      /\ \A i, j \in 1..Len(b) : i < j => Len(a) + i < Len(a) + j
      /\ \A i, j \in 1..Len(c) : i < j /\ i \notin 1..Len(a) => /\ j \notin 1..Len(a)
                                                                /\ i - Len(a) < j - Len(a)
  BY <1>1
<1> HIDE DEF c
<1>3. ToSet(c) = ToSet(a) \cup ToSet(b)
  <2>1. ASSUME NEW x \in ToSet(c) PROVE x \in ToSet(a) \cup ToSet(b)
    BY <1>1, <1>2 DEF ToSet
  <2>2. ASSUME NEW x \in ToSet(a) PROVE x \in ToSet(c)
    <3>1. PICK i \in 1..Len(a) : x = a[i]
      BY <1>2 DEF ToSet
    <3> QED BY <1>1, <1>2, <3>1 DEF ToSet
  <2>3. ASSUME NEW x \in ToSet(b) PROVE x \in ToSet(c)
    <3>1. PICK i \in 1..Len(b) : x = b[i]
      BY <1>2 DEF ToSet
    <3>2. Len(a) + i \in 1..Len(c) /\ c[Len(a) + i] = x
      BY <1>1, <1>2, <3>1
    <3> QED BY <1>2, <3>2 DEF ToSet
  <2> QED BY <2>1, <2>2, <2>3
<1>4. Increasing(c) => Increasing(a) /\ Increasing(b) /\ Lt(ToSet(a), ToSet(b))
  <2> SUFFICES ASSUME Increasing(c) PROVE Increasing(a) /\ Increasing(b) /\ Lt(ToSet(a), ToSet(b))
    OBVIOUS
  <2>1. Increasing(a)
    BY <1>1, <1>2 DEF Increasing
  <2>2. \A i \in 1..Len(b) : Len(a) + i \in 1..Len(c)
    BY <1>1, <1>2
  <2>3. ASSUME NEW i \in 1..Len(b), NEW j \in 1..Len(b), i < j PROVE b[i] < b[j]
    <3>1. c[Len(a) + i] < c[Len(a) + j]
      BY <1>2, <2>2, <2>3 DEF Increasing
    <3> QED BY <1>1, <3>1
  <2>4. ASSUME NEW x \in ToSet(a), NEW y \in ToSet(b) PROVE x < y
    <3>1. PICK i \in 1..Len(a) : x = a[i]
      BY <1>2 DEF ToSet
    <3>2. PICK j \in 1..Len(b) : y = b[j]
      BY <1>2 DEF ToSet
    <3>3. i \in 1..Len(c) /\ Len(a) + j \in 1..Len(c) /\ i < Len(a) + j
      BY <1>1, <1>2
    <3>4. c[i] < c[Len(a) + j]
      BY <1>2, <3>3 DEF Increasing
    <3> QED BY <1>1, <3>1, <3>2, <3>4
  <2> QED BY <1>2, <2>1, <2>3, <2>4 DEF Increasing, Lt
<1>5. Increasing(a) /\ Increasing(b) /\ Lt(ToSet(a), ToSet(b)) => Increasing(c)
  <2> SUFFICES ASSUME Increasing(a), Increasing(b), Lt(ToSet(a), ToSet(b)),
                      NEW i \in 1..Len(c), NEW j \in 1..Len(c), i < j
               PROVE  c[i] < c[j]
    BY <1>2 DEF Increasing
  <2>1. CASE j \in 1..Len(a)
    <3>1. i \in 1..Len(a) /\ c[i] = a[i] /\ c[j] = a[j]
      BY <1>1, <1>2, <2>1
    <3> QED BY <1>2, <2>1, <3>1 DEF Increasing
  <2>2. CASE i \in 1..Len(a) /\ j \notin 1..Len(a)
    <3>1. c[i] = a[i] /\ j - Len(a) \in 1..Len(b) /\ c[j] = b[j - Len(a)]
      BY <1>1, <2>2
    <3>2. c[i] \in ToSet(a) /\ c[j] \in ToSet(b)
      BY <1>2, <2>2, <3>1 DEF ToSet
    <3> QED BY <3>2 DEF Lt
  <2>3. CASE i \notin 1..Len(a)
    <3>1. /\ i - Len(a) \in 1..Len(b) /\ j - Len(a) \in 1..Len(b)
          /\ c[i] = b[i - Len(a)] /\ c[j] = b[j - Len(a)]
          /\ i - Len(a) < j - Len(a)
      BY <1>1, <1>2, <2>3
    <3> QED BY <1>2, <3>1 DEF Increasing
  <2> QED BY <1>1, <1>2, <2>1, <2>2, <2>3
<1> QED BY <1>1, <1>3, <1>4, <1>5 DEF c

\* Joining two sequences of packets.
LEMMA PacketsJoined ==
  ASSUME NEW N, NEW p \in Seq(Seq(1..N)), NEW q \in Seq(Seq(1..N))
  PROVE  /\ p \o q \in Seq(Seq(1..N)) /\ Len(p \o q) = Len(p) + Len(q)
         /\ Samples(p \o q) = Samples(p) \cup Samples(q)
         /\ Ordered(p \o q) <=> (Ordered(p) /\ Ordered(q) /\ Lt(Samples(p), Samples(q)))
<1> DEFINE c == p \o q
<1>1. /\ c \in Seq(Seq(1..N)) /\ Len(c) = Len(p) + Len(q)
      /\ \A i \in 1..Len(p) : c[i] = p[i]
      /\ \A i \in 1..Len(q) : c[Len(p) + i] = q[i]
      /\ \A i \in 1..Len(c) : (i \in 1..Len(p) /\ c[i] = p[i])
                                \/ (i - Len(p) \in 1..Len(q) /\ c[i] = q[i - Len(p)])
  BY ConcatProperties
<1>2. /\ DOMAIN p = 1..Len(p) /\ DOMAIN q = 1..Len(q) /\ DOMAIN c = 1..Len(c)
      /\ Len(p) \in Nat /\ Len(q) \in Nat
      /\ \A i \in 1..Len(q) : Len(p) + i \in 1..Len(c)
      /\ \A i \in 1..Len(p) : i \in 1..Len(c)
      /\ \A i, j \in 1..Len(q) : i < j => Len(p) + i < Len(p) + j
      /\ \A i \in 1..Len(p), j \in 1..Len(q) : i < Len(p) + j
      /\ \A i, j \in 1..Len(c) : i < j /\ j \in 1..Len(p) => i \in 1..Len(p)
      /\ \A i, j \in 1..Len(c) : i < j /\ i \notin 1..Len(p) => /\ j \notin 1..Len(p)
                                                                /\ i - Len(p) < j - Len(p)
  BY <1>1
<1> HIDE DEF c
<1>3. Samples(c) = Samples(p) \cup Samples(q)
  <2>1. ASSUME NEW x \in Samples(c) PROVE x \in Samples(p) \cup Samples(q)
    BY <1>1, <1>2 DEF Samples
  <2>2. ASSUME NEW x \in Samples(p) PROVE x \in Samples(c)
    BY <1>1, <1>2 DEF Samples
  <2>3. ASSUME NEW x \in Samples(q) PROVE x \in Samples(c)
    <3>1. PICK i \in 1..Len(q) : x \in ToSet(q[i])
      BY <1>2 DEF Samples
    <3>2. Len(p) + i \in DOMAIN c /\ x \in ToSet(c[Len(p) + i])
      BY <1>1, <1>2, <3>1
    <3> QED BY <3>2 DEF Samples
  <2> QED BY <2>1, <2>2, <2>3
<1>4. Ordered(c) => Ordered(p) /\ Ordered(q) /\ Lt(Samples(p), Samples(q))
  <2> SUFFICES ASSUME Ordered(c) PROVE Ordered(p) /\ Ordered(q) /\ Lt(Samples(p), Samples(q))
    OBVIOUS
  <2>1. Ordered(p)
    BY <1>1, <1>2 DEF Ordered
  <2>2. Ordered(q)
    <3>1. \A i \in 1..Len(q) : Increasing(q[i])
      BY <1>1, <1>2 DEF Ordered
    <3>2. ASSUME NEW i \in 1..Len(q), NEW j \in 1..Len(q), i < j
          PROVE  Lt(ToSet(q[i]), ToSet(q[j]))
      <4>1. Lt(ToSet(c[Len(p) + i]), ToSet(c[Len(p) + j]))
        BY <1>2, <3>2 DEF Ordered
      <4> QED BY <1>1, <4>1
    <3> QED BY <1>2, <3>1, <3>2 DEF Ordered
  <2>3. ASSUME NEW x \in Samples(p), NEW y \in Samples(q) PROVE x < y
    <3>1. PICK i \in 1..Len(p) : x \in ToSet(p[i])
      BY <1>2 DEF Samples
    <3>2. PICK j \in 1..Len(q) : y \in ToSet(q[j])
      BY <1>2 DEF Samples
    <3>3. Lt(ToSet(c[i]), ToSet(c[Len(p) + j]))
      <4>1. i \in DOMAIN c /\ Len(p) + j \in DOMAIN c /\ i < Len(p) + j
        BY <1>2
      <4> QED BY <4>1 DEF Ordered
    <3> QED BY <1>1, <3>1, <3>2, <3>3 DEF Lt
  <2> QED BY <2>1, <2>2, <2>3 DEF Lt
<1>5. Ordered(p) /\ Ordered(q) /\ Lt(Samples(p), Samples(q)) => Ordered(c)
  <2> SUFFICES ASSUME Ordered(p), Ordered(q), Lt(Samples(p), Samples(q))
               PROVE  Ordered(c)
    OBVIOUS
  <2>1. \A i \in 1..Len(c) : Increasing(c[i])
    BY <1>1, <1>2 DEF Ordered
  <2>2. ASSUME NEW i \in 1..Len(c), NEW j \in 1..Len(c), i < j
        PROVE  Lt(ToSet(c[i]), ToSet(c[j]))
    <3>1. CASE j \in 1..Len(p)
      <4>1. i \in 1..Len(p) /\ c[i] = p[i] /\ c[j] = p[j]
        BY <1>1, <1>2, <2>2, <3>1
      <4> QED BY <1>2, <2>2, <3>1, <4>1 DEF Ordered
    <3>2. CASE i \in 1..Len(p) /\ j \notin 1..Len(p)
      <4>1. ToSet(c[i]) \subseteq Samples(p) /\ ToSet(c[j]) \subseteq Samples(q)
        BY <1>1, <1>2, <3>2 DEF Samples
      <4> QED BY <4>1 DEF Lt
    <3>3. CASE i \notin 1..Len(p)
      <4>1. j \notin 1..Len(p) /\ i - Len(p) < j - Len(p)
        BY <1>2, <2>2, <3>3
      <4>2. i - Len(p) \in 1..Len(q) /\ c[i] = q[i - Len(p)]
        BY <1>1, <3>3
      <4>3. j - Len(p) \in 1..Len(q) /\ c[j] = q[j - Len(p)]
        BY <1>1, <4>1
      <4> QED BY <1>2, <4>1, <4>2, <4>3 DEF Ordered
    <3> QED BY <1>1, <1>2, <2>2, <3>1, <3>2, <3>3
  <2> QED BY <1>2, <2>1, <2>2 DEF Ordered
<1> QED BY <1>1, <1>3, <1>4, <1>5 DEF c

\* One packet.
LEMMA OnePacket ==
  ASSUME NEW S, NEW s \in Seq(S)
  PROVE  /\ <<s>> \in Seq(Seq(S)) /\ Len(<<s>>) = 1
         /\ Samples(<<s>>) = ToSet(s)
         /\ Ordered(<<s>>) <=> Increasing(s)
BY DEF Samples, Ordered

\* A sequence is what comes before a place in it, and the rest.
LEMMA Cut ==
  ASSUME NEW S, NEW s \in Seq(S), NEW m \in 0..Len(s), NEW n \in m..Len(s)
  PROVE  /\ SubSeq(s, m + 1, n) \in Seq(S) /\ Len(SubSeq(s, m + 1, n)) = n - m
         /\ SubSeq(s, n + 1, Len(s)) \in Seq(S)
         /\ Len(SubSeq(s, n + 1, Len(s))) = Len(s) - n
         /\ SubSeq(s, m + 1, Len(s)) = SubSeq(s, m + 1, n) \o SubSeq(s, n + 1, Len(s))
<1>1. /\ m + 1 \in 1..Len(s) + 1 /\ n \in (m + 1) - 1..Len(s) /\ Len(s) \in n..Len(s)
      /\ Len(s) \in Nat /\ n + 1 \in 1..Len(s) + 1
  OBVIOUS
<1>2. SubSeq(s, m + 1, n) \o SubSeq(s, n + 1, Len(s)) = SubSeq(s, m + 1, Len(s))
  BY <1>1, ConcatAdjacentSubSeq
<1>3. SubSeq(s, m + 1, n) \in Seq(S) /\ Len(SubSeq(s, m + 1, n)) = n - m
  BY <1>1, SubSeqProperties
<1>4. /\ SubSeq(s, n + 1, Len(s)) \in Seq(S)
      /\ Len(SubSeq(s, n + 1, Len(s))) = Len(s) - n
  BY <1>1, SubSeqProperties
<1> QED BY <1>2, <1>3, <1>4

\* The same from the beginning of the sequence.
LEMMA CutFirst ==
  ASSUME NEW S, NEW s \in Seq(S), NEW n \in 0..Len(s)
  PROVE  /\ SubSeq(s, 1, n) \in Seq(S) /\ Len(SubSeq(s, 1, n)) = n
         /\ SubSeq(s, n + 1, Len(s)) \in Seq(S)
         /\ Len(SubSeq(s, n + 1, Len(s))) = Len(s) - n
         /\ s = SubSeq(s, 1, n) \o SubSeq(s, n + 1, Len(s))
<1>1. /\ 1 \in 1..Len(s) + 1 /\ n \in 1 - 1..Len(s) /\ Len(s) \in n..Len(s)
      /\ Len(s) \in Nat /\ n + 1 \in 1..Len(s) + 1
  OBVIOUS
<1>2. SubSeq(s, 1, n) \o SubSeq(s, n + 1, Len(s)) = SubSeq(s, 1, Len(s))
  BY <1>1, ConcatAdjacentSubSeq
<1>3. SubSeq(s, 1, Len(s)) = s
  BY SubSeqFull
<1>4. SubSeq(s, 1, n) \in Seq(S) /\ Len(SubSeq(s, 1, n)) = n
  BY <1>1, SubSeqProperties
<1>5. /\ SubSeq(s, n + 1, Len(s)) \in Seq(S)
      /\ Len(SubSeq(s, n + 1, Len(s))) = Len(s) - n
  BY <1>1, SubSeqProperties
<1> QED BY <1>2, <1>3, <1>4, <1>5

\* The quotient of naturals that packet_queue_drop computes.
LEMMA Quotient ==
  ASSUME NEW x \in Nat, NEW y \in Nat \ {0}
  PROVE  /\ x \div y \in Nat /\ x \div y <= x
         /\ x >= y => x \div y >= 1
         /\ x < y => x \div y = 0
         /\ x = y => x \div y = 1
<1> DEFINE q == x \div y
<1>1. PICK r \in Int : q \in Int /\ x = y * q + r /\ 0 <= r /\ r < y
  OBVIOUS
<1>2. y \in Int /\ y >= 1 /\ x \in Int /\ x >= 0
  OBVIOUS
<1> HIDE DEF q
<1>3. q >= 0
  <2>1. q <= -1 => y * q <= -y
    BY <1>1, <1>2
  <2> QED BY <1>1, <1>2, <2>1
<1>4. q <= x
  <2>1. q <= y * q
    BY <1>1, <1>2, <1>3
  <2> QED BY <1>1, <1>2, <2>1
<1>5. x >= y => q >= 1
  <2>1. q = 0 => x < y
    BY <1>1, <1>2
  <2> QED BY <1>1, <1>2, <1>3, <2>1
<1>6. x < y => q = 0
  <2>1. q >= 1 => y * q >= y
    BY <1>1, <1>2
  <2> QED BY <1>1, <1>2, <1>3, <2>1
<1>7. x = y => q = 1
  <2>1. q >= 2 => y * q >= 2 * y
    BY <1>1, <1>2
  <2> QED BY <1>1, <1>2, <1>5, <2>1
<1> QED BY <1>1, <1>3, <1>4, <1>5, <1>6, <1>7 DEF q

Bound == IF factor > limit + 1 THEN factor - 1 ELSE limit

\* Dropping keeps a packet, and brings the queue back within its bound.
LEMMA Drops ==
  ASSUME limit \in Nat, factor \in Nat \ {0}, NEW size \in Nat
  PROVE  /\ Dropped(size) \in 0..size
         /\ size > 0 => Dropped(size) < size
         /\ limit > 0 /\ size <= Bound + 1 => size - Dropped(size) <= Bound
<1>1. CASE limit > 0 /\ size > limit
  <2> DEFINE n == size \div factor
  <2>1. Dropped(size) = IF n = size THEN n - 1 ELSE n
    BY <1>1 DEF Dropped
  <2>2. /\ n \in Nat /\ n <= size
        /\ size >= factor => n >= 1
        /\ size < factor => n = 0
        /\ size = factor => n = 1
    BY Quotient
  <2> HIDE DEF n
  <2>3. size > 1
    BY <1>1
  <2>4. Dropped(size) \in 0..size /\ Dropped(size) < size
    BY <2>1, <2>2, <2>3
  <2>5. ASSUME size <= Bound + 1 PROVE size - Dropped(size) <= Bound
    <3>1. CASE factor > limit + 1
      <4>1. Bound = factor - 1 /\ size <= factor
        BY <2>5, <3>1 DEF Bound
      <4> QED BY <2>1, <2>2, <2>3, <4>1
    <3>2. CASE ~(factor > limit + 1)
      <4>1. Bound = limit /\ size = limit + 1 /\ size >= factor
        BY <1>1, <2>5, <3>2 DEF Bound
      <4>2. CASE n = size
        BY <1>1, <2>1, <2>2, <2>3, <4>1, <4>2
      <4>3. CASE n # size
        BY <1>1, <2>1, <2>2, <4>1, <4>3
      <4> QED BY <4>2, <4>3
    <3> QED BY <3>1, <3>2
  <2> QED BY <2>4, <2>5
<1>2. CASE ~(limit > 0 /\ size > limit)
  <2>1. Dropped(size) = 0
    BY <1>2 DEF Dropped
  <2>2. limit > 0 => size <= Bound
    BY <1>2 DEF Bound
  <2> QED BY <2>1, <2>2
<1> QED BY <1>1, <1>2

\* The settings are numbers.
LEMMA Settings ==
  ASSUME TypeOK
  PROVE  limit \in Nat /\ factor \in Nat \ {0} /\ received \in Nat
BY ClientAudioAssumption DEF TypeOK

\* In the invariant's order, the list of all that is on its way is in order.
LEMMA PendingInOrder ==
  ASSUME Typed, InOrder
  PROVE  /\ Pending \in Seq(Seq(1..received))
         /\ Samples(Pending) = ToSet(Taken) \cup ToSet(Rest) \cup ToSet(avpkt) \cup Samples(queue)
         /\ Ordered(Pending)
<1> DEFINE S == 1..received
<1>1. Taken \in Seq(S) /\ Rest \in Seq(S) /\ avpkt \in Seq(S) /\ queue \in Seq(Seq(S))
  <2>1. Rest \in Seq(S)
    BY Cut DEF Typed, TypeOK, Rest
  <2>2. Taken \in Seq(S)
    BY EmptySeq DEF Typed, TypeOK, Taken
  <2> QED BY <2>1, <2>2 DEF Typed, TypeOK
<1>2. Pending = <<Taken, Rest, avpkt>> \o queue
  BY DEF Pending, Taken, Rest
<1> DEFINE t == <<Taken>> r == <<Rest>> a == <<avpkt>>
<1>3. <<Taken, Rest, avpkt>> = (t \o r) \o a
  OBVIOUS
<1>4. /\ t \in Seq(Seq(S)) /\ Samples(t) = ToSet(Taken) /\ Ordered(t)
      /\ r \in Seq(Seq(S)) /\ Samples(r) = ToSet(Rest) /\ Ordered(r)
      /\ a \in Seq(Seq(S)) /\ Samples(a) = ToSet(avpkt) /\ Ordered(a)
  BY <1>1, OnePacket DEF InOrder
<1> HIDE DEF t, r, a
<1> DEFINE u == t \o r
           v == u \o a
<1>5. u \in Seq(Seq(S)) /\ Samples(u) = ToSet(Taken) \cup ToSet(Rest) /\ Ordered(u)
  <2>1. Lt(ToSet(Taken), ToSet(Rest))
    BY DEF InOrder, Lt
  <2> QED BY <1>4, <2>1, PacketsJoined
<1> HIDE DEF u
<1>6. /\ v \in Seq(Seq(S)) /\ Ordered(v)
      /\ Samples(v) = ToSet(Taken) \cup ToSet(Rest) \cup ToSet(avpkt)
  <2>1. Lt(Samples(u), Samples(a))
    BY <1>4, <1>5 DEF InOrder, Lt
  <2>2. Samples(u \o a) = Samples(u) \cup Samples(a)
    BY <1>4, <1>5, PacketsJoined
  <2>3. u \o a \in Seq(Seq(S)) /\ Ordered(u \o a)
    BY <1>4, <1>5, <2>1, PacketsJoined
  <2> QED BY <1>4, <1>5, <2>2, <2>3
<1> HIDE DEF v
<1>7. /\ v \o queue \in Seq(Seq(S)) /\ Ordered(v \o queue)
      /\ Samples(v \o queue) =
           ToSet(Taken) \cup ToSet(Rest) \cup ToSet(avpkt) \cup Samples(queue)
  <2>1. Lt(Samples(v), Samples(queue)) /\ Ordered(queue)
    BY <1>6 DEF InOrder, Lt
  <2>2. Samples(v \o queue) = Samples(v) \cup Samples(queue)
    BY <1>1, <1>6, PacketsJoined
  <2>3. v \o queue \in Seq(Seq(S)) /\ Ordered(v \o queue)
    BY <1>1, <1>6, <2>1, PacketsJoined
  <2> QED BY <1>6, <2>2, <2>3
<1>8. Pending = v \o queue
  BY <1>2, <1>3 DEF u, v
<1> QED BY <1>7, <1>8
-----------------------------------------------------------------------------
\* Only samples that have come are anywhere.
LEMMA Come ==
  ASSUME Typed
  PROVE  /\ Taken \in Seq(1..received) /\ Rest \in Seq(1..received)
         /\ ToSet(Taken) \subseteq 1..received /\ ToSet(Rest) \subseteq 1..received
         /\ ToSet(avpkt) \subseteq 1..received /\ Samples(queue) \subseteq 1..received
<1>1. Taken \in Seq(1..received)
  BY EmptySeq DEF Typed, TypeOK, Taken
<1>2. Rest \in Seq(1..received)
  BY Cut DEF Typed, TypeOK, Rest
<1>3. /\ ToSet(Taken) \subseteq 1..received /\ ToSet(Rest) \subseteq 1..received
      /\ ToSet(avpkt) \subseteq 1..received
  BY <1>1, <1>2, Elements DEF Typed, TypeOK
<1>4. ASSUME NEW i \in DOMAIN queue PROVE ToSet(queue[i]) \subseteq 1..received
  <2>1. queue[i] \in Seq(1..received)
    BY DEF Typed
  <2> QED BY <2>1, Elements
<1> QED BY <1>1, <1>2, <1>3, <1>4 DEF Samples

\* The packets of play_audio continue what came before.
LEMMA PutStep ==
  ASSUME IInv, NEW n \in Chunks, PacketQueuePut(n)
  PROVE  IInv'
<1> DEFINE e == [i \in 1..n |-> received + i]
           N == received'
<1>1. /\ n \in Nat \ {0} /\ received \in Nat /\ N = received + n /\ N \in 0..MaxSamples
      /\ 1..received \subseteq 1..N
  BY ClientAudioAssumption, Settings DEF IInv, Typed, PacketQueuePut
<1>2. e \in Seq(1..N) /\ Len(e) = n
  <2>1. e \in [1..n -> 1..N]
    BY <1>1
  <2> QED BY <1>1, <2>1
<1>3. /\ e # <<>> /\ Increasing(e)
      /\ ToSet(e) = (received + 1)..N
  <2>1. DOMAIN e = 1..n /\ \A i \in 1..n : e[i] = received + i
    OBVIOUS
  <2>2. \A x \in (received + 1)..N : x - received \in 1..n /\ e[x - received] = x
    BY <1>1, <2>1
  <2>3. ToSet(e) = (received + 1)..N
    BY <1>1, <2>1, <2>2 DEF ToSet
  <2>4. Increasing(e)
    BY <1>1, <2>1 DEF Increasing
  <2> QED BY <1>1, <1>2, <2>3, <2>4
<1> HIDE DEF e, N
<1>4. Append(queue, e) = queue \o <<e>> /\ queue' = Append(queue, e)
  <2>1. queue \in Seq(Seq(1..N))
    BY <1>1, SeqMonotonic DEF IInv, Typed
  <2> QED BY <1>2, <2>1, AppendIsConcat DEF PacketQueuePut, e
<1>5. queue \in Seq(Seq(1..N)) /\ <<e>> \in Seq(Seq(1..N))
  BY <1>1, <1>2, SeqMonotonic, OnePacket DEF IInv, Typed
<1>6. /\ queue' \in Seq(Seq(1..N)) /\ Len(queue') = Len(queue) + 1
      /\ \A i \in 1..Len(queue) : queue'[i] = queue[i]
      /\ queue'[Len(queue) + 1] = e
  BY <1>2, <1>4, <1>5, AppendProperties
<1>7. Samples(queue) \subseteq 1..received /\ Samples(<<e>>) = (received + 1)..N
  BY <1>2, <1>3, Come, OnePacket DEF IInv
<1>8. Ordered(queue) /\ Ordered(<<e>>) /\ Lt(Samples(queue), Samples(<<e>>))
  <2>1. \A x \in 1..received, y \in (received + 1)..N : x < y
    BY <1>1
  <2>2. Lt(Samples(queue), Samples(<<e>>))
    BY <1>7, <2>1 DEF Lt
  <2> QED BY <1>2, <1>3, <2>2, OnePacket DEF IInv, InOrder
<1>9. Ordered(queue') /\ Samples(queue') = Samples(queue) \cup (received + 1)..N
  <2> DEFINE one == <<e>>
  <2>1. one \in Seq(Seq(1..N)) /\ queue' = queue \o one /\ Ordered(one)
        /\ Samples(one) = (received + 1)..N /\ Lt(Samples(queue), Samples(one))
    BY <1>4, <1>5, <1>7, <1>8
  <2> HIDE DEF one
  <2>2. /\ Samples(queue \o one) = Samples(queue) \cup Samples(one)
        /\ Ordered(queue \o one)
             <=> (Ordered(queue) /\ Ordered(one) /\ Lt(Samples(queue), Samples(one)))
    <3>1. queue \in Seq(Seq(1..N)) /\ one \in Seq(Seq(1..N))
      BY <1>5, <2>1
    <3> QED BY <3>1, PacketsJoined, SMTT(30)
  <2>3. Ordered(queue \o one)
    BY <1>8, <2>1, <2>2
  <2> QED BY <2>1, <2>2, <2>3
<1>10. /\ UNCHANGED <<Taken, Rest, avpkt, last, lost, config, sdl>>
       /\ live = "idle" /\ live' = "drop"
  BY DEF PacketQueuePut, decoder, config, Taken, Rest
<1>11. TypeOK'
  <2>1. /\ audiobuf' \in Seq(1..N) /\ avpkt' \in Seq(1..N) /\ stream' \in Seq(1..N)
        /\ lost' \subseteq 1..N /\ last' \in 0..N
    BY <1>1, SeqMonotonic DEF IInv, Typed, TypeOK, PacketQueuePut, decoder
  <2>2. \A i \in 1..Len(queue') : queue'[i] \in Seq(1..N) /\ queue'[i] # <<>>
    <3>1. \A i \in 1..Len(queue') : i \in 1..Len(queue) \/ i = Len(queue) + 1
      BY <1>5, <1>6
    <3>2. \A i \in 1..Len(queue) : queue'[i] # <<>>
      BY <1>6 DEF IInv, Typed, TypeOK
    <3> QED BY <1>3, <1>6, <3>1, <3>2
  <2> QED BY <1>1, <2>1, <2>2 DEF IInv, Typed, TypeOK, PacketQueuePut, config, device, decoder, N
<1>12. Typed' /\ Stages'
  BY <1>6, <1>10, <1>11 DEF IInv, Typed, Stages, PacketQueuePut, decoder, N
<1>13. InOrder'
  <2>1. /\ ToSet(Taken) \subseteq 1..received /\ ToSet(Rest) \subseteq 1..received
        /\ ToSet(avpkt) \subseteq 1..received /\ last \in 0..received
    BY Come DEF IInv, Typed, TypeOK
  <2>2. \A x \in 0..received, y \in (received + 1)..N : x < y
    BY <1>1
  <2>3. /\ Lt({last}, (received + 1)..N) /\ Lt(ToSet(Taken), (received + 1)..N)
        /\ Lt(ToSet(Rest), (received + 1)..N) /\ Lt(ToSet(avpkt), (received + 1)..N)
    BY <1>1, <2>1, <2>2 DEF Lt
  <2> QED BY <1>9, <1>10, <2>3 DEF IInv, InOrder, Lt
<1>14. NoGap'
  <2>1. \A x \in (last + 1)..N : x \in (last + 1)..received \/ x \in (received + 1)..N
    BY <1>1 DEF IInv, Typed, TypeOK
  <2> QED BY <1>9, <1>10, <2>1 DEF IInv, NoGap, N
<1>15. QueueBounded'
  BY <1>5, <1>6, <1>10, Settings DEF IInv, Typed, QueueBounded, config
<1> QED BY <1>12, <1>13, <1>14, <1>15 DEF IInv

\* What packet_queue_drop takes away are the eldest packets.
LEMMA DropStep ==
  ASSUME IInv, PacketQueueDrop
  PROVE  IInv'
<1> DEFINE n == Dropped(Len(queue))
           N == received
           gone == SubSeq(queue, 1, n)
           kept == SubSeq(queue, n + 1, Len(queue))
<1>1. /\ limit \in Nat /\ factor \in Nat \ {0} /\ N \in Nat /\ Len(queue) \in Nat
      /\ queue \in Seq(Seq(1..N))
  BY Settings DEF IInv, Typed
<1>2. n \in 0..Len(queue) /\ (limit > 0 /\ Len(queue) <= Bound + 1 => Len(queue) - n <= Bound)
  BY <1>1, Drops
<1>3. /\ queue' = kept /\ lost' = lost \cup Samples(gone)
      /\ UNCHANGED <<Taken, Rest, avpkt, last, config, sdl, received>>
      /\ live = "drop" /\ live' = "ask"
  BY DEF PacketQueueDrop, decoder, config, Taken, Rest
<1> HIDE DEF n, N
<1>4. /\ gone \in Seq(Seq(1..N)) /\ kept \in Seq(Seq(1..N)) /\ Len(kept) = Len(queue) - n
      /\ queue = gone \o kept
  BY <1>1, <1>2, CutFirst
<1>5. \A i \in 1..Len(kept) : i + n \in 1..Len(queue) /\ kept[i] = queue[i + n]
  <2>1. \A i \in (n + 1)..Len(queue) : queue[i] \in Seq(1..N)
    BY <1>1, <1>2
  <2>2. /\ n + 1 \in Int /\ Len(queue) \in Int
        /\ \A i \in 1..(Len(queue) - n) : i + n \in 1..Len(queue) /\ (n + 1) + i - 1 = i + n
    BY <1>1, <1>2
  <2>3. \A i \in 1..(Len(queue) - (n + 1) + 1) : kept[i] = queue[(n + 1) + i - 1]
    BY <2>1, <2>2, SubSeqProperties
  <2>4. Len(queue) - (n + 1) + 1 = Len(queue) - n
    BY <1>1, <1>2
  <2> QED BY <1>4, <2>2, <2>3, <2>4
<1> HIDE DEF gone, kept
<1>6. /\ Samples(queue) = Samples(gone) \cup Samples(kept)
      /\ Ordered(queue) => Ordered(kept)
  BY <1>4, PacketsJoined
<1>7. Samples(gone) \subseteq 1..N
  BY <1>6, Come DEF IInv, N
<1>8. TypeOK'
  <2>1. \A i \in 1..Len(queue') : queue'[i] \in Seq(1..N) /\ queue'[i] # <<>>
    BY <1>3, <1>5 DEF IInv, Typed, TypeOK, N
  <2>2. lost' \subseteq 1..N
    BY <1>3, <1>7 DEF IInv, Typed, TypeOK, N
  <2> QED BY <2>1, <2>2 DEF IInv, Typed, TypeOK, PacketQueueDrop, config, device, decoder, N
<1>9. Typed' /\ Stages'
  BY <1>3, <1>4, <1>8 DEF IInv, Typed, Stages, PacketQueueDrop, decoder, N
<1>10. InOrder'
  BY <1>3, <1>6 DEF IInv, InOrder, Lt
<1>11. NoGap'
  BY <1>3, <1>6 DEF IInv, NoGap
<1>12. QueueBounded'
  BY <1>1, <1>2, <1>3, <1>4 DEF IInv, QueueBounded, config, Bound
<1> QED BY <1>9, <1>10, <1>11, <1>12 DEF IInv

\* SDL's callback begins with nothing filled.
LEMMA CallbackStep ==
  ASSUME IInv, Callback
  PROVE  IInv'
<1>1. UNCHANGED <<Taken, Rest, avpkt, queue, last, received, lost, live, config>>
  BY DEF Callback, Taken, Rest, config
<1>2. TypeOK'
  BY EmptySeq, ClientAudioAssumption DEF IInv, Typed, TypeOK, Callback, config, device
<1>3. Typed' /\ Stages'
  BY <1>1, <1>2 DEF IInv, Typed, Stages, Callback
<1>4. InOrder' /\ NoGap' /\ QueueBounded'
  BY <1>1 DEF IInv, InOrder, NoGap, QueueBounded, config
<1> QED BY <1>3, <1>4 DEF IInv

\* When it is empty, nothing is left to play in the buffer.
LEMMA NothingLeft ==
  ASSUME audiobuf = <<>>, abpos = 0
  PROVE  Rest = <<>> /\ ToSet(Rest) = {}
BY EmptySeq, SubSeqEmpty DEF Rest, ToSet

\* Copying moves the first of what is decoded to the end of what is filled.
LEMMA CopyStep ==
  ASSUME IInv, CopySamples
  PROVE  IInv'
<1> DEFINE N == received
<1>1. /\ sdl = "copy" /\ Taken = stream /\ stream \in Seq(1..N) /\ Rest \in Seq(1..N)
      /\ audiobuf \in Seq(1..N) /\ abpos \in 0..Len(audiobuf) /\ Len(audiobuf) <= Room
      /\ Len(stream) \in 0..Period /\ Len(audiobuf) \in Nat /\ Period \in Nat /\ Room \in Nat
      /\ Len(Rest) = Have
  <2>1. sdl = "copy" /\ Taken = stream
    BY DEF CopySamples, Taken
  <2>2. Len(Rest) = Have
    BY Cut DEF IInv, Typed, TypeOK, Rest, Have
  <2> QED BY <2>1, <2>2, Come, ClientAudioAssumption DEF IInv, Typed, TypeOK
<1>2. PICK x \in Seq(1..N) :
        /\ Rest' \in Seq(1..N) /\ Rest = x \o Rest' /\ stream' = stream \o x
        /\ Len(x) <= Want
        /\ audiobuf' \in {audiobuf, <<>>} /\ abpos' \in 0..Len(audiobuf')
        /\ sdl' \in {"done", "get"}
        /\ sdl' = "get" => audiobuf' = <<>> /\ abpos' = 0
  <2>1. CASE Have >= Want
    <3> DEFINE m == abpos + Want
    <3>1. m \in abpos..Len(audiobuf) /\ abpos \in 0..Len(audiobuf) /\ m - abpos = Want
      BY <1>1, <2>1 DEF Have, Want
    <3>2. /\ stream' = stream \o SubSeq(audiobuf, abpos + 1, m)
          /\ audiobuf' = audiobuf /\ abpos' = m /\ sdl' = "done"
      BY <2>1 DEF CopySamples
    <3> HIDE DEF m
    <3>3. /\ SubSeq(audiobuf, abpos + 1, m) \in Seq(1..N)
          /\ Len(SubSeq(audiobuf, abpos + 1, m)) = m - abpos
          /\ SubSeq(audiobuf, m + 1, Len(audiobuf)) \in Seq(1..N)
          /\ Rest = SubSeq(audiobuf, abpos + 1, m) \o SubSeq(audiobuf, m + 1, Len(audiobuf))
      BY <1>1, <3>1, Cut DEF Rest
    <3>4. Rest' = SubSeq(audiobuf, m + 1, Len(audiobuf)) /\ abpos' \in 0..Len(audiobuf')
      BY <1>1, <3>1, <3>2 DEF Rest
    <3>5. Len(SubSeq(audiobuf, abpos + 1, m)) <= Want
      BY <1>1, <3>1, <3>3
    <3> QED BY <3>2, <3>3, <3>4, <3>5
  <2>2. CASE ~(Have >= Want)
    <3>1. /\ stream' = stream \o Rest /\ audiobuf' = <<>> /\ abpos' = 0 /\ sdl' = "get"
      BY <2>2 DEF CopySamples, Rest
    <3>2. Rest' = <<>>
      BY <3>1, EmptySeq, SubSeqEmpty DEF Rest
    <3>3. <<>> \in Seq(1..N) /\ Rest \o <<>> = Rest /\ abpos' \in 0..Len(audiobuf')
      BY <1>1, <3>1, EmptySeq, ConcatEmptySeq
    <3>4. Len(Rest) <= Want
      BY <1>1, <2>2 DEF Have, Want
    <3> QED BY <1>1, <3>1, <3>2, <3>3, <3>4
  <2> QED BY <2>1, <2>2
<1>3. /\ stream' \in Seq(1..N) /\ Len(stream') <= Period
      /\ ToSet(stream') = ToSet(stream) \cup ToSet(x)
      /\ ToSet(Rest) = ToSet(x) \cup ToSet(Rest')
      /\ Increasing(stream) /\ Increasing(x) /\ Lt(ToSet(stream), ToSet(x))
           => Increasing(stream')
      /\ Increasing(Rest) => /\ Increasing(x) /\ Increasing(Rest')
                             /\ Lt(ToSet(x), ToSet(Rest'))
  <2>1. /\ stream \o x \in Seq(1..N) /\ Len(stream \o x) = Len(stream) + Len(x)
        /\ ToSet(stream \o x) = ToSet(stream) \cup ToSet(x)
        /\ Increasing(stream \o x)
             <=> (Increasing(stream) /\ Increasing(x) /\ Lt(ToSet(stream), ToSet(x)))
    BY <1>1, Joined
  <2>2. /\ ToSet(x \o Rest') = ToSet(x) \cup ToSet(Rest')
        /\ Increasing(x \o Rest')
             <=> (Increasing(x) /\ Increasing(Rest') /\ Lt(ToSet(x), ToSet(Rest')))
    BY <1>2, Joined
  <2>3. Len(stream) + Len(x) <= Period
    BY <1>1, <1>2, EmptySeq DEF Want
  <2> QED BY <1>2, <2>1, <2>2, <2>3
<1>4. /\ Taken' = stream'
      /\ UNCHANGED <<config, queue, received, live, avpkt, lost, last>>
  BY <1>2 DEF CopySamples, Taken
<1>5. TypeOK'
  <2>1. audiobuf' \in Seq(1..N) /\ Len(audiobuf') <= Room
    <3>1. CASE audiobuf' = audiobuf
      BY <1>1, <3>1
    <3>2. CASE audiobuf' = <<>>
      <4>1. <<>> \in Seq(1..N) /\ Len(<<>>) = 0 /\ 0 <= Room
        BY <1>1, EmptySeq
      <4> QED BY <3>2, <4>1
    <3> QED BY <1>2, <3>1, <3>2
  <2> QED BY <1>2, <1>3, <2>1 DEF IInv, Typed, TypeOK, CopySamples, config, device
<1>6. Typed' /\ Stages'
  BY <1>2, <1>4, <1>5 DEF IInv, Typed, Stages, CopySamples
<1>7. InOrder'
  BY <1>1, <1>3, <1>4 DEF IInv, InOrder, Lt
<1>8. NoGap'
  BY <1>1, <1>3, <1>4 DEF IInv, NoGap
<1>9. QueueBounded'
  BY <1>4 DEF IInv, QueueBounded, config
<1> QED BY <1>6, <1>7, <1>8, <1>9 DEF IInv

\* packet_queue_get takes the eldest packet to decode it next.
LEMMA GetStep ==
  ASSUME IInv, PacketQueueGet
  PROVE  IInv'
<1> DEFINE N == received
<1>1. /\ sdl = "get" /\ avpkt = <<>> /\ audiobuf = <<>> /\ abpos = 0
      /\ sdl' \in {"done", "decode"} /\ Taken = stream /\ Taken' = stream
      /\ UNCHANGED <<config, received, live, Rest, lost, last>>
  BY DEF IInv, Stages, PacketQueueGet, Taken, Rest
<1>2. CASE queue = <<>>
  <2>1. UNCHANGED <<queue, avpkt>> /\ sdl' = "done"
    BY <1>2 DEF PacketQueueGet
  <2>2. TypeOK'
    BY <2>1 DEF IInv, Typed, TypeOK, PacketQueueGet, config, device
  <2>3. Typed' /\ Stages'
    BY <1>1, <2>1, <2>2 DEF IInv, Typed, Stages, PacketQueueGet
  <2>4. InOrder' /\ NoGap' /\ QueueBounded'
    BY <1>1, <2>1 DEF IInv, InOrder, NoGap, QueueBounded, config
  <2> QED BY <2>3, <2>4 DEF IInv
<1>3. CASE queue # <<>>
  <2> DEFINE head == Head(queue)
             one == <<head>>
             rest == Tail(queue)
  <2>1. /\ queue \in Seq(Seq(1..N)) /\ head \in Seq(1..N) /\ rest \in Seq(Seq(1..N))
        /\ Len(rest) = Len(queue) - 1 /\ \A i \in 1..Len(rest) : rest[i] = queue[i + 1]
        /\ Len(queue) \in Nat
    BY <1>3, HeadTailProperties, LenProperties DEF IInv, Typed
  <2>2. queue = one \o rest
    <3>1. Len(queue) # 0
      BY <1>3, <2>1, EmptySeq
    <3>2. 1 \in 1..Len(queue) /\ Len(queue) \in 1..Len(queue)
      BY <2>1, <3>1
    <3>3. SubSeq(queue, 1, Len(queue)) = <<queue[1]>> \o SubSeq(queue, 1 + 1, Len(queue))
      BY <2>1, <3>2, SubSeqRecursiveFirst
    <3>4. SubSeq(queue, 1, Len(queue)) = queue
      BY <2>1, SubSeqFull
    <3>5. rest = SubSeq(queue, 1 + 1, Len(queue)) /\ head = queue[1]
      BY <1>3, <2>1, TailIsSubSeq
    <3> QED BY <3>3, <3>4, <3>5
  <2>3. avpkt' = head /\ queue' = rest /\ sdl' = "decode"
    BY <1>3 DEF PacketQueueGet
  <2>4. one \in Seq(Seq(1..N)) /\ Samples(one) = ToSet(head)
        /\ (Ordered(one) <=> Increasing(head))
    <3>1. one \in Seq(Seq(1..N)) /\ Samples(one) = ToSet(head)
      BY <2>1, OnePacket
    <3>2. Ordered(one) <=> Increasing(head)
      BY <2>1, OnePacket
    <3> QED BY <3>1, <3>2
  <2> HIDE DEF one, rest, head, N
  <2>5. Samples(queue) = ToSet(head) \cup Samples(rest)
    BY <2>1, <2>2, <2>4, PacketsJoined
  <2>6. Increasing(head) /\ Ordered(rest) /\ Lt(ToSet(head), Samples(rest))
    <3>1. Ordered(one \o rest)
      BY <2>2 DEF IInv, InOrder
    <3>2. Ordered(one) /\ Ordered(rest) /\ Lt(Samples(one), Samples(rest))
      BY <2>1, <2>4, <3>1, PacketsJoined
    <3> QED BY <2>4, <3>2
  <2>7. TypeOK'
    <3>1. \A i \in 1..Len(rest) : i + 1 \in 1..Len(queue)
      BY <2>1
    <3>2. \A i \in 1..Len(queue') : queue'[i] \in Seq(1..N) /\ queue'[i] # <<>>
      BY <2>1, <2>3, <3>1 DEF IInv, Typed, TypeOK, N
    <3> QED BY <2>1, <2>3, <3>2 DEF IInv, Typed, TypeOK, PacketQueueGet, config, device, N
  <2>8. Typed' /\ Stages'
    BY <1>1, <2>1, <2>3, <2>7 DEF IInv, Typed, Stages, PacketQueueGet, N
  <2>9. ToSet(avpkt) = {}
    BY <1>1 DEF ToSet
  <2>10. InOrder'
    BY <1>1, <2>3, <2>5, <2>6 DEF IInv, InOrder, Lt
  <2>11. NoGap'
    BY <1>1, <2>3, <2>5, <2>9 DEF IInv, NoGap
  <2>12. QueueBounded'
    <3>1. Len(queue') <= Len(queue) /\ Len(queue') \in Nat
      BY <2>1, <2>3, LenProperties
    <3> QED BY <1>1, <2>1, <3>1, Settings DEF IInv, Typed, QueueBounded, config
  <2> QED BY <2>8, <2>10, <2>11, <2>12 DEF IInv
<1> QED BY <1>2, <1>3

\* What is decoded is the beginning of the packet; the rest of it is lost.
LEMMA DecodeStep ==
  ASSUME IInv, NEW n \in 0..MaxSamples, AudioBufferDecode(n)
  PROVE  IInv'
<1> DEFINE N == received
           m == IF n > Room THEN Room ELSE n
           got == SubSeq(avpkt, 1, m)
           gone == SubSeq(avpkt, m + 1, Len(avpkt))
<1>1. /\ sdl = "decode" /\ audiobuf = <<>> /\ abpos = 0 /\ avpkt \in Seq(1..N)
      /\ Len(avpkt) \in Nat /\ n \in 0..Len(avpkt) /\ Room \in Nat \ {0}
      /\ Taken = stream /\ Taken' = stream /\ avpkt' = <<>>
      /\ UNCHANGED <<config, queue, received, live, abpos, stream, rendered, last>>
      /\ lost' = lost \cup (ToSet(avpkt) \ ToSet(got))
      /\ (audiobuf' = got /\ sdl' = "copy") \/ (n = 0 /\ audiobuf' = audiobuf /\ sdl' = "done")
  BY LenProperties, ClientAudioAssumption
  DEF IInv, Typed, TypeOK, Stages, AudioBufferDecode, Taken
<1>2. m \in 0..Len(avpkt) /\ m <= Room
  BY <1>1
<1>3. ToSet(Rest) = {} /\ ToSet(avpkt') = {}
  BY <1>1, NothingLeft DEF ToSet
<1> HIDE DEF m, N
<1>4. /\ got \in Seq(1..N) /\ gone \in Seq(1..N) /\ Len(got) = m
      /\ avpkt = got \o gone
  BY <1>1, <1>2, CutFirst
<1> HIDE DEF got, gone
<1>5. /\ ToSet(avpkt) = ToSet(got) \cup ToSet(gone)
      /\ Increasing(avpkt) => Increasing(got)
  BY <1>4, Joined
<1>6. audiobuf' \in Seq(1..N) /\ Len(audiobuf') <= Room /\ abpos' \in 0..Len(audiobuf')
  <2>1. CASE audiobuf' = got
    BY <1>1, <1>2, <1>4, <2>1
  <2>2. CASE audiobuf' = audiobuf
    <3>1. <<>> \in Seq(1..N) /\ Len(<<>>) = 0 /\ 0 <= Room
      BY <1>1, EmptySeq
    <3> QED BY <1>1, <2>2, <3>1
  <2> QED BY <1>1, <2>1, <2>2
<1>7. ToSet(Rest') \subseteq ToSet(got) /\ (Increasing(got) => Increasing(Rest'))
  <2>1. CASE audiobuf' = got
    <3>1. Rest' = SubSeq(got, abpos' + 1, Len(got)) /\ abpos' + 1 = 1
      BY <1>1, <2>1 DEF Rest
    <3>2. Rest' = got
      BY <1>4, <3>1, SubSeqFull
    <3> QED BY <3>2
  <2>2. CASE audiobuf' = audiobuf
    <3>1. audiobuf' = <<>> /\ abpos' = 0
      BY <1>1, <2>2
    <3>2. Rest' = <<>>
      BY <3>1, EmptySeq, SubSeqEmpty DEF Rest
    <3> QED BY <3>2 DEF ToSet, Increasing
  <2> QED BY <1>1, <2>1, <2>2
<1>8. ToSet(got) \subseteq ToSet(Rest') \cup lost'
  <2>1. CASE audiobuf' = got /\ sdl' = "copy"
    <3>1. Rest' = SubSeq(got, abpos' + 1, Len(got)) /\ abpos' + 1 = 1
      BY <1>1, <2>1 DEF Rest
    <3>2. Rest' = got
      BY <1>4, <3>1, SubSeqFull
    <3> QED BY <3>2
  <2>2. CASE n = 0
    <3>1. m = 0
      BY <1>1, <2>2 DEF m
    <3>2. got = <<>>
      BY <1>4, <3>1, EmptySeq
    <3> QED BY <3>2 DEF ToSet
  <2> QED BY <1>1, <2>1, <2>2
<1>9. TypeOK'
  <2>1. lost' \subseteq 1..N /\ avpkt' \in Seq(1..N)
    <3>1. ToSet(avpkt) \subseteq 1..N
      BY <1>1, Elements
    <3> QED BY <1>1, <3>1, EmptySeq DEF IInv, Typed, TypeOK, N
  <2> QED BY <1>1, <1>6, <2>1 DEF IInv, Typed, TypeOK, AudioBufferDecode, config, device, N
<1>10. Typed' /\ Stages'
  <2>1. sdl' \in {"copy", "done"}
    BY <1>1
  <2> QED BY <1>1, <1>9, <2>1 DEF IInv, Typed, Stages
<1>11. InOrder'
  <2>1. Increasing(avpkt')
    BY <1>1 DEF Increasing
  <2>2. Increasing(Rest') /\ ToSet(Rest') \subseteq ToSet(avpkt)
    BY <1>5, <1>7 DEF IInv, InOrder
  <2> QED BY <1>1, <1>3, <2>1, <2>2 DEF IInv, InOrder, Lt
<1>12. NoGap'
  <2>1. lost \subseteq lost' /\ ToSet(avpkt) \subseteq ToSet(Rest') \cup lost'
    BY <1>1, <1>8
  <2> QED BY <1>1, <1>3, <2>1 DEF IInv, NoGap
<1>13. QueueBounded'
  BY <1>1 DEF IInv, QueueBounded, config
<1> QED BY <1>10, <1>11, <1>12, <1>13 DEF IInv

\* The period that ends has all samples up to its last one.
LEMMA FinishStep ==
  ASSUME IInv, FinishPeriod
  PROVE  IInv'
<1> DEFINE N == received
<1>1. /\ sdl = "done" /\ sdl' = "idle" /\ Taken = stream /\ Taken' = <<>>
      /\ UNCHANGED <<config, queue, received, live, audiobuf, abpos, avpkt, stream, Rest>>
      /\ last' = (IF stream = <<>> THEN last ELSE stream[Len(stream)])
      /\ lost \subseteq lost' /\ lost' \subseteq lost \cup ToSet(stream)
  BY DEF FinishPeriod, Taken, Rest, Last
<1>2. /\ stream \in Seq(1..N) /\ Len(stream) \in Nat /\ ToSet(stream) \subseteq 1..N
      /\ ToSet(Taken') = {} /\ Increasing(Taken') /\ last \in 0..N /\ N \in Nat
  BY <1>1, LenProperties, Elements, Settings DEF IInv, Typed, TypeOK, ToSet, Increasing
<1>3. /\ last' \in 0..N /\ last <= last'
      /\ last' = last \/ last' \in ToSet(stream)
      /\ \A x \in ToSet(stream) : x <= last'
  <2>1. CASE stream = <<>>
    BY <1>1, <1>2, <2>1 DEF ToSet
  <2>2. CASE stream # <<>>
    <3>1. Len(stream) \in 1..Len(stream) /\ DOMAIN stream = 1..Len(stream)
      BY <1>2, <2>2, EmptySeq
    <3>2. last' \in ToSet(stream) /\ last' \in 1..N
      BY <1>1, <1>2, <2>2, <3>1 DEF ToSet
    <3>3. last < last'
      BY <1>1, <3>2 DEF IInv, InOrder, Lt
    <3>4. ASSUME NEW i \in 1..Len(stream) PROVE stream[i] <= last'
      <4>1. i = Len(stream) \/ i < Len(stream)
        BY <1>2
      <4>2. i < Len(stream) => stream[i] < stream[Len(stream)]
        BY <1>1, <3>1 DEF IInv, InOrder, Increasing
      <4> QED BY <1>1, <1>2, <2>2, <3>2, <4>1, <4>2
    <3> QED BY <1>2, <3>1, <3>2, <3>3, <3>4 DEF ToSet
  <2> QED BY <2>1, <2>2
<1>4. TypeOK'
  <2>1. last' \in 0..received' /\ lost' \subseteq 1..received'
    BY <1>1, <1>2, <1>3 DEF IInv, Typed, TypeOK
  <2> QED BY <1>1, <2>1 DEF IInv, Typed, TypeOK, FinishPeriod, config, device
<1>5. Typed' /\ Stages'
  BY <1>1, <1>4 DEF IInv, Typed, Stages
<1>6. InOrder'
  <2>1. \A x \in ToSet(Rest) \cup ToSet(avpkt) \cup Samples(queue) : last' < x
    BY <1>1, <1>3 DEF IInv, InOrder, Lt
  <2> QED BY <1>1, <1>2, <2>1 DEF IInv, InOrder, Lt
<1>7. NoGap'
  <2>1. ASSUME NEW x \in (last' + 1)..received'
        PROVE  x \in ToSet(Rest) \cup ToSet(avpkt) \cup Samples(queue) \cup lost
    <3>1. x \in (last + 1)..received /\ ~(x <= last')
      BY <1>1, <1>2, <1>3
    <3>2. x \notin ToSet(stream)
      BY <1>3, <3>1
    <3> QED BY <1>1, <3>1, <3>2 DEF IInv, NoGap
  <2> QED BY <1>1, <2>1 DEF NoGap
<1>8. QueueBounded'
  BY <1>1 DEF IInv, QueueBounded, config
<1> QED BY <1>5, <1>6, <1>7, <1>8 DEF IInv

\* The other steps move no sample.
LEMMA OtherSteps ==
  ASSUME IInv, PushOpenAudio \/ OpenAudio \/ ImageRendered \/ UNCHANGED vars
  PROVE  IInv'
<1>1. /\ UNCHANGED <<config, queue, received, decoder, lost>>
      /\ live' = live \/ (live = "ask" /\ live' = "idle")
  BY DEF PushOpenAudio, OpenAudio, ImageRendered, vars
<1>2. UNCHANGED <<limit, factor, audiobuf, abpos, avpkt, stream, sdl, last, Taken, Rest>>
  BY <1>1 DEF config, decoder, Taken, Rest
<1>3. requests' \in Nat
  BY DEF IInv, Typed, TypeOK, PushOpenAudio, OpenAudio, ImageRendered, vars, device
<1>4. /\ devices' = (IF opened' THEN 1 ELSE 0) /\ (sdl' # "idle" => opened')
      /\ rendered' \in BOOLEAN
  <2>1. CASE PushOpenAudio \/ UNCHANGED vars
    BY <1>2, <2>1 DEF IInv, Typed, TypeOK, PushOpenAudio, vars, device
  <2>2. CASE OpenAudio
    <3>1. \/ ~opened /\ opened' = TRUE /\ devices' = devices + 1
          \/ UNCHANGED <<opened, devices>>
      BY <2>2 DEF OpenAudio
    <3>2. rendered' = rendered
      BY <2>2 DEF OpenAudio
    <3> QED BY <1>2, <3>1, <3>2 DEF IInv, Typed, TypeOK
  <2>3. CASE ImageRendered
    BY <1>2, <2>3 DEF IInv, Typed, TypeOK, ImageRendered, device
  <2> QED BY <2>1, <2>2, <2>3
<1>5. TypeOK'
  BY <1>1, <1>2, <1>3, <1>4 DEF IInv, Typed, TypeOK
<1>6. Typed' /\ Stages'
  BY <1>1, <1>2, <1>5 DEF IInv, Typed, Stages
<1>7. InOrder' /\ NoGap'
  BY <1>1, <1>2 DEF IInv, InOrder, NoGap
<1>8. QueueBounded'
  BY <1>1, <1>2 DEF IInv, QueueBounded
<1> QED BY <1>6, <1>7, <1>8 DEF IInv

\* The invariant holds in every state, whatever packets come and whenever the
\* three threads take their steps.
THEOREM Invariance == Spec => []IInv
<1>1. Init => IInv
  <2> SUFFICES ASSUME Init PROVE IInv
    OBVIOUS
  <2>1. /\ Taken = <<>> /\ Rest = <<>> /\ avpkt = <<>> /\ queue = <<>> /\ last = 0
        /\ received = 0 /\ audiobuf = <<>> /\ stream = <<>> /\ abpos = 0
    BY NothingLeft DEF Init, Taken
  <2>2. ToSet(<<>>) = {} /\ Samples(<<>>) = {} /\ Increasing(<<>>) /\ Ordered(<<>>)
    BY DEF ToSet, Samples, Increasing, Ordered
  <2>3. /\ Len(<<>>) = 0 /\ <<>> \in Seq(1..received) /\ <<>> \in Seq(Seq(1..received))
        /\ Len(audiobuf) = 0 /\ Len(stream) = 0 /\ Len(queue) = 0
    BY <2>1, EmptySeq
  <2>4. TypeOK
    <3>1. \A i \in 1..Len(queue) : queue[i] \in Seq(1..received) /\ queue[i] # <<>>
      BY <2>3
    <3>2. /\ audiobuf \in Seq(1..received) /\ avpkt \in Seq(1..received)
          /\ stream \in Seq(1..received)
      BY <2>1, <2>3
    <3>3. /\ Len(audiobuf) <= Room /\ abpos \in 0..Len(audiobuf) /\ Len(stream) <= Period
          /\ received \in 0..MaxSamples /\ lost \subseteq 1..received /\ last \in 0..received
      BY <2>1, <2>3, ClientAudioAssumption DEF Init
    <3> QED BY <3>1, <3>2, <3>3 DEF Init, TypeOK
  <2>5. Typed /\ Stages
    BY <2>1, <2>3, <2>4 DEF Init, Typed, Stages
  <2>6. InOrder
    BY <2>1, <2>2 DEF InOrder, Lt
  <2>7. NoGap
    BY <2>1 DEF NoGap
  <2>8. QueueBounded
    <3>1. limit \in Nat /\ factor \in Nat /\ live = "idle"
      BY <2>4, Settings DEF Init
    <3> QED BY <2>3, <3>1 DEF QueueBounded
  <2> QED BY <2>5, <2>6, <2>7, <2>8 DEF IInv
<1>2. IInv /\ [Next]_vars => IInv'
  BY PutStep, DropStep, CallbackStep, CopyStep, GetStep, DecodeStep, FinishStep, OtherSteps
  DEF Next, Fill
<1> QED BY <1>1, <1>2, PTL DEF Spec

\* Samples are played in the order they came, none twice, and none is missed but
\* those that were dropped or not decoded: abpos, absize, the packet that is
\* decoded and the queue, which two threads change, always agree.
THEOREM SamplesPlayInOrder == Spec => []PlayedInOrder
<1>1. IInv => PlayedInOrder
  <2> SUFFICES ASSUME IInv PROVE PlayedInOrder
    OBVIOUS
  <2> DEFINE all == Pending
  <2>1. /\ all \in Seq(Seq(1..received)) /\ Ordered(all)
        /\ Samples(all) =
             ToSet(Taken) \cup ToSet(Rest) \cup ToSet(avpkt) \cup Samples(queue)
    BY PendingInOrder DEF IInv
  <2>2. Lt({last}, Samples(all))
    BY <2>1 DEF IInv, InOrder
  <2> HIDE DEF all
  <2>3. ASSUME NEW p \in DOMAIN all, NEW q \in DOMAIN all,
               NEW i \in DOMAIN all[p], NEW j \in DOMAIN all[q]
        PROVE  /\ last < all[p][i]
               /\ (p < q \/ (p = q /\ i < j)) => all[p][i] < all[q][j]
    <3>1. all[p][i] \in ToSet(all[p]) /\ all[q][j] \in ToSet(all[q])
      BY DEF ToSet
    <3>2. all[p][i] \in Samples(all)
      BY <3>1 DEF Samples
    <3>3. p < q => all[p][i] < all[q][j]
      BY <2>1, <3>1 DEF Ordered, Lt
    <3>4. p = q /\ i < j => all[p][i] < all[q][j]
      BY <2>1 DEF Ordered, Increasing
    <3> QED BY <2>2, <3>2, <3>3, <3>4 DEF Lt
  <2>4. \A s \in (last + 1)..received : s \in Samples(all) \cup lost
    BY <2>1 DEF IInv, NoGap
  <2> QED BY <2>3, <2>4 DEF IInv, Typed, PlayedInOrder, all
<1> QED BY <1>1, Invariance, PTL

\* The queue of packets never outgrows the limit and the drop factor it was given.
THEOREM QueueStaysBounded == Spec => []QueueBounded
<1>1. IInv => QueueBounded
  BY DEF IInv
<1> QED BY <1>1, Invariance, PTL

\* packet_queue_drop keeps the packet that came last.
THEOREM NewestKept == Spec => DropKeepsNewest
<1> DEFINE Keeps == live = "drop" /\ live' # live /\ queue # <<>> =>
                      queue' # <<>> /\ Last(queue') = Last(queue)
<1>1. ASSUME IInv, Next PROVE Keeps
  <2> SUFFICES ASSUME live = "drop", live' # live, queue # <<>>
               PROVE  queue' # <<>> /\ Last(queue') = Last(queue)
    OBVIOUS
  <2>1. PacketQueueDrop
    BY <1>1 DEF Next, Fill, PacketQueuePut, PushOpenAudio, OpenAudio, ImageRendered, Callback,
      CopySamples, PacketQueueGet, AudioBufferDecode, FinishPeriod
  <2> DEFINE n == Dropped(Len(queue))
  <2>2. /\ queue \in Seq(Seq(1..received)) /\ Len(queue) \in Nat /\ Len(queue) > 0
        /\ queue' = SubSeq(queue, n + 1, Len(queue))
    BY <1>1, <2>1, EmptySeq, LenProperties DEF IInv, Typed, PacketQueueDrop
  <2>3. n \in 0..Len(queue) /\ n < Len(queue)
    BY <1>1, <2>2, Drops, Settings DEF IInv, Typed
  <2> HIDE DEF n
  <2>4. \A i \in (n + 1)..Len(queue) : queue[i] \in Seq(1..received)
    BY <2>2, <2>3
  <2>5. n + 1 \in Int /\ Len(queue) \in Int /\ Len(queue) - (n + 1) + 1 = Len(queue) - n
        /\ Len(queue) - n \in 1..(Len(queue) - n)
        /\ n + 1 <= Len(queue) /\ (n + 1) + (Len(queue) - n) - 1 = Len(queue)
    BY <2>2, <2>3
  <2>6. Len(queue') = Len(queue) - n /\ queue'[Len(queue) - n] = queue[Len(queue)]
    BY <2>2, <2>4, <2>5, SubSeqProperties
  <2> QED BY <2>5, <2>6, EmptySeq DEF Last
<1>2. ASSUME IInv, [Next]_vars PROVE [Keeps]_vars
  BY <1>1, <1>2
<1> QED BY <1>2, Invariance, PTL DEF Spec, DropKeepsNewest
-----------------------------------------------------------------------------
(***************************************************************************)
(* The video path of the client, module ClientVideo.                       *)
(***************************************************************************)
\* What DPipeProofs proves of the steps of a pipe.
Pipe == INSTANCE DPipeProofs
  WITH Writers <- {Live}, Readers <- {Main}, Timed <- {}, MaxFrames <- MaxUnits, last <- loaded

\* Each thread is in the pipe where its code has it, and a window is made only
\* without one.
Calls ==
  /\ pc[Live] = IF video = "scale" THEN "writing"
                ELSE IF video = "stored" THEN "signalling" ELSE "idle"
  /\ pc[Main] = IF main = "render" THEN "reading" ELSE "idle"
  /\ main = "create" => ~surface

\* The decoder buffer is there while packets come, and what is stored as
\* pictures, in the buffer, or about to be stored, has come.
Stream ==
  /\ video \notin {"start", "ending", "exited"} => ready
  /\ packet # NoPacket =>
       packet \in Packets /\ units + packet.units <= MaxUnits
  /\ video = "copy" => packet # NoPacket
  /\ stored + Len(buffer) + (IF video \in {"picture", "get", "scale"} THEN 1 ELSE 0) <= units

\* The places of the render requests in an event queue.
Renders(s) == {i \in 1..Len(s) : s[i] = "render"}

\* RendersCovered, with the pictures whose request is to come counted as one.
Covered ==
  Len(out) <= Cardinality(Renders(events)) + (IF video \in {"stored", "render"} THEN 1 ELSE 0)

VideoInv == VideoTypeOK /\ Pipe!IInv /\ Calls /\ Stream /\ Covered
-----------------------------------------------------------------------------
\* The assumptions about a pipe hold.
LEMMA PipeAssumed == Pipe!DPipeAssumption
<1>1. IsFiniteSet({Live} \cup {Main})
  BY FS_Singleton, FS_AddElement
<1>2. \A S : Pipe!IsFiniteSet(S) <=> IsFiniteSet(S)
  BY DEF Pipe!IsFiniteSet, IsFiniteSet
<1> QED BY <1>1, <1>2, ClientVideoAssumption DEF Pipe!DPipeAssumption, Pipe!Threads

\* The steps of the pipe are those that DPipeProofs is about.
LEMMA PipeSteps ==
  /\ \A t : P!Get(t) => Pipe!Get(t)
  /\ \A t, f : P!Store(t, f) => Pipe!Store(t, f)
  /\ \A t : P!Signal(t) => Pipe!Signal(t)
  /\ \A t : P!Load(t) => Pipe!Load(t)
  /\ \A t : P!Put(t) => Pipe!Put(t)
<1> USE DEF P!Goto, P!Hold, P!Release, P!TakeEldest,
  P!Enqueue, P!Free, P!pool,
  Pipe!Goto, Pipe!Hold, Pipe!Release, Pipe!TakeEldest, Pipe!Enqueue, Pipe!Free, Pipe!pool
<1>1. \A t : P!Get(t) => Pipe!Get(t)
  BY DEF P!Get, Pipe!Get, P!GetFree, Pipe!GetFree, P!GetEldest,
    Pipe!GetEldest, P!GetNull, Pipe!GetNull
<1>2. \A t, f : P!Store(t, f) => Pipe!Store(t, f)
  BY DEF P!Store, Pipe!Store
<1>3. \A t : P!Signal(t) => Pipe!Signal(t)
  BY DEF P!Signal, Pipe!Signal, P!Waiting, Pipe!Waiting
<1>4. \A t : P!Load(t) => Pipe!Load(t)
  BY DEF P!Load, Pipe!Load, P!Looking, Pipe!Looking, P!Awake, Pipe!Awake
<1>5. \A t : P!Put(t) => Pipe!Put(t)
  BY DEF P!Put, Pipe!Put
<1> QED BY <1>1, <1>2, <1>3, <1>4, <1>5

\* Render requests can be counted, whatever the queue.
LEMMA SomeRenders ==
  ASSUME NEW s \in Seq({"create", "render"})
  PROVE  IsFiniteSet(Renders(s)) /\ Cardinality(Renders(s)) \in Nat /\ Len(s) \in Nat
<1>1. Len(s) \in Nat
  BY LenProperties
<1>2. IsFiniteSet(1..Len(s))
  BY <1>1, FS_Interval
<1>3. IsFiniteSet(Renders(s))
  BY <1>2, FS_Subset DEF Renders
<1> QED BY <1>1, <1>3, FS_CardinalityType

\* A request that is pushed counts when it is to render.
LEMMA RenderPushed ==
  ASSUME NEW s \in Seq({"create", "render"}), NEW e \in {"create", "render"}
  PROVE  Cardinality(Renders(Append(s, e))) =
           Cardinality(Renders(s)) + (IF e = "render" THEN 1 ELSE 0)
<1> DEFINE t == Append(s, e)
           k == Len(s)
<1>1. /\ k \in Nat /\ Len(t) = k + 1 /\ t[k+1] = e /\ \A i \in 1..k : t[i] = s[i]
  BY AppendProperties, LenProperties
<1>2. IsFiniteSet(Renders(s)) /\ Cardinality(Renders(s)) \in Nat
  BY SomeRenders
<1> HIDE DEF t, k
<1>3. \A i : i \in 1..Len(t) <=> i \in 1..k \/ i = k + 1
  BY <1>1
<1>4. k + 1 \notin 1..k
  BY <1>1
<1>5. CASE e = "render"
  <2>1. Renders(t) = Renders(s) \cup {k + 1} /\ k + 1 \notin Renders(s)
    BY <1>1, <1>3, <1>4, <1>5 DEF Renders, k
  <2> QED BY <1>2, <1>5, <2>1, FS_AddElement DEF t
<1>6. CASE e # "render"
  <2>1. Renders(t) = Renders(s)
    BY <1>1, <1>3, <1>4, <1>6 DEF Renders, k
  <2> QED BY <1>2, <1>6, <2>1 DEF t
<1> QED BY <1>5, <1>6

\* So does one that is taken.
LEMMA RenderTaken ==
  ASSUME NEW s \in Seq({"create", "render"}), s # <<>>
  PROVE  Cardinality(Renders(Tail(s))) =
           Cardinality(Renders(s)) - (IF Head(s) = "render" THEN 1 ELSE 0)
<1> DEFINE R == Renders(s) \ {1}
           f == [i \in R |-> i - 1]
<1>1. /\ Len(Tail(s)) = Len(s) - 1 /\ Len(s) \in Nat \ {0} /\ Head(s) = s[1]
      /\ \A i \in 1..Len(Tail(s)) : Tail(s)[i] = s[i+1]
  BY HeadTailProperties, EmptySeq
<1>2. IsFiniteSet(Renders(s)) /\ Cardinality(Renders(s)) \in Nat
  BY SomeRenders
<1>3. \A i : i \in R <=> i \in 2..Len(s) /\ s[i] = "render"
  BY <1>1 DEF Renders
<1>4. \A i : i \in Renders(Tail(s)) <=> i \in 1..Len(s)-1 /\ s[i+1] = "render"
  BY <1>1 DEF Renders
<1>5. ExistsBijection(R, Renders(Tail(s)))
  <2>1. \A i \in R : i - 1 \in Renders(Tail(s))
    <3> TAKE i \in R
    <3>1. i \in 2..Len(s) /\ s[i] = "render"
      BY <1>3
    <3>2. i - 1 \in 1..Len(s)-1 /\ (i - 1) + 1 = i
      BY <1>1, <3>1
    <3> QED BY <1>4, <3>1, <3>2
  <2>2. \A j \in Renders(Tail(s)) : j + 1 \in R /\ (j + 1) - 1 = j
    <3> TAKE j \in Renders(Tail(s))
    <3>1. j \in 1..Len(s)-1 /\ s[j+1] = "render"
      BY <1>4
    <3>2. j + 1 \in 2..Len(s) /\ (j + 1) - 1 = j
      BY <1>1, <3>1
    <3> QED BY <1>3, <3>1, <3>2
  <2>3. \A i, j \in R : i - 1 = j - 1 => i = j
    BY <1>1, <1>3
  <2> HIDE DEF R
  <2>4. f \in [R -> Renders(Tail(s))]
    BY <2>1
  <2>5. \A j \in Renders(Tail(s)) : \E i \in R : f[i] = j
    BY <2>2
  <2>6. \A i, j \in R : f[i] = f[j] => i = j
    BY <2>3
  <2> HIDE DEF f
  <2>7. f \in Bijection(R, Renders(Tail(s)))
    BY <2>4, <2>5, <2>6, Fun_IsBij
  <2> QED BY <2>7 DEF ExistsBijection
<1>6. IsFiniteSet(R) /\ Cardinality(R) = Cardinality(Renders(s)) - (IF 1 \in Renders(s) THEN 1 ELSE 0)
  BY <1>2, FS_RemoveElement
<1>7. Cardinality(Renders(Tail(s))) = Cardinality(R)
  BY <1>5, <1>6, FS_Bijection
<1>8. 1 \in Renders(s) <=> Head(s) = "render"
  BY <1>1 DEF Renders
<1> QED BY <1>6, <1>7, <1>8

\* Where the two threads and the buffers of the pipe are.
LEMMA VideoPipe ==
  ASSUME VideoInv
  PROVE  /\ Pipe!DPipeAssumption
         /\ Live \in Pipe!Threads \ {Main} /\ Main \in Pipe!Threads \ {Live}
         /\ out \in Seq(Buffers) /\ Len(out) \in Nat
         /\ stored \in Nat /\ units \in Nat /\ MaxUnits \in Nat /\ Len(buffer) \in Nat
         /\ buffer \in Seq(1..MaxUnits)
         /\ events \in Seq({"create", "render"})
         /\ Cardinality(Renders(events)) \in Nat
         /\ stored <= units /\ units <= MaxUnits
         /\ held[Live] # NoBuffer <=> pc[Live] = "writing"
         /\ in = {} /\ out = <<>> => \A b \in Buffers : held[Live] = b \/ held[Main] = b
<1>1. Pipe!DPipeAssumption
  BY PipeAssumed
<1>2. Pipe!Threads = {Live, Main} /\ Live # Main
  BY ClientVideoAssumption DEF Pipe!Threads
<1>3. /\ out \in Seq(Buffers) /\ stored \in 0..MaxUnits
      /\ \A w \in {Live} : pc[w] \in {"idle", "writing", "signalling", "null"}
      /\ \A t \in Pipe!Threads : held[t] # NoBuffer <=> pc[t] \in {"writing", "reading"}
      /\ in = {} /\ out = <<>> => \A b \in Buffers : \E t \in Pipe!Threads : held[t] = b
  BY <1>1, Pipe!PipeFacts DEF VideoInv
<1>4. /\ buffer \in Seq(1..MaxUnits) /\ events \in Seq({"create", "render"})
      /\ units \in 0..MaxUnits /\ MaxUnits \in Nat
  BY ClientVideoAssumption DEF VideoInv, VideoTypeOK
<1>5. Len(out) \in Nat /\ Len(buffer) \in Nat
  BY <1>3, <1>4, LenProperties
<1>6. stored <= units
  BY <1>3, <1>4, <1>5 DEF VideoInv, Stream
<1>7. Cardinality(Renders(events)) \in Nat
  BY <1>4, SomeRenders
<1> QED BY <1>1, <1>2, <1>3, <1>4, <1>5, <1>6, <1>7

\* A step that leaves the pipe alone keeps its invariant.
LEMMA PipeSame ==
  ASSUME VideoInv, UNCHANGED pipe
  PROVE  Pipe!IInv'
BY VideoPipe, Pipe!OtherInv DEF VideoInv, pipe, Pipe!vars

\* The steps of the live555 thread that only move it: no request and no picture
\* comes or goes.
LEMMA LiveMovesInv ==
  ASSUME VideoInv,
         \/ InitDecoderBuffer
         \/ \E p \in Packets, newPts \in BOOLEAN : PlayVideo(p, newPts)
         \/ DropVideoFrame \/ LeaveDecode \/ GotPicture
         \/ EndStream \/ Exit
  PROVE  VideoInv'
<1>1. UNCHANGED pipe /\ UNCHANGED <<events, main, window>>
  BY DEF InitDecoderBuffer, PlayVideo, DropVideoFrame, LeaveDecode,
    GotPicture, EndStream, Exit
<1>2. Pipe!IInv'
  BY <1>1, PipeSame
<1>3. <<>> \in Seq(1..MaxUnits) /\ Len(<<>>) = 0
  BY EmptySeq
<1> USE VideoPipe, <1>1, <1>2, <1>3 DEF VideoInv, VideoTypeOK, Calls, Stream, Covered,
  pipe, window, LivePCs
<1>4. CASE InitDecoderBuffer
  BY <1>4 DEF InitDecoderBuffer
<1>5. CASE \E p \in Packets, newPts \in BOOLEAN : PlayVideo(p, newPts)
  <2>1. PICK p \in Packets, newPts \in BOOLEAN : PlayVideo(p, newPts)
    BY <1>5
  <2>2. p # NoPacket
    <3>1. p.units # 0
      BY ClientVideoAssumption DEF Packets
    <3> QED BY <3>1 DEF NoPacket
  <2>3. video' \in {"play", "copy"} /\ video = "idle"
    BY <2>1 DEF PlayVideo
  <2> QED BY <2>1, <2>2, <2>3 DEF PlayVideo
<1>6. CASE DropVideoFrame
  <2>1. video = "play" /\ video' \in {"decode", "idle", "copy"}
        /\ (video' = "copy" => packet # NoPacket)
    BY <1>6 DEF DropVideoFrame, Played
  <2> QED BY <1>6, <2>1 DEF DropVideoFrame, input
<1>7. CASE LeaveDecode
  <2>1. video = "decode" /\ video' \in {"idle", "copy"}
        /\ (video' = "copy" => packet # NoPacket)
    BY <1>7 DEF LeaveDecode, Played
  <2> QED BY <1>7, <2>1 DEF LeaveDecode, input
<1>8. CASE GotPicture
  <2>1. /\ video = "picture" /\ video' \in {"get", "ask"}
        /\ video' = "get" => surface
    BY <1>8 DEF GotPicture
  <2>2. /\ stored + Len(buffer) + 1 <= units
        /\ stored + Len(buffer) + 0 <= units
    BY <2>1
  <2>3. UNCHANGED <<ready, units, buffer, decoded, packet>>
    BY <1>8 DEF GotPicture, input
  <2>4. VideoTypeOK'
    BY <2>1, <2>3
  <2>5. Calls' /\ Covered'
    BY <2>1, <2>3
  <2>6. Stream'
    BY <2>1, <2>2, <2>3
  <2> QED BY <2>4, <2>5, <2>6
<1>9. CASE EndStream
  <2>1. /\ buffer' \in Seq(1..MaxUnits) /\ Len(buffer') = 0 /\ ready' \in BOOLEAN
        /\ video' = "ending" /\ UNCHANGED <<units, decoded, packet>>
        /\ video = "idle"
    BY <1>9 DEF EndStream
  <2>2. stored + 0 + 0 <= units
    OBVIOUS
  <2>3. VideoTypeOK'
    BY <2>1
  <2>4. Stream'
    BY <2>1, <2>2
  <2>5. Calls' /\ Covered'
    BY <2>1
  <2> QED BY <2>3, <2>4, <2>5
<1>10. CASE Exit
  BY <1>10 DEF Exit, input
<1> QED BY <1>4, <1>5, <1>6, <1>7, <1>8, <1>9, <1>10

\* A pool of two buffers or more is not all in the hands of one thread.
LEMMA TwoBuffers ==
  ASSUME NEW S, IsFiniteSet(S), Cardinality(S) > 1, NEW x
  PROVE  \E b \in S : b # x
<1> SUFFICES ASSUME S \subseteq {x} PROVE FALSE
  OBVIOUS
<1>1. IsFiniteSet({x}) /\ Cardinality({x}) = 1
  BY FS_Singleton
<1>2. Cardinality(S) <= Cardinality({x}) /\ Cardinality(S) \in Nat
  BY <1>1, FS_Subset, FS_CardinalityType
<1> QED BY <1>1, <1>2

\* The units of the packet that is copied.
LEMMA PacketUnits ==
  ASSUME VideoInv, video = "copy"
  PROVE  /\ packet \in Packets /\ packet.units \in Sizes
         /\ packet.units \in Nat \ {0} /\ units + packet.units \in 0..MaxUnits
         /\ Units \in Seq(1..MaxUnits) /\ Len(Units) = packet.units
<1>1. packet \in Packets /\ units + packet.units <= MaxUnits
  BY DEF VideoInv, Stream
<1>2. packet.units \in Sizes
  BY <1>1 DEF Packets
<1>3. packet.units \in Nat \ {0} /\ units \in Nat /\ MaxUnits \in Nat
  <2>1. units \in Nat /\ MaxUnits \in Nat
    BY VideoPipe
  <2>2. packet.units \in 1..MaxUnits
    BY <1>2, ClientVideoAssumption
  <2> QED BY <2>1, <2>2
<1>4. Units \in [1..packet.units -> 1..MaxUnits]
  BY <1>1, <1>3 DEF Units
<1> QED BY <1>1, <1>2, <1>3, <1>4

\* The live555 thread copies a packet, or does not for want of room.
LEMMA CopyInv ==
  ASSUME VideoInv, Copy
  PROVE  VideoInv'
<1>1. /\ video = "copy" /\ video' \in {"play", "idle"}
      /\ UNCHANGED pipe /\ UNCHANGED <<ready, decoded, events, main, window>>
      /\ units' = units + packet.units /\ packet' = NoPacket
      /\ buffer' = buffer \/ buffer' = buffer \o Units
  BY DEF Copy
<1>2. Pipe!IInv'
  BY <1>1, PipeSame
<1>3. /\ packet.units \in Nat /\ units' \in 0..MaxUnits
      /\ Units \in Seq(1..MaxUnits) /\ Len(Units) = packet.units
  BY <1>1, PacketUnits
<1>4. /\ buffer' \in Seq(1..MaxUnits) /\ Len(buffer') \in Nat
      /\ Len(buffer') <= Len(buffer) + packet.units
  <2>1. buffer \in Seq(1..MaxUnits) /\ Len(buffer) \in Nat
    BY VideoPipe
  <2>2. /\ buffer \o Units \in Seq(1..MaxUnits)
        /\ Len(buffer \o Units) = Len(buffer) + packet.units
    BY <1>3, <2>1, ConcatProperties
  <2>3. CASE buffer' = buffer
    BY <1>3, <2>1, <2>3
  <2>4. CASE buffer' = buffer \o Units
    BY <1>3, <2>1, <2>2, <2>4
  <2> QED BY <1>1, <2>3, <2>4
<1>5. stored + Len(buffer') <= units'
  <2>1. stored + Len(buffer) + 0 <= units
    BY <1>1 DEF VideoInv, Stream
  <2>2. stored \in Nat /\ Len(buffer) \in Nat /\ units \in Nat
    BY VideoPipe
  <2> QED BY <1>1, <1>3, <1>4, <2>1, <2>2
<1>6. Stream'
  <2>1. stored' = stored /\ stored \in Nat /\ ready
    BY <1>1, VideoPipe DEF pipe, VideoInv, Stream
  <2> QED BY <1>1, <1>3, <1>4, <1>5, <2>1 DEF Stream
<1>7. Calls' /\ Covered'
  BY <1>1 DEF VideoInv, Calls, Covered, pipe, window
<1>8. VideoTypeOK'
  BY <1>1, <1>3, <1>4 DEF VideoInv, VideoTypeOK, window, LivePCs
<1> QED BY <1>2, <1>6, <1>7, <1>8 DEF VideoInv

\* Units are decoded: one picture at most comes of them.
LEMMA DecodeInv ==
  ASSUME VideoInv, NEW n, Decode(n)
  PROVE  VideoInv'
<1>1. /\ video = "decode" /\ video' \in {"decode", "picture"} /\ n \in 1..Len(buffer)
      /\ UNCHANGED pipe
      /\ UNCHANGED <<ready, units, packet, events, main, window>>
      /\ decoded' = SubSeq(buffer, 1, n) /\ buffer' = SubSeq(buffer, n + 1, Len(buffer))
  BY DEF Decode
<1>2. Pipe!IInv'
  BY <1>1, PipeSame
<1>3. /\ buffer \in Seq(1..MaxUnits) /\ Len(buffer) \in Nat /\ n \in Nat \ {0} /\ n <= Len(buffer)
      /\ stored \in Nat /\ units \in Nat
  BY <1>1, VideoPipe
<1>4. decoded' \in Seq(1..MaxUnits)
  <2>1. \A i \in 1..n : buffer[i] \in 1..MaxUnits
    <3>1. \A i \in 1..Len(buffer) : buffer[i] \in 1..MaxUnits
      BY <1>3, ElementOfSeq
    <3> QED BY <1>3, <3>1
  <2> QED BY <1>1, <1>3, <2>1, SubSeqProperties
<1>5. buffer' \in Seq(1..MaxUnits) /\ Len(buffer') = Len(buffer) - n
  <2>1. \A i \in n+1..Len(buffer) : buffer[i] \in 1..MaxUnits
    <3>1. \A i \in 1..Len(buffer) : buffer[i] \in 1..MaxUnits
      BY <1>3, ElementOfSeq
    <3> QED BY <1>3, <3>1
  <2>2. n + 1 \in Int /\ Len(buffer) \in Int
    BY <1>3
  <2>3. /\ SubSeq(buffer, n + 1, Len(buffer)) \in Seq(1..MaxUnits)
        /\ Len(SubSeq(buffer, n + 1, Len(buffer))) =
             IF n + 1 <= Len(buffer) THEN Len(buffer) - (n + 1) + 1 ELSE 0
    BY <2>1, <2>2, SubSeqProperties
  <2> QED BY <1>1, <1>3, <2>3
<1>6. Stream'
  <2>1. stored + Len(buffer) + 0 <= units /\ ready
    BY <1>1 DEF VideoInv, Stream
  <2>2. stored + Len(buffer') + 1 <= units /\ stored + Len(buffer') + 0 <= units
    BY <1>3, <1>5, <2>1
  <2>3. stored' = stored
    BY <1>1 DEF pipe
  <2> QED BY <1>1, <2>1, <2>2, <2>3 DEF VideoInv, Stream
<1>7. Calls' /\ Covered'
  BY <1>1 DEF VideoInv, Calls, Covered, pipe, window
<1>8. VideoTypeOK'
  BY <1>1, <1>4, <1>5 DEF VideoInv, VideoTypeOK, window, LivePCs
<1> QED BY <1>2, <1>6, <1>7, <1>8 DEF VideoInv

\* The request for a window, and the one for the picture that was stored.
LEMMA PushInv ==
  ASSUME VideoInv, PushCreateOverlay \/ PushRenderImage
  PROVE  VideoInv'
<1> DEFINE e == IF video = "ask" THEN "create" ELSE "render"
<1>1. /\ video \in {"ask", "render"} /\ video' = "decode"
      /\ UNCHANGED pipe /\ UNCHANGED input /\ UNCHANGED <<main, window>>
      /\ events' = Append(events, e)
  BY DEF PushCreateOverlay, PushRenderImage, Push
<1>2. Pipe!IInv'
  BY <1>1, PipeSame
<1>3. /\ events \in Seq({"create", "render"}) /\ e \in {"create", "render"}
      /\ Len(out) \in Nat /\ Cardinality(Renders(events)) \in Nat
  BY VideoPipe
<1>4. /\ Cardinality(Renders(events')) =
           Cardinality(Renders(events)) + (IF e = "render" THEN 1 ELSE 0)
      /\ events' \in Seq({"create", "render"})
  BY <1>1, <1>3, RenderPushed, AppendProperties
<1>5. Covered'
  <2>1. Len(out) <= Cardinality(Renders(events)) + (IF video = "render" THEN 1 ELSE 0)
    BY <1>1 DEF VideoInv, Covered
  <2>2. Len(out) <= Cardinality(Renders(events'))
    BY <1>1, <1>3, <1>4, <2>1
  <2>3. out' = out /\ Cardinality(Renders(events')) \in Nat
    BY <1>1, <1>3, <1>4 DEF pipe
  <2> QED BY <1>1, <2>2, <2>3 DEF Covered
<1>6. Calls' /\ Stream'
  BY <1>1 DEF VideoInv, Calls, Stream, pipe, input, window
<1>7. VideoTypeOK'
  BY <1>1, <1>4 DEF VideoInv, VideoTypeOK, input, window, LivePCs
<1> QED BY <1>2, <1>5, <1>6, <1>7 DEF VideoInv

\* dpipe_get has a buffer for the live555 thread: the main thread has one at most.
LEMMA GetBufferInv ==
  ASSUME VideoInv, GetBuffer
  PROVE  VideoInv'
<1>1. /\ video = "get" /\ video' = "scale"
      /\ UNCHANGED input /\ UNCHANGED <<events, main, window>>
  BY DEF GetBuffer
<1>2. Pipe!Get(Live)
  BY PipeSteps DEF GetBuffer
<1>3. /\ pc[Live] = "idle" /\ pc'[Live] \in {"writing", "null"} /\ pc'[Main] = pc[Main]
      /\ UNCHANGED <<frame, stored, loaded>>
      /\ out' = out \/ (out # <<>> /\ out' = Tail(out))
      /\ pc'[Live] = "null" => in = {} /\ out = <<>>
  BY <1>2, VideoPipe, Pipe!GetDoes DEF VideoInv
<1>4. stored + 1 <= units /\ stored < MaxUnits
  <2>1. stored + Len(buffer) + 1 <= units
    BY <1>1 DEF VideoInv, Stream
  <2> QED BY <2>1, VideoPipe
<1>5. Pipe!MayStart
  <2>1. {w \in {Live} : pc[w] = "writing"} = {}
    BY <1>3
  <2>2. Pipe!Cardinality({}) = 0
    <3>1. Pipe!Cardinality({}) = Cardinality({})
      BY DEF Pipe!Cardinality, Cardinality
    <3> QED BY <3>1, FS_EmptySet
  <2>3. stored + 0 < MaxUnits
    BY <1>4, VideoPipe
  <2> QED BY <2>1, <2>2, <2>3 DEF Pipe!MayStart
<1>6. Pipe!IInv'
  BY <1>2, <1>5, VideoPipe, Pipe!WriterInv DEF VideoInv
<1>7. pc'[Live] # "null"
  <2> SUFFICES ASSUME in = {}, out = <<>> PROVE FALSE
    BY <1>3
  <2>1. \A b \in Buffers : held[Live] = b \/ held[Main] = b
    BY VideoPipe
  <2>2. held[Live] = NoBuffer
    BY <1>3, VideoPipe
  <2>3. IsFiniteSet(Buffers) /\ Cardinality(Buffers) > 1 /\ NoBuffer \notin Buffers
    BY ClientVideoAssumption
  <2>4. PICK b \in Buffers : b # held[Main]
    BY <2>3, TwoBuffers
  <2> QED BY <2>1, <2>2, <2>3, <2>4
<1>8. Len(out') \in Nat /\ Len(out') <= Len(out)
  <2>1. out # <<>> => Len(Tail(out)) = Len(out) - 1 /\ Len(out) \in Nat \ {0}
    BY VideoPipe, HeadTailProperties, EmptySeq
  <2>2. Len(out) \in Nat
    BY VideoPipe
  <2>3. CASE out' = out
    BY <2>2, <2>3
  <2>4. CASE out # <<>> /\ out' = Tail(out)
    BY <2>1, <2>2, <2>4
  <2> QED BY <1>3, <2>3, <2>4
<1>9. Covered'
  <2>1. Len(out) <= Cardinality(Renders(events)) + 0
    BY <1>1 DEF VideoInv, Covered
  <2>2. Len(out') <= Cardinality(Renders(events)) + 0
    BY <1>8, <2>1, VideoPipe
  <2> QED BY <1>1, <2>2 DEF Covered
<1>10. Calls' /\ Stream'
  BY <1>1, <1>3, <1>7 DEF VideoInv, Calls, Stream, input, window
<1>11. VideoTypeOK'
  BY <1>1 DEF VideoInv, VideoTypeOK, input, window, LivePCs
<1> QED BY <1>6, <1>9, <1>10, <1>11 DEF VideoInv

\* A stored picture waits for the request that is to come.
LEMMA StorePictureInv ==
  ASSUME VideoInv, StorePicture
  PROVE  VideoInv'
<1>1. /\ video = "scale" /\ video' = "stored"
      /\ UNCHANGED input /\ UNCHANGED <<events, main, window>>
  BY DEF StorePicture
<1>2. Pipe!Store(Live, stored + 1)
  BY PipeSteps DEF StorePicture
<1>3. /\ pc'[Live] = "signalling" /\ pc'[Main] = pc[Main]
      /\ held[Live] \in Buffers /\ out' = Append(out, held[Live])
      /\ stored' = stored + 1
  BY <1>2, VideoPipe, Pipe!StoreDoes DEF VideoInv
<1>4. stored + 1 \in 0..MaxUnits
  BY <1>2, VideoPipe, Pipe!MayStore DEF VideoInv
<1>5. Pipe!IInv'
  BY <1>2, <1>4, VideoPipe, Pipe!WriterInv DEF VideoInv
<1>6. Covered'
  <2>1. Len(out') = Len(out) + 1
    BY <1>3, VideoPipe, AppendProperties
  <2>2. Len(out) <= Cardinality(Renders(events)) + 0
    BY <1>1 DEF VideoInv, Covered
  <2>3. Len(out') <= Cardinality(Renders(events)) + 1
    BY <2>1, <2>2, VideoPipe
  <2> QED BY <1>1, <2>3 DEF Covered
<1>7. Stream'
  <2>1. stored + Len(buffer) + 1 <= units
    BY <1>1 DEF VideoInv, Stream
  <2>2. stored' + Len(buffer) + 0 <= units
    BY <1>3, <2>1, VideoPipe
  <2> QED BY <1>1, <2>2 DEF VideoInv, Stream, input
<1>8. Calls'
  BY <1>1, <1>3 DEF VideoInv, Calls, window
<1>9. VideoTypeOK'
  BY <1>1 DEF VideoInv, VideoTypeOK, input, window, LivePCs
<1> QED BY <1>5, <1>6, <1>7, <1>8, <1>9 DEF VideoInv

\* No thread waits in this pipe, so the signal wakes nobody.
LEMMA SignalStoredInv ==
  ASSUME VideoInv, SignalStored
  PROVE  VideoInv'
<1>1. /\ video = "stored" /\ video' = "render"
      /\ UNCHANGED input /\ UNCHANGED <<events, main, window>>
  BY DEF SignalStored
<1>2. Pipe!Signal(Live)
  BY PipeSteps DEF SignalStored
<1>3. /\ pc'[Live] = "idle"
      /\ pc'[Main] = pc[Main] \/ pc[Main] = "waiting"
      /\ UNCHANGED <<out, stored>>
  BY <1>2, VideoPipe, Pipe!SignalDoes DEF VideoInv
<1>4. Pipe!IInv'
  BY <1>2, VideoPipe, Pipe!WriterInv DEF VideoInv
<1>5. Calls' /\ Stream' /\ Covered'
  BY <1>1, <1>3 DEF VideoInv, Calls, Stream, Covered, input, window
<1>6. VideoTypeOK'
  BY <1>1 DEF VideoInv, VideoTypeOK, input, window, LivePCs
<1> QED BY <1>4, <1>5, <1>6 DEF VideoInv

\* The main thread takes an event, of which a request to render is one less.
LEMMA EventTaken ==
  ASSUME VideoInv, NEW e \in {"create", "render"}, Take(e)
  PROVE  /\ main = "wait" /\ events' \in Seq({"create", "render"})
         /\ Cardinality(Renders(events')) \in Nat
         /\ Cardinality(Renders(events')) =
              Cardinality(Renders(events)) - (IF e = "render" THEN 1 ELSE 0)
<1>1. /\ main = "wait" /\ events # <<>> /\ Head(events) = e /\ events' = Tail(events)
  BY DEF Take
<1>2. events \in Seq({"create", "render"})
  BY VideoPipe
<1>3. Tail(events) \in Seq({"create", "render"})
  BY <1>1, <1>2, HeadTailProperties
<1>4. Cardinality(Renders(Tail(events))) =
        Cardinality(Renders(events)) - (IF e = "render" THEN 1 ELSE 0)
  BY <1>1, <1>2, RenderTaken
<1>5. Cardinality(Renders(Tail(events))) \in Nat
  BY <1>3, SomeRenders
<1> QED BY <1>1, <1>3, <1>4, <1>5

\* A window is made only when there is none.
LEMMA OverlayInv ==
  ASSUME VideoInv, CreateOverlay \/ SetOverlay
  PROVE  VideoInv'
<1>1. UNCHANGED pipe /\ UNCHANGED <<input, video>>
  BY DEF CreateOverlay, SetOverlay
<1>2. Pipe!IInv'
  BY <1>1, PipeSame
<1>3. Stream'
  BY <1>1 DEF VideoInv, Stream, pipe, input
<1>4. CASE CreateOverlay
  <2>1. /\ main' \in {"wait", "create"} /\ (main' = "create" => ~surface)
        /\ UNCHANGED <<created, surface>> /\ Take("create")
    BY <1>4 DEF CreateOverlay, window
  <2>2. /\ main = "wait" /\ events' \in Seq({"create", "render"})
        /\ Cardinality(Renders(events')) = Cardinality(Renders(events))
    BY <2>1, EventTaken, VideoPipe
  <2>3. Calls' /\ Covered'
    BY <1>1, <2>1, <2>2 DEF VideoInv, Calls, Covered, pipe
  <2>4. VideoTypeOK'
    BY <1>1, <2>1, <2>2 DEF VideoInv, VideoTypeOK, input
  <2> QED BY <1>2, <1>3, <2>3, <2>4 DEF VideoInv
<1>5. CASE SetOverlay
  <2>1. /\ main = "create" /\ main' = "wait" /\ created' = created + 1 /\ surface' = TRUE
        /\ events' = events
    BY <1>5 DEF SetOverlay
  <2>2. ~surface /\ created = 0
    BY <2>1 DEF VideoInv, Calls, VideoTypeOK
  <2>3. Calls' /\ Covered'
    BY <1>1, <2>1 DEF VideoInv, Calls, Covered, pipe
  <2>4. VideoTypeOK'
    BY <1>1, <2>1, <2>2 DEF VideoInv, VideoTypeOK, input
  <2> QED BY <1>2, <1>3, <2>3, <2>4 DEF VideoInv
<1> QED BY <1>4, <1>5

\* A request renders a picture, if there is one: as many pictures as requests
\* remain, or none.
LEMMA RenderImageInv ==
  ASSUME VideoInv, RenderImage
  PROVE  VideoInv'
<1>1. /\ UNCHANGED <<input, video, window>> /\ Take("render")
      /\ main' = IF pc'[Main] = "reading" THEN "render" ELSE "wait"
      /\ P!LoadNowait(Main)
  BY DEF RenderImage
<1>2. /\ main = "wait" /\ events' \in Seq({"create", "render"})
      /\ Cardinality(Renders(events')) \in Nat
      /\ Cardinality(Renders(events')) = Cardinality(Renders(events)) - 1
  BY <1>1, EventTaken
<1>3. main' \in {"wait", "render"}
  BY <1>1
<1>4. VideoTypeOK'
  BY <1>1, <1>2, <1>3 DEF VideoInv, VideoTypeOK, input, window
<1>5. CASE P!Load(Main)
  <2>1. Pipe!Read(Main) /\ Pipe!Load(Main)
    BY <1>5, PipeSteps DEF Pipe!Read
  <2>2. Pipe!IInv'
    BY <2>1, VideoPipe, Pipe!ReaderInv DEF VideoInv
  <2>3. /\ pc'[Live] = pc[Live] /\ stored' = stored
        /\ pc'[Main] = "reading" /\ out # <<>> /\ out' = Tail(out)
    <3>1. Main \notin {} /\ out # <<>>
      BY <2>1 DEF Pipe!Load
    <3>2. ~Pipe!Wait(Main)
      BY <3>1 DEF Pipe!Wait
    <3> QED BY <2>1, <3>1, <3>2, VideoPipe, Pipe!ReadDoes DEF VideoInv
  <2>4. Calls' /\ Stream'
    BY <1>1, <2>3 DEF VideoInv, Calls, Stream, input, window
  <2>5. Covered'
    <3>1. Len(out') = Len(out) - 1 /\ Len(out) \in Nat \ {0}
      BY <2>3, VideoPipe, HeadTailProperties, EmptySeq
    <3>2. Len(out) <= Cardinality(Renders(events))
                        + (IF video \in {"stored", "render"} THEN 1 ELSE 0)
      BY DEF VideoInv, Covered
    <3>3. Len(out') <= Cardinality(Renders(events'))
                         + (IF video \in {"stored", "render"} THEN 1 ELSE 0)
      BY <1>2, <3>1, <3>2, VideoPipe
    <3> QED BY <1>1, <3>3 DEF Covered
  <2> QED BY <1>4, <2>2, <2>4, <2>5 DEF VideoInv
<1>6. CASE ~P!Load(Main)
  <2>1. out = <<>> /\ UNCHANGED <<in, out, frame, held, pc, stored, loaded>>
    BY <1>1, <1>6 DEF P!LoadNowait, P!vars
  <2>2. Pipe!IInv'
    BY <2>1, PipeSame DEF pipe
  <2>3. pc'[Main] = "idle" /\ main' = "wait"
    BY <1>1, <1>2, <2>1 DEF VideoInv, Calls
  <2>4. Calls' /\ Stream'
    BY <1>1, <2>1, <2>3 DEF VideoInv, Calls, Stream, input, window
  <2>5. Covered'
    <3>1. Len(out') = 0
      BY <2>1, EmptySeq
    <3> QED BY <1>2, <3>1 DEF Covered
  <2> QED BY <1>4, <2>2, <2>4, <2>5 DEF VideoInv
<1> QED BY <1>5, <1>6

\* The rendered buffer goes back to the pool.
LEMMA PutImageInv ==
  ASSUME VideoInv, PutImage
  PROVE  VideoInv'
<1>1. /\ main = "render" /\ main' = "wait"
      /\ UNCHANGED <<input, video, events, window>>
  BY DEF PutImage
<1>2. Pipe!Put(Main)
  BY PipeSteps DEF PutImage
<1>3. Pipe!IInv'
  BY <1>2, VideoPipe, Pipe!ReaderInv DEF VideoInv
<1>4. pc'[Main] = "idle" /\ pc'[Live] = pc[Live] /\ UNCHANGED <<out, stored>>
  BY <1>2, VideoPipe, Pipe!PutDoes DEF VideoInv
<1>5. Calls' /\ Stream' /\ Covered'
  BY <1>1, <1>4 DEF VideoInv, Calls, Stream, Covered, input, window
<1>6. VideoTypeOK'
  BY <1>1 DEF VideoInv, VideoTypeOK, input, window
<1> QED BY <1>3, <1>5, <1>6 DEF VideoInv

\* Every step keeps the invariant.
LEMMA VideoNextInv ==
  ASSUME VideoInv, [VideoNext]_videoVars
  PROVE  VideoInv'
<1>1. CASE LiveStep
  BY <1>1, CopyInv, LiveMovesInv, DecodeInv, PushInv, GetBufferInv, StorePictureInv,
    SignalStoredInv DEF LiveStep, Decoding
<1>2. CASE MainStep
  BY <1>2, OverlayInv, RenderImageInv, PutImageInv DEF MainStep
<1>3. CASE UNCHANGED videoVars
  <2>1. /\ UNCHANGED <<in, out, frame, held, pc, stored, loaded>>
        /\ UNCHANGED <<ready, units, buffer, decoded, packet, video, events, main>>
        /\ UNCHANGED <<created, surface>>
    BY <1>3 DEF videoVars, pipe, input, window
  <2>2. Pipe!IInv'
    BY <2>1, PipeSame DEF pipe
  <2> QED BY <2>1, <2>2 DEF VideoInv, VideoTypeOK, Calls, Stream, Covered
<1> QED BY <1>1, <1>2, <1>3, LiveMovesInv DEF VideoNext

\* At first the pipe, the buffer and the event queue are empty.
LEMMA VideoInitInv ==
  ASSUME VideoInit
  PROVE  VideoInv
<1>1. Pipe!Init /\ Pipe!DPipeAssumption
  BY PipeAssumed DEF VideoInit, P!Init, Pipe!Init, P!Threads, Pipe!Threads
<1>2. Pipe!IInv
  BY <1>1, Pipe!InitInv
<1>3. /\ out = <<>> /\ pc[Live] = "idle" /\ pc[Main] = "idle" /\ stored = 0
  BY <1>1 DEF Pipe!Init, Pipe!Threads
<1>4. /\ <<>> \in Seq(1..MaxUnits) /\ <<>> \in Seq({"create", "render"}) /\ Len(<<>>) = 0
  BY EmptySeq
<1>5. 0 \in 0..MaxUnits
  BY ClientVideoAssumption
<1>6. VideoTypeOK
  <2>1. /\ ready = FALSE /\ units = 0 /\ buffer = <<>> /\ decoded = <<>>
        /\ packet = NoPacket /\ video = "start" /\ main = "wait"
        /\ events = <<>> /\ created = 0 /\ ~surface
    BY DEF VideoInit
  <2>2. created = (IF surface THEN 1 ELSE 0)
    BY <2>1
  <2> QED BY <1>4, <1>5, <2>1, <2>2 DEF VideoTypeOK, LivePCs
<1>7. Calls /\ Stream
  BY <1>3, <1>4 DEF VideoInit, Calls, Stream
<1>8. Covered
  <2>1. Cardinality(Renders(<<>>)) \in Nat
    BY <1>4, SomeRenders
  <2> QED BY <1>3, <1>4, <2>1 DEF VideoInit, Covered
<1> QED BY <1>2, <1>6, <1>7, <1>8 DEF VideoInv

\* The invariant holds of both threads and the pipe, for any units, packets,
\* pool of two buffers or more and decoder buffer.
THEOREM VideoInvariance == VideoSpec => []VideoInv
<1>1. VideoInit => VideoInv
  BY VideoInitInv
<1>2. VideoInv /\ [VideoNext]_videoVars => VideoInv'
  BY VideoNextInv
<1> QED BY <1>1, <1>2, PTL DEF VideoSpec

\* The live555 thread, which does not look at what dpipe_get returns, is never
\* given NULL, and no buffer is lost or shared.
THEOREM PoolSuffices == VideoSpec => []PoolServes
<1>1. VideoInv => PoolServes
  <2> SUFFICES ASSUME VideoInv PROVE PoolServes
    OBVIOUS
  <2>1. P!Conserved
    <3>1. Pipe!Conserved
      BY DEF VideoInv, Pipe!IInv
    <3> QED BY <3>1 DEF Pipe!Conserved, P!Conserved, Pipe!TypeOK, P!TypeOK,
          Pipe!Threads, P!Threads, Pipe!WriterPCs, P!WriterPCs, Pipe!ReaderPCs,
          P!ReaderPCs, Pipe!Awake, P!Awake
  <2>2. pc[Live] # "null"
    BY DEF VideoInv, Calls
  <2> QED BY <2>1, <2>2 DEF VideoInv, PoolServes
<1> QED BY <1>1, VideoInvariance, PTL

\* No picture is in the pipe without a request of its own, which is queued or
\* about to be.
THEOREM PicturesHaveRequests == VideoSpec => []RendersCovered
<1>1. VideoInv => RendersCovered
  <2> SUFFICES ASSUME VideoInv PROVE RendersCovered
    OBVIOUS
  <2>1. \A S : Cardinality(S) = Cardinality(S)
    BY DEF Cardinality, Cardinality
  <2>2. Cardinality({s \in {"stored", "render"} : video = s}) =
          (IF video \in {"stored", "render"} THEN 1 ELSE 0)
    <3>1. CASE video \in {"stored", "render"}
      <4>1. {s \in {"stored", "render"} : video = s} = {video}
        BY <3>1
      <4> QED BY <3>1, <4>1, FS_Singleton
    <3>2. CASE video \notin {"stored", "render"}
      <4>1. {s \in {"stored", "render"} : video = s} = {}
        BY <3>2
      <4> QED BY <3>2, <4>1, FS_EmptySet
    <3> QED BY <3>1, <3>2
  <2>3. Requests = Cardinality(Renders(events))
    BY <2>1 DEF Requests, Renders
  <2> QED BY <2>1, <2>2, <2>3 DEF VideoInv, Covered, RendersCovered
<1> QED BY <1>1, VideoInvariance, PTL

\* The decoder buffer implements SampleFifo: a packet that is copied or lost is
\* Capture, decoding is Read, and the start and the end of the stream are Turn.
THEOREM DecodesInOrder == VideoSpec => DecodeSpec
<1>1. VideoInit => Fifo!Init
  BY DEF VideoInit, Fifo!Init
<1>2. VideoInv /\ [VideoNext]_videoVars => [Fifo!Next]_(Fifo!vars)
  <2> SUFFICES ASSUME VideoInv, [VideoNext]_videoVars
               PROVE  Fifo!Next \/ UNCHANGED Fifo!vars
    OBVIOUS
  <2>1. ASSUME UNCHANGED <<ready, units, buffer, decoded>>
        PROVE  UNCHANGED Fifo!vars
    BY <2>1 DEF Fifo!vars
  <2>2. CASE Copy
    <3>1. packet.units \in Sizes /\ packet.units \in Nat \ {0}
          /\ units + packet.units \in 0..MaxUnits
      BY <2>2, PacketUnits DEF Copy
    <3>2. units + packet.units <= MaxUnits
      BY <3>1, VideoPipe
    <3>3. ready
      BY <2>2 DEF Copy, VideoInv, Stream
    <3>4. Fifo!Chunk(packet.units) = Units
      BY DEF Fifo!Chunk, Units
    <3>5. Len(buffer) + packet.units <= Space \/ Len(buffer) + packet.units > Space
      BY <3>1, VideoPipe, ClientVideoAssumption
    <3>6. Fifo!Capture(packet.units)
      BY <2>2, <3>2, <3>3, <3>4, <3>5 DEF Copy, Fits, Fifo!Capture
    <3> QED BY <3>1, <3>6 DEF Fifo!Next
  <2>3. ASSUME NEW n \in 1..Space, Decode(n)
        PROVE  Fifo!Next
    <3>1. ready /\ n <= Len(buffer) /\ n \in 0..Space
      BY <2>3, VideoPipe, ClientVideoAssumption DEF Decode, VideoInv, Stream
    <3>2. Fifo!Read(n)
      BY <2>3, <3>1 DEF Decode, Fifo!Read
    <3> QED BY <3>1, <3>2 DEF Fifo!Next
  <2>4. CASE InitDecoderBuffer
    <3>1. Fifo!Turn(TRUE)
      BY <2>4 DEF InitDecoderBuffer, Fifo!Turn
    <3> QED BY <3>1 DEF Fifo!Next
  <2>5. CASE EndStream
    <3>1. Fifo!Turn(FALSE)
      BY <2>5 DEF EndStream, Fifo!Turn
    <3> QED BY <3>1 DEF Fifo!Next
  <2>6. ASSUME NEW p \in Packets, NEW newPts \in BOOLEAN, PlayVideo(p, newPts)
        PROVE  UNCHANGED Fifo!vars
    BY <2>1, <2>6 DEF PlayVideo
  <2>7. CASE DropVideoFrame \/ LeaveDecode \/ GotPicture
               \/ PushCreateOverlay \/ GetBuffer \/ StorePicture
               \/ SignalStored \/ PushRenderImage \/ Exit
    BY <2>1, <2>7 DEF DropVideoFrame, LeaveDecode, GotPicture,
      PushCreateOverlay, GetBuffer, StorePicture, SignalStored,
      PushRenderImage, Exit, input
  <2>8. CASE MainStep
    BY <2>1, <2>8 DEF MainStep, CreateOverlay, SetOverlay,
      RenderImage, PutImage, input
  <2>9. CASE UNCHANGED videoVars
    BY <2>1, <2>9 DEF videoVars, input
  <2> QED BY <2>2, <2>3, <2>4, <2>5, <2>6, <2>7, <2>8, <2>9
        DEF VideoNext, LiveStep, Decoding
<1> QED BY <1>1, <1>2, VideoInvariance, PTL DEF VideoSpec, DecodeSpec, Fifo!Spec
=============================================================================
