-------------------------- MODULE AudioBufferProofs --------------------------
(***************************************************************************)
(* Proofs about the audio buffer, for every size of the buffer, of what is *)
(* captured and of what is asked for: its count and its two positions      *)
(* agree, only an allocated buffer is filled, and it implements SampleFifo.*)
(***************************************************************************)
EXTENDS AudioBuffer, SequenceTheorems, TLAPS

\* Where the encoder thread is tells whether its buffer exists and is registered
\* and that the capture thread is not in it; a buffer is registered empty.
Session ==
  /\ allocated <=> rpc # "none"
  /\ rpc \in {"none", "register", "free"} => ~registered /\ fpc = "idle"
  /\ rpc \in {"purge", "idle", "waiting", "woken"} => registered
  /\ rpc = "register" => bframes = 0
  /\ rpc \in {"waiting", "woken"} => want \in Wants

IInv == Accounted /\ FillsAllocated /\ Session
-----------------------------------------------------------------------------
\* The parameters are numbers.
LEMMA Numbers ==
  /\ BufSize \in Nat /\ BufSize > 0 /\ MaxFrames \in Nat
  /\ \A n \in Chunks : n \in Nat /\ n > 0
  /\ \A n \in Wants : n \in Nat /\ n > 0
BY AudioBufferAssumption

\* A function on 1..n is a sequence of length n.
LEMMA IsSequence ==
  ASSUME NEW S, NEW n \in Nat, NEW f \in [1..n -> S]
  PROVE  f \in Seq(S) /\ Len(f) = n
OBVIOUS

\* Storing a chunk keeps it within the buffer and the counts in agreement.
LEMMA StoreFits ==
  ASSUME Accounted, NEW n \in Chunks, FillStore(n), captured + n <= MaxFrames
  PROVE  /\ buffer' \in [Positions -> 0..MaxFrames]
         /\ bufhead' \in 0..BufSize /\ buftail' \in 0..BufSize /\ bframes' \in 0..BufSize
         /\ bufhead' <= buftail' /\ bframes' = buftail' - bufhead'
         /\ Base(n) = bufhead' + bframes /\ Base(n) + n <= BufSize
         /\ Shift(n) \in 0..bufhead /\ bufhead' = bufhead - Shift(n)
<1>1. /\ bufhead \in Nat /\ buftail \in Nat /\ bframes = buftail - bufhead
      /\ bufhead <= buftail /\ buftail <= BufSize /\ captured \in Nat
      /\ n \in Nat /\ n > 0 /\ BufSize \in Nat /\ MaxFrames \in Nat
  BY Numbers DEF Accounted, TypeOK
<1>2. n <= bufhead + (BufSize - buftail)
  <2>1. ~(n > bufhead + (BufSize - buftail))
    BY DEF FillStore, Overflows, Headspace, Tailspace
  <2> QED BY <1>1, <2>1
<1>3. /\ Shift(n) \in 0..bufhead
      /\ Shift(n) = 0 => n <= BufSize - buftail
      /\ Shift(n) = 0 \/ Shift(n) = bufhead
  BY <1>1, <1>2 DEF Shift, Tailspace
<1>4. Base(n) = buftail - Shift(n) /\ Base(n) \in Nat /\ Base(n) + n <= BufSize
  BY <1>1, <1>2, <1>3 DEF Base
<1>5. /\ bufhead' = bufhead - Shift(n) /\ buftail' = Base(n) + n /\ bframes' = bframes + n
  BY DEF FillStore
<1>6. /\ bufhead' \in 0..BufSize /\ buftail' \in 0..BufSize /\ bframes' \in 0..BufSize
      /\ bufhead' <= buftail' /\ bframes' = buftail' - bufhead'
      /\ Base(n) = bufhead' + bframes
  BY <1>1, <1>3, <1>4, <1>5
<1>7. buffer' \in [Positions -> 0..MaxFrames]
  <2> DEFINE v(p) == IF p < Base(n) THEN buffer[p + Shift(n)]
                     ELSE IF p < Base(n) + n THEN captured + 1 + p - Base(n)
                     ELSE buffer[p]
  <2>1. buffer' = [p \in Positions |-> v(p)]
    BY DEF FillStore
  <2>2. buffer \in [Positions -> 0..MaxFrames]
    BY DEF Accounted, TypeOK
  <2>3. ASSUME NEW p \in Positions
        PROVE  v(p) \in 0..MaxFrames
    <3>1. p \in Nat /\ p < BufSize
      BY <1>1 DEF Positions
    <3>2. CASE p < Base(n)
      <4>1. p + Shift(n) \in Positions
        BY <3>1, <3>2, <1>1, <1>3, <1>4 DEF Positions
      <4> QED BY <4>1, <3>2, <2>2
    <3>3. CASE p >= Base(n) /\ p < Base(n) + n
      <4>1. captured + 1 + p - Base(n) \in 0..MaxFrames
        BY <3>1, <3>3, <1>1, <1>4
      <4>2. v(p) = captured + 1 + p - Base(n)
        BY <3>1, <3>3, <1>1, <1>4
      <4> QED BY <4>1, <4>2
    <3>4. CASE p >= Base(n) + n
      <4>1. v(p) = buffer[p]
        BY <3>1, <3>4, <1>1, <1>4
      <4> QED BY <4>1, <2>2
    <3> QED BY <3>1, <3>2, <3>3, <3>4, <1>1, <1>4
  <2> HIDE DEF v
  <2> QED BY <2>1, <2>3
<1> QED BY <1>3, <1>4, <1>5, <1>6, <1>7

\* What a read takes is there.
LEMMA Copies ==
  ASSUME Accounted, NEW n \in Nat
  PROVE  Copied(n) \in 0..bframes /\ bufhead + Copied(n) <= buftail
BY Numbers DEF Accounted, TypeOK, Copied

\* A read keeps the counts in agreement.
LEMMA TakeFits ==
  ASSUME Accounted, NEW n \in Nat, Take(n)
  PROVE  Accounted'
<1>1. /\ bufhead \in 0..BufSize /\ buftail \in 0..BufSize /\ bframes = buftail - bufhead
      /\ bframes \in Nat /\ bufhead <= buftail /\ BufSize \in Nat
      /\ buffer \in [Positions -> 0..MaxFrames]
  BY Numbers DEF Accounted, TypeOK
<1>2. Copied(n) \in Nat /\ Copied(n) <= bframes
  BY <1>1, Copies
<1>3. \A i \in 1..Copied(n) : bufhead + i - 1 \in Positions
  BY <1>1, <1>2 DEF Positions
<1>4. got' \in Seq(0..MaxFrames)
  <2>1. \A i \in 1..Copied(n) : buffer[bufhead + i - 1] \in 0..MaxFrames
    BY <1>1, <1>3
  <2>2. got' = [i \in 1..Copied(n) |-> buffer[bufhead + i - 1]]
    BY DEF Take
  <2>3. got' \in [1..Copied(n) -> 0..MaxFrames]
    BY <2>1, <2>2
  <2> QED BY <1>2, <2>3, IsSequence
<1>5. /\ bframes' = bframes - Copied(n)
      /\ bufhead' = IF Copied(n) = bframes THEN 0 ELSE bufhead + Copied(n)
      /\ buftail' = IF Copied(n) = bframes THEN 0 ELSE buftail
  BY DEF Take
<1>6. /\ bufhead' \in 0..BufSize /\ buftail' \in 0..BufSize /\ bframes' \in 0..BufSize
      /\ bufhead' <= buftail' /\ bframes' = buftail' - bufhead'
  BY <1>1, <1>2, <1>5
<1>7. TypeOK'
  BY <1>4, <1>6 DEF Accounted, TypeOK, Take
<1> QED BY <1>6, <1>7 DEF Accounted

\* At first there is no buffer.
LEMMA InitInv == Init => IInv
<1> SUFFICES ASSUME Init PROVE IInv
  OBVIOUS
<1>1. TypeOK
  <2>1. 0 \in 0..MaxFrames /\ 0 \in 0..BufSize
    BY Numbers
  <2>2. buffer \in [Positions -> 0..MaxFrames] /\ got \in Seq(0..MaxFrames)
    BY <2>1, EmptySeq DEF Init
  <2> QED BY <2>1, <2>2 DEF Init, TypeOK
<1> QED BY <1>1 DEF Init, IInv, Accounted, FillsAllocated, Session

\* Every step keeps the invariant.
LEMMA NextInv == IInv /\ [Next]_vars => IInv'
<1> SUFFICES ASSUME IInv, [Next]_vars PROVE IInv'
  OBVIOUS
<1>0. Accounted /\ TypeOK /\ FillsAllocated /\ Session
  BY DEF IInv, Accounted
<1>1. ASSUME NEW n \in Chunks, Fill(n)
      PROVE  IInv'
  <2>1. captured' \in 0..MaxFrames
    BY <1>0, <1>1, Numbers DEF Fill, TypeOK
  <2>2. CASE registered /\ FillStore(n) /\ fpc' = "signalling"
    <3>1. Accounted'
      BY <1>0, <1>1, <2>1, <2>2, StoreFits DEF Accounted, TypeOK, Fill
    <3>2. Session' /\ FillsAllocated'
      BY <1>0, <1>1, <2>2 DEF Session, FillsAllocated, Fill
    <3> QED BY <3>1, <3>2 DEF IInv
  <2>3. CASE registered /\ FillDrop(n) /\ fpc' = "signalling"
    <3>1. Accounted'
      BY <1>0, <1>1, <2>1, <2>3 DEF Accounted, TypeOK, Fill, FillDrop, bufvars
    <3>2. Session' /\ FillsAllocated'
      BY <1>0, <1>1, <2>3 DEF Session, FillsAllocated, Fill, FillDrop, bufvars
    <3> QED BY <3>1, <3>2 DEF IInv
  <2>4. CASE ~registered /\ UNCHANGED <<bufvars, fpc>>
    BY <1>0, <1>1, <2>1, <2>4
    DEF IInv, Accounted, TypeOK, Session, FillsAllocated, Fill, bufvars
  <2> QED BY <1>1, <2>2, <2>3, <2>4 DEF Fill
<1>2. CASE Signal
  BY <1>0, <1>2
  DEF IInv, Accounted, TypeOK, Session, FillsAllocated, Signal, bufvars
<1>3. CASE BufferInit
  BY <1>0, <1>3, Numbers
  DEF IInv, Accounted, TypeOK, Session, FillsAllocated, BufferInit, Empty
<1>4. CASE Register
  BY <1>0, <1>4
  DEF IInv, Accounted, TypeOK, Session, FillsAllocated, Register, CcmutexFree, bufvars
<1>5. CASE Purge
  BY <1>0, <1>5, Numbers
  DEF IInv, Accounted, TypeOK, Session, FillsAllocated, Purge, Empty
<1>6. ASSUME NEW n \in Wants, ReadNow(n)
      PROVE  IInv'
  <2>1. Accounted'
    BY <1>0, <1>6, Numbers, TakeFits DEF ReadNow
  <2> QED BY <1>0, <1>6, <2>1 DEF IInv, Session, FillsAllocated, ReadNow, Take
<1>7. ASSUME NEW n \in Wants, ReadWaits(n)
      PROVE  IInv'
  BY <1>0, <1>7
  DEF IInv, Accounted, TypeOK, Session, FillsAllocated, ReadWaits, bufvars
<1>8. CASE TimeOut
  BY <1>0, <1>8
  DEF IInv, Accounted, TypeOK, Session, FillsAllocated, TimeOut, bufvars
<1>9. CASE ReadWoken
  <2>1. Accounted'
    BY <1>0, <1>9, Numbers, TakeFits DEF ReadWoken, Session
  <2> QED BY <1>0, <1>9, <2>1 DEF IInv, Session, FillsAllocated, ReadWoken, Take
<1>10. CASE Unregister
  BY <1>0, <1>10
  DEF IInv, Accounted, TypeOK, Session, FillsAllocated, Unregister, CcmutexFree, bufvars
<1>11. CASE BufferDeinit
  BY <1>0, <1>11
  DEF IInv, Accounted, TypeOK, Session, FillsAllocated, BufferDeinit, bufvars
<1>12. CASE UNCHANGED vars
  BY <1>0, <1>12 DEF IInv, Accounted, TypeOK, Session, FillsAllocated, vars
<1> QED
  BY <1>1, <1>2, <1>3, <1>4, <1>5, <1>6, <1>7, <1>8, <1>9, <1>10, <1>11, <1>12
  DEF Next, Reader

\* The invariant holds in every state.
THEOREM Invariance == Spec => []IInv
BY InitInv, NextInv, PTL DEF Spec

\* The count of the frames and the two positions never disagree, and the head
\* never passes the tail.
THEOREM CountsAgree == Spec => []Accounted
<1>1. IInv => Accounted
  BY DEF IInv
<1> QED BY <1>1, Invariance, PTL

\* The capture thread is only ever in a buffer that exists.
THEOREM FillsOnlyAllocated == Spec => []FillsAllocated
<1>1. IInv => FillsAllocated
  BY DEF IInv
<1> QED BY <1>1, Invariance, PTL
-----------------------------------------------------------------------------
(***************************************************************************)
(* The buffer implements SampleFifo: its queue is what the buffer holds    *)
(* between the two positions, while it is registered.                      *)
(***************************************************************************)
Content == [i \in 1..bframes |-> buffer[bufhead + i - 1]]

\* What the buffer holds is a sequence of frames.
LEMMA ContentSeq ==
  ASSUME Accounted
  PROVE  /\ Content \in Seq(0..MaxFrames) /\ Len(Content) = bframes /\ bframes \in Nat
         /\ \A i \in 1..bframes : Content[i] = buffer[bufhead + i - 1]
<1>1. /\ bframes \in Nat /\ bufhead \in Nat /\ bufhead + bframes <= BufSize
      /\ BufSize \in Nat /\ buffer \in [Positions -> 0..MaxFrames]
  BY Numbers DEF Accounted, TypeOK
<1>2. \A i \in 1..bframes : bufhead + i - 1 \in Positions
  BY <1>1 DEF Positions
<1>3. Content \in [1..bframes -> 0..MaxFrames]
  BY <1>1, <1>2 DEF Content
<1> QED BY <1>1, <1>3 DEF Content

\* A chunk stored is appended whole, and what was there is moved unchanged.
LEMMA StoreAppends ==
  ASSUME Accounted, Accounted', NEW n \in Chunks, FillStore(n), captured + n <= MaxFrames
  PROVE  Content' = Content \o Samples!Chunk(n)
<1> DEFINE c == Samples!Chunk(n)
           k == bframes
<1>1. /\ bufhead \in Nat /\ k \in Nat /\ BufSize \in Nat
      /\ captured \in Nat /\ n \in Nat /\ n > 0 /\ MaxFrames \in Nat
      /\ bufhead + k <= BufSize
  BY Numbers DEF Accounted, TypeOK
<1>2. /\ Base(n) = bufhead' + k /\ Base(n) + n <= BufSize
      /\ Shift(n) \in 0..bufhead /\ bufhead' = bufhead - Shift(n)
  BY StoreFits
<1>3. /\ c \in Seq(0..MaxFrames) /\ Len(c) = n
      /\ \A i \in 1..n : c[i] = captured + i
  <2>1. c = [i \in 1..n |-> captured + i]
    BY DEF Samples!Chunk
  <2>2. \A i \in 1..n : captured + i \in 0..MaxFrames
    BY <1>1
  <2>3. c \in [1..n -> 0..MaxFrames]
    BY <2>1, <2>2
  <2> QED BY <1>1, <2>1, <2>3
<1>4. /\ Content \in Seq(0..MaxFrames) /\ Len(Content) = k
      /\ \A i \in 1..k : Content[i] = buffer[bufhead + i - 1]
  BY ContentSeq
<1>5. bframes' = k + n
  BY DEF FillStore
<1>6. /\ Content' \in Seq(0..MaxFrames) /\ Len(Content') = k + n
      /\ \A i \in 1..k+n : Content'[i] = buffer'[bufhead' + i - 1]
  <2>1. \A i \in 1..bframes' : bufhead' + i - 1 \in Positions
    BY <1>1, <1>2, <1>5 DEF Positions
  <2>2. Content' = [i \in 1..bframes' |-> buffer'[bufhead' + i - 1]]
    BY DEF Content
  <2>3. buffer' \in [Positions -> 0..MaxFrames]
    BY DEF Accounted, TypeOK
  <2>4. Content' \in [1..bframes' -> 0..MaxFrames]
    BY <2>1, <2>2, <2>3
  <2>5. bframes' \in Nat
    BY <1>1, <1>5
  <2>6. Content' \in Seq(0..MaxFrames) /\ Len(Content') = bframes'
    BY <2>4, <2>5, IsSequence
  <2> QED BY <2>2, <2>6, <1>5
<1> HIDE DEF c, k
<1>7. /\ Content \o c \in Seq(0..MaxFrames) /\ Len(Content \o c) = k + n
      /\ \A i \in 1..k+n : (Content \o c)[i] =
           IF i <= k THEN Content[i] ELSE c[i - k]
  BY <1>3, <1>4, ConcatProperties
<1>8. ASSUME NEW i \in 1..k+n
      PROVE  Content'[i] = (Content \o c)[i]
  <2> DEFINE p == bufhead' + i - 1
  <2>1. p \in Positions /\ i \in Nat /\ i > 0
    BY <1>1, <1>2 DEF Positions
  <2>2. buffer'[p] = IF p < Base(n) THEN buffer[p + Shift(n)]
                     ELSE IF p < Base(n) + n THEN captured + 1 + p - Base(n)
                     ELSE buffer[p]
    BY <2>1 DEF FillStore
  <2>3. CASE i <= k
    <3>1. p < Base(n) /\ p + Shift(n) = bufhead + i - 1 /\ i \in 1..k
      BY <1>1, <1>2, <2>1, <2>3
    <3>2. buffer'[p] = buffer[bufhead + i - 1]
      BY <2>2, <3>1
    <3>3. (Content \o c)[i] = Content[i]
      BY <2>3, <1>7
    <3>4. Content[i] = buffer[bufhead + i - 1]
      BY <3>1, <1>4
    <3>5. Content'[i] = buffer'[p]
      BY <1>6
    <3> HIDE DEF p
    <3> QED BY <3>2, <3>3, <3>4, <3>5
  <2>4. CASE i > k
    <3>1. /\ ~(p < Base(n)) /\ p < Base(n) + n
          /\ captured + 1 + p - Base(n) = captured + (i - k)
          /\ i - k \in 1..n
      BY <1>1, <1>2, <2>1, <2>4
    <3>2. buffer'[p] = captured + (i - k)
      BY <2>2, <3>1
    <3>3. (Content \o c)[i] = c[i - k]
      <4>1. ~(i <= k)
        BY <1>1, <2>1, <2>4
      <4>2. (Content \o c)[i] = IF i <= k THEN Content[i] ELSE c[i - k]
        BY <1>7
      <4> QED BY <4>1, <4>2
    <3>4. c[i - k] = captured + (i - k)
      BY <3>1, <1>3
    <3>5. Content'[i] = buffer'[p]
      BY <1>6
    <3> HIDE DEF p
    <3> QED BY <3>2, <3>3, <3>4, <3>5
  <2>5. i <= k \/ i > k
    BY <1>1, <2>1
  <2> QED BY <2>3, <2>4, <2>5
<1>9. Content' = Content \o c
  BY <1>6, <1>7, <1>8, SeqEqual
<1> QED BY <1>9 DEF c

\* A read takes the first frames and leaves the others.
LEMMA TakeSplits ==
  ASSUME Accounted, Accounted', NEW n \in Nat, Take(n)
  PROVE  /\ got' = SubSeq(Content, 1, Copied(n))
         /\ Content' = SubSeq(Content, Copied(n) + 1, Len(Content))
<1> DEFINE k == Copied(n)
<1>1. /\ bframes \in Nat /\ bufhead \in Nat /\ k \in Nat /\ k <= bframes
      /\ bframes' = bframes - k /\ bframes' \in Nat
      /\ k # bframes => bufhead' = bufhead + k
      /\ buffer' = buffer
      /\ got' = [i \in 1..k |-> buffer[bufhead + i - 1]]
  <2>1. bframes \in Nat /\ bufhead \in Nat
    BY Numbers DEF Accounted, TypeOK
  <2>2. k \in Nat /\ k <= bframes
    BY <2>1, Copies
  <2>3. /\ bframes' = bframes - k /\ buffer' = buffer
        /\ bufhead' = IF k = bframes THEN 0 ELSE bufhead + k
        /\ got' = [i \in 1..k |-> buffer[bufhead + i - 1]]
    BY DEF Take
  <2> HIDE DEF k
  <2> QED BY <2>1, <2>2, <2>3
<1>2. /\ Content \in Seq(0..MaxFrames) /\ Len(Content) = bframes
      /\ \A i \in 1..bframes : Content[i] = buffer[bufhead + i - 1]
      /\ \A i \in 1..bframes : Content[i] \in 0..MaxFrames
  BY ContentSeq, ElementOfSeq
<1> HIDE DEF k
<1>3. got' = SubSeq(Content, 1, k)
  <2>1. /\ SubSeq(Content, 1, k) \in Seq(0..MaxFrames) /\ Len(SubSeq(Content, 1, k)) = k
        /\ \A i \in 1..k : SubSeq(Content, 1, k)[i] = Content[i]
    BY <1>1, <1>2, SubSeqProperties
  <2>2. got' \in Seq(0..MaxFrames)
    BY DEF Accounted, TypeOK
  <2>3. Len(got') = k /\ \A i \in 1..k : got'[i] = Content[i]
    BY <1>1, <1>2
  <2> QED BY <2>1, <2>2, <2>3, SeqEqual
<1>4. Content' = SubSeq(Content, k + 1, Len(Content))
  <2> DEFINE S == SubSeq(Content, k + 1, bframes)
  <2>1. /\ S \in Seq(0..MaxFrames) /\ Len(S) = bframes - k
        /\ \A i \in 1..bframes-k : S[i] = Content[k + 1 + i - 1]
    <3>1. k + 1 \in Int /\ bframes \in Int
      BY <1>1
    <3>2. \A i \in k+1..bframes : Content[i] \in 0..MaxFrames
      BY <1>1, <1>2
    <3>3. /\ S \in Seq(0..MaxFrames)
          /\ Len(S) = IF k+1 <= bframes THEN bframes - (k+1) + 1 ELSE 0
          /\ \A i \in 1..bframes-(k+1)+1 : S[i] = Content[(k+1) + i - 1]
      BY <3>1, <3>2, SubSeqProperties
    <3> HIDE DEF S
    <3> QED BY <3>3, <1>1
  <2>2. /\ Content' \in Seq(0..MaxFrames) /\ Len(Content') = bframes - k
        /\ \A i \in 1..bframes-k : Content'[i] = buffer[bufhead' + i - 1]
    <3>1. Content' = [i \in 1..bframes-k |-> buffer[bufhead' + i - 1]]
      BY <1>1 DEF Content
    <3>2. ASSUME NEW i \in 1..bframes-k
          PROVE  buffer[bufhead' + i - 1] \in 0..MaxFrames
      <4>1. k # bframes /\ k + i \in 1..bframes /\ bufhead' + i - 1 = bufhead + (k + i) - 1
        BY <1>1
      <4> QED BY <4>1, <1>2
    <3>3. Content' \in [1..bframes-k -> 0..MaxFrames]
      BY <3>1, <3>2
    <3>4. bframes - k \in Nat
      BY <1>1
    <3>5. Content' \in Seq(0..MaxFrames) /\ Len(Content') = bframes - k
      BY <3>3, <3>4, IsSequence
    <3> QED BY <3>1, <3>5
  <2> HIDE DEF S
  <2>3. ASSUME NEW i \in 1..bframes-k
        PROVE  Content'[i] = S[i]
    <3>1. /\ k # bframes /\ k + i \in 1..bframes /\ k + 1 + i - 1 = k + i
          /\ bufhead' + i - 1 = bufhead + (k + i) - 1
      BY <1>1
    <3> QED BY <3>1, <1>2, <2>1, <2>2
  <2>4. Content' = S
    BY <2>1, <2>2, <2>3, SeqEqual
  <2> QED BY <2>4, <1>2 DEF S
<1> QED BY <1>3, <1>4 DEF k

\* A chunk that is captured is appended, dropped for want of space, or not for
\* an encoder that is not registered.
LEMMA FillRefines ==
  ASSUME IInv, IInv', NEW n \in Chunks, Fill(n)
  PROVE  Samples!Capture(n)
<1>1. /\ captured + n <= MaxFrames /\ captured' = captured + n
      /\ registered' = registered /\ got' = got
  BY DEF Fill
<1>2. /\ Accounted /\ Accounted' /\ n \in Nat /\ BufSize \in Nat
      /\ bframes \in Nat /\ bufhead \in Nat /\ buftail \in Nat
      /\ bframes = buftail - bufhead
  <2>1. Accounted /\ Accounted'
    BY DEF IInv
  <2>2. /\ bufhead \in 0..BufSize /\ buftail \in 0..BufSize /\ bframes \in 0..BufSize
        /\ bframes = buftail - bufhead
    BY <2>1 DEF Accounted, TypeOK
  <2> QED BY <2>1, <2>2, Numbers
<1>3. Overflows(n) <=> bframes + n > BufSize
  <2>1. n > bufhead + (BufSize - buftail) <=> bframes + n > BufSize
    BY <1>2
  <2> QED BY <2>1 DEF Overflows, Headspace, Tailspace
<1>4. CASE registered /\ FillStore(n)
  <2>1. Content' = Content \o Samples!Chunk(n)
    BY <1>1, <1>2, <1>4, StoreAppends
  <2>2. Len(Content) + n <= BufSize
    <3>1. ~(bframes + n > BufSize)
      BY <1>3, <1>4 DEF FillStore
    <3>2. Len(Content) = bframes
      BY <1>2, ContentSeq
    <3> QED BY <3>1, <3>2, <1>2
  <2> QED BY <1>1, <1>4, <2>1, <2>2 DEF Samples!Capture, Content
<1>5. CASE registered /\ FillDrop(n)
  <2>1. Content' = Content
    BY <1>5 DEF FillDrop, bufvars, Content
  <2>2. Len(Content) + n > BufSize
    BY <1>2, <1>3, <1>5, ContentSeq DEF FillDrop
  <2> QED BY <1>1, <1>5, <2>1, <2>2 DEF Samples!Capture, Content
<1>6. CASE ~registered
  BY <1>1, <1>6 DEF Samples!Capture
<1> QED BY <1>4, <1>5, <1>6 DEF Fill

\* Reading takes what is asked for, or all there is.
LEMMA TakeRefines ==
  ASSUME IInv, IInv', NEW n \in Nat, Take(n), registered
  PROVE  \E k \in 0..BufSize : Samples!Read(k)
<1>1. Accounted /\ Accounted' /\ bframes \in 0..BufSize
  BY DEF IInv, Accounted, TypeOK
<1>2. /\ got' = SubSeq(Content, 1, Copied(n))
      /\ Content' = SubSeq(Content, Copied(n) + 1, Len(Content))
  BY <1>1, TakeSplits
<1>3. registered' = registered /\ captured' = captured
  BY DEF Take
<1>4. Copied(n) \in 0..BufSize /\ Copied(n) <= Len(Content)
  BY <1>1, Copies, ContentSeq, Numbers
<1>5. PICK k \in 0..BufSize : k = Copied(n)
  BY <1>4
<1>6. Samples!Read(k)
  BY <1>2, <1>3, <1>4, <1>5 DEF Samples!Read, Content
<1> QED BY <1>6

\* The buffer is an implementation of SampleFifo: what the capture thread and
\* the encoder do to it together is captures, reads, and an encoder that joins,
\* starts afresh or leaves.
THEOREM ImplementsFifo == Spec => SamplesSpec
<1>1. Init => Samples!Init
  BY DEF Init, Samples!Init
<1>2. IInv /\ IInv' /\ [Next]_vars => [Samples!Next]_(Samples!vars)
  <2> SUFFICES ASSUME IInv, IInv', [Next]_vars
               PROVE  Samples!Next \/ UNCHANGED Samples!vars
    OBVIOUS
  <2>0. Session /\ Session' /\ registered \in BOOLEAN
    BY DEF IInv, Accounted, TypeOK
  <2>1. ASSUME NEW n \in Chunks, Fill(n)
        PROVE  Samples!Next
    BY <2>1, FillRefines DEF Samples!Next
  <2>2. ASSUME NEW n \in Wants, ReadNow(n)
        PROVE  Samples!Next
    <3>1. registered /\ Take(n) /\ n \in Nat
      BY <2>0, <2>2, Numbers DEF Session, ReadNow
    <3> QED BY <3>1, TakeRefines DEF Samples!Next
  <2>3. CASE ReadWoken
    <3>1. registered /\ Take(want) /\ want \in Nat
      BY <2>0, <2>3, Numbers DEF Session, ReadWoken
    <3> QED BY <3>1, TakeRefines DEF Samples!Next
  <2>4. CASE Register \/ Purge
    <3>1. registered' /\ bframes' = 0 /\ registered' = TRUE
      BY <2>0, <2>4 DEF Session, Register, Purge, Empty, bufvars
    <3>2. Content' = <<>>
      BY <3>1 DEF Content
    <3>3. captured' = captured /\ got' = got
      BY <2>4 DEF Register, Purge
    <3>4. Samples!Turn(TRUE)
      BY <3>1, <3>2, <3>3 DEF Samples!Turn, Content
    <3> QED BY <3>4 DEF Samples!Next
  <2>5. CASE Unregister
    <3>1. registered' = FALSE /\ captured' = captured /\ got' = got
      BY <2>5 DEF Unregister
    <3>2. Samples!Turn(FALSE)
      BY <3>1 DEF Samples!Turn
    <3> QED BY <3>2 DEF Samples!Next
  <2>6. CASE BufferInit \/ BufferDeinit
    <3>1. /\ ~registered /\ registered' = registered
          /\ captured' = captured /\ got' = got
      BY <2>0, <2>6 DEF Session, BufferInit, BufferDeinit
    <3> QED BY <3>1 DEF Samples!vars
  <2>7. ASSUME UNCHANGED <<registered, bufvars, captured, got>>
        PROVE  UNCHANGED Samples!vars
    BY <2>7 DEF bufvars, Samples!vars
  <2>8. CASE Signal \/ TimeOut \/ UNCHANGED vars
    BY <2>7, <2>8 DEF Signal, TimeOut, vars, bufvars
  <2>9. ASSUME NEW n \in Wants, ReadWaits(n)
        PROVE  UNCHANGED Samples!vars
    BY <2>7, <2>9 DEF ReadWaits
  <2> QED
    BY <2>1, <2>2, <2>3, <2>4, <2>5, <2>6, <2>8, <2>9 DEF Next, Reader
<1> QED BY <1>1, <1>2, Invariance, PTL DEF Spec, SamplesSpec, Samples!Spec
=============================================================================
