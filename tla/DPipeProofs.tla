---------------------------- MODULE DPipeProofs ----------------------------
(***************************************************************************)
(* Proofs about the frame pipe, for any number of buffers, writers and     *)
(* readers: no buffer is lost or shared, no wakeup is lost, NULL is given  *)
(* only when the threads have every buffer, and the pipe implements the    *)
(* channel of module FrameChannel.                                         *)
(***************************************************************************)
EXTENDS DPipe, SequenceTheorems, FiniteSetTheorems, TLAPS

Writing == {w \in Writers : pc[w] = "writing"}

\* The buffers are counted: those that are free, stored and held are all there
\* are, and a writer only starts a frame that it can store.
Counted ==
  /\ Cardinality(in) + Len(out) + Cardinality(Holders) = Cardinality(Buffers)
  /\ stored + Cardinality(Writing) <= MaxFrames

IInv == Conserved /\ Counted /\ NoLostWakeup
-----------------------------------------------------------------------------
\* Threads, of which there are finitely many, can be counted.
LEMMA SomeThreads ==
  ASSUME NEW S \in SUBSET Threads
  PROVE  IsFiniteSet(S) /\ Cardinality(S) \in Nat
<1>1. IsFiniteSet(S)
  BY FS_Subset, DPipeAssumption
<1> QED BY <1>1, FS_CardinalityType

\* The sets that are counted are finite.
LEMMA Finite ==
  ASSUME TypeOK
  PROVE  /\ IsFiniteSet(in) /\ Cardinality(in) \in Nat
         /\ IsFiniteSet(Holders) /\ Cardinality(Holders) \in Nat
         /\ IsFiniteSet(Writing) /\ Cardinality(Writing) \in Nat
         /\ IsFiniteSet(Alerts) /\ Cardinality(Alerts) \in Nat
         /\ Cardinality(Buffers) \in Nat /\ Len(out) \in Nat
<1>1. in \subseteq Buffers /\ Holders \subseteq Threads /\ Writing \subseteq Threads
      /\ Alerts \subseteq Threads
  BY DEF TypeOK, Holders, Writing, Alerts, Threads
<1>2. IsFiniteSet(in) /\ IsFiniteSet(Holders) /\ IsFiniteSet(Writing) /\ IsFiniteSet(Alerts)
  BY <1>1, FS_Subset, DPipeAssumption
<1>3. Len(out) \in Nat
  BY LenProperties DEF TypeOK
<1> QED BY <1>2, <1>3, FS_CardinalityType, DPipeAssumption

\* What is left of the output pool without its eldest frame.
LEMMA Eldest ==
  ASSUME TypeOK, out # <<>>
  PROVE  /\ Len(out) \in Nat \ {0} /\ 1 \in 1..Len(out)
         /\ Head(out) = out[1] /\ Head(out) \in Buffers
         /\ Tail(out) \in Seq(Buffers) /\ Len(Tail(out)) = Len(out) - 1
         /\ \A i \in 1..Len(Tail(out)) : Tail(out)[i] = out[i+1] /\ i+1 \in 1..Len(out)
<1>1. out \in Seq(Buffers)
  BY DEF TypeOK
<1>2. Len(out) \in Nat \ {0}
  BY <1>1, EmptySeq
<1>3. /\ Head(out) \in Buffers /\ Tail(out) \in Seq(Buffers) /\ Len(Tail(out)) = Len(out) - 1
      /\ \A i \in 1..Len(Tail(out)) : Tail(out)[i] = out[i+1]
  BY <1>1, HeadTailProperties
<1>4. Head(out) = out[1]
  BY <1>1
<1> QED BY <1>2, <1>3, <1>4

\* A thread that takes a buffer is one more holder.
LEMMA Takes ==
  ASSUME TypeOK, NEW t \in Threads, held[t] = NoBuffer, NEW b \in Buffers, Hold(t, b)
  PROVE  /\ Cardinality(Holders') = Cardinality(Holders) + 1
         /\ held' \in [Threads -> Buffers \cup {NoBuffer}]
         /\ held'[t] = b /\ \A u \in Threads : u # t => held'[u] = held[u]
<1>1. /\ held' \in [Threads -> Buffers \cup {NoBuffer}]
      /\ held'[t] = b /\ \A u \in Threads : u # t => held'[u] = held[u]
  BY DEF TypeOK, Hold
<1>2. Holders' = Holders \cup {t} /\ t \notin Holders
  BY <1>1, DPipeAssumption DEF Holders
<1> QED BY <1>1, <1>2, Finite, FS_AddElement

\* A thread that gives its buffer away is one holder less.
LEMMA Releases ==
  ASSUME TypeOK, NEW t \in Threads, held[t] # NoBuffer, Release(t)
  PROVE  /\ Cardinality(Holders') = Cardinality(Holders) - 1
         /\ held' \in [Threads -> Buffers \cup {NoBuffer}]
         /\ held'[t] = NoBuffer /\ \A u \in Threads : u # t => held'[u] = held[u]
<1>1. /\ held' \in [Threads -> Buffers \cup {NoBuffer}]
      /\ held'[t] = NoBuffer /\ \A u \in Threads : u # t => held'[u] = held[u]
  BY DEF TypeOK, Release, Hold
<1>2. Holders' = Holders \ {t} /\ t \in Holders
  BY <1>1 DEF Holders
<1> QED BY <1>1, <1>2, Finite, FS_RemoveElement

\* Where the threads are after one of them has moved.
LEMMA Moves ==
  ASSUME TypeOK, NEW t \in Threads, NEW s \in WriterPCs \cup ReaderPCs, Goto(t, s),
         t \in Writers => s \in WriterPCs, t \in Readers => s \in ReaderPCs
  PROVE  /\ pc' \in [Threads -> WriterPCs \cup ReaderPCs]
         /\ \A w \in Writers : pc'[w] \in WriterPCs
         /\ \A r \in Readers : pc'[r] \in ReaderPCs
         /\ pc'[t] = s /\ \A u \in Threads : u # t => pc'[u] = pc[u]
<1>1. /\ pc' \in [Threads -> WriterPCs \cup ReaderPCs]
      /\ pc'[t] = s /\ \A u \in Threads : u # t => pc'[u] = pc[u]
  BY DEF TypeOK, Goto
<1> QED BY <1>1 DEF TypeOK, Threads

\* Steps that leave the pool alone keep every buffer where it is.
LEMMA SamePool ==
  ASSUME Conserved, Counted, UNCHANGED <<pool, stored, last>>,
         pc' \in [Threads -> WriterPCs \cup ReaderPCs],
         \A w \in Writers : pc'[w] \in WriterPCs,
         \A r \in Readers : pc'[r] \in ReaderPCs,
         \A t \in Threads : pc'[t] = pc[t] \/ {pc[t], pc'[t]} \cap {"writing", "reading"} = {}
  PROVE  Conserved' /\ Counted'
<1>1. TypeOK'
  BY DEF Conserved, TypeOK, pool
<1>2. Writing' = Writing /\ Holders' = Holders
  BY DEF Writing, Holders, pool, Threads
<1> QED BY <1>1, <1>2 DEF Conserved, Counted, pool

\* Get with a free buffer.
LEMMA GetFreeInv ==
  ASSUME IInv, NEW w \in Writers, MayStart, GetFree(w)
  PROVE  IInv'
<1>1. w \in Threads /\ TypeOK /\ Conserved
  BY DEF Threads, IInv, Conserved
<1>2. PICK b \in in : in' = in \ {b} /\ Hold(w, b)
  BY DEF GetFree
<1>3. /\ pc[w] = "idle" /\ Goto(w, "writing") /\ held[w] = NoBuffer /\ b \in Buffers
      /\ out' = out /\ frame' = frame /\ stored' = stored /\ last' = last
  BY <1>1 DEF GetFree, TypeOK
<1>4. /\ Cardinality(Holders') = Cardinality(Holders) + 1
      /\ held' \in [Threads -> Buffers \cup {NoBuffer}]
      /\ held'[w] = b /\ \A u \in Threads : u # w => held'[u] = held[u]
  BY <1>1, <1>2, <1>3, Takes
<1>5. /\ pc' \in [Threads -> WriterPCs \cup ReaderPCs]
      /\ \A v \in Writers : pc'[v] \in WriterPCs
      /\ \A r \in Readers : pc'[r] \in ReaderPCs
      /\ pc'[w] = "writing" /\ \A u \in Threads : u # w => pc'[u] = pc[u]
  <2>1. "writing" \in WriterPCs /\ w \notin Readers
    BY DPipeAssumption DEF WriterPCs
  <2> QED BY <1>1, <1>3, <2>1, Moves
<1>6. TypeOK'
  BY <1>1, <1>2, <1>3, <1>4, <1>5, DPipeAssumption DEF TypeOK
<1>7. Conserved'
  <2>1. /\ \A i \in 1..Len(out') : out'[i] \notin in'
        /\ \A i, j \in 1..Len(out') : i # j => out'[i] # out'[j]
    BY <1>1, <1>2, <1>3 DEF Conserved
  <2>2. ASSUME NEW u \in Threads, held'[u] # NoBuffer
        PROVE  /\ held'[u] \notin in'
               /\ \A i \in 1..Len(out') : held'[u] # out'[i]
               /\ \A v \in Threads : v # u => held'[v] # held'[u]
    <3>1. CASE u = w
      <4>1. \A v \in Threads : v # w => held[v] # b
        BY <1>1, <1>2, <1>3, DPipeAssumption DEF Conserved
      <4> QED BY <4>1, <3>1, <1>1, <1>2, <1>3, <1>4 DEF Conserved
    <3>2. CASE u # w
      <4>1. /\ held'[u] = held[u] /\ held[u] \notin in /\ held[u] # b
            /\ \A i \in 1..Len(out) : held[u] # out[i]
            /\ \A v \in Threads : v # u => held[v] # held[u]
        BY <3>2, <2>2, <1>1, <1>2, <1>4 DEF Conserved
      <4> QED BY <4>1, <1>2, <1>3, <1>4
    <3> QED BY <3>1, <3>2
  <2>3. ASSUME NEW a \in Buffers
        PROVE  a \in in' \/ (\E i \in 1..Len(out') : out'[i] = a)
                 \/ (\E u \in Threads : held'[u] = a)
    <3>1. ASSUME NEW u \in Threads, held[u] = a
          PROVE  held'[u] = a
      BY <3>1, <1>3, <1>4, DPipeAssumption
    <3> QED BY <3>1, <1>1, <1>2, <1>3, <1>4 DEF Conserved
  <2> QED BY <2>1, <2>2, <2>3, <1>6 DEF Conserved
<1>8. Counted'
  <2>1. Writing' = Writing \cup {w} /\ w \notin Writing
    BY <1>3, <1>5 DEF Writing, Threads
  <2>2. Cardinality(Writing') = Cardinality(Writing) + 1
    BY <2>1, <1>1, Finite, FS_AddElement
  <2>3. Cardinality(in') = Cardinality(in) - 1
    BY <1>1, <1>2, Finite, FS_RemoveElement
  <2>4. stored + Cardinality(Writing) < MaxFrames /\ stored \in Nat /\ MaxFrames \in Nat
    BY <1>1, DPipeAssumption DEF MayStart, Writing, TypeOK
  <2> QED BY <2>2, <2>3, <2>4, <1>1, <1>3, <1>4, Finite DEF Counted, IInv
<1>9. NoLostWakeup'
  <2>1. Waiting' = Waiting /\ Alerts' = Alerts
    BY <1>3, <1>5 DEF Waiting, Alerts, Threads
  <2> QED BY <2>1, <1>3 DEF NoLostWakeup, IInv
<1> QED BY <1>7, <1>8, <1>9 DEF IInv

\* A thread that takes the eldest stored frame leaves each buffer in one place.
LEMMA TakeEldestConserves ==
  ASSUME Conserved, out # <<>>, NEW t \in Threads, held[t] = NoBuffer,
         Hold(t, Head(out)), TakeEldest, in' = in, TypeOK'
  PROVE  /\ Conserved'
         /\ Len(out') = Len(out) - 1
         /\ Cardinality(Holders') = Cardinality(Holders) + 1
<1>1. TypeOK /\ Head(out) \in Buffers
  BY Eldest DEF Conserved
<1>2. /\ Len(out) \in Nat \ {0} /\ 1 \in 1..Len(out) /\ Head(out) = out[1]
      /\ Len(out') = Len(out) - 1
      /\ \A i \in 1..Len(out') : out'[i] = out[i+1] /\ i+1 \in 1..Len(out) /\ i \in Nat
  BY <1>1, Eldest DEF TakeEldest
<1>3. /\ Cardinality(Holders') = Cardinality(Holders) + 1
      /\ held'[t] = out[1] /\ \A u \in Threads : u # t => held'[u] = held[u]
  BY <1>1, <1>2, Takes
<1>4. \A i \in 1..Len(out') : out'[i] \notin in'
  BY <1>2 DEF Conserved
<1>5. \A i, j \in 1..Len(out') : i # j => out'[i] # out'[j]
  <2> TAKE i, j \in 1..Len(out')
  <2>1. i # j => i+1 # j+1
    BY <1>2
  <2> QED BY <2>1, <1>2 DEF Conserved
<1>6. ASSUME NEW u \in Threads, held'[u] # NoBuffer
      PROVE  /\ held'[u] \notin in'
             /\ \A i \in 1..Len(out') : held'[u] # out'[i]
             /\ \A v \in Threads : v # u => held'[v] # held'[u]
  <2>1. CASE u = t
    <3>1. held'[u] = out[1] /\ out[1] \notin in'
      BY <2>1, <1>2, <1>3 DEF Conserved
    <3>2. \A i \in 1..Len(out') : out[1] # out'[i]
      <4> TAKE i \in 1..Len(out')
      <4>1. i + 1 # 1
        BY <1>2
      <4> QED BY <4>1, <1>2 DEF Conserved
    <3>3. \A v \in Threads : v # t => held'[v] # out[1]
      BY <1>1, <1>2, <1>3, DPipeAssumption DEF Conserved
    <3> QED BY <2>1, <3>1, <3>2, <3>3
  <2>2. CASE u # t
    <3>1. held'[u] = held[u]
      BY <2>2, <1>3
    <3>2. /\ held[u] \notin in /\ \A i \in 1..Len(out) : held[u] # out[i]
          /\ \A v \in Threads : v # u => held[v] # held[u]
      BY <3>1, <1>6 DEF Conserved
    <3> QED BY <3>1, <3>2, <1>2, <1>3
  <2> QED BY <2>1, <2>2
<1>7. ASSUME NEW b \in Buffers
      PROVE  b \in in' \/ (\E i \in 1..Len(out') : out'[i] = b)
               \/ (\E u \in Threads : held'[u] = b)
  <2>1. CASE b \in in \/ b = out[1]
    BY <2>1, <1>3
  <2>2. ASSUME NEW i \in 1..Len(out), out[i] = b, i # 1
        PROVE  \E j \in 1..Len(out') : out'[j] = b
    <3>1. i - 1 \in 1..Len(out') /\ (i - 1) + 1 = i
      BY <2>2, <1>2
    <3> QED BY <3>1, <2>2, <1>2
  <2>3. ASSUME NEW u \in Threads, held[u] = b
        PROVE  held'[u] = b
    <3>1. u # t
      BY <2>3, DPipeAssumption
    <3> QED BY <3>1, <2>3, <1>3
  <2> QED BY <2>1, <2>2, <2>3 DEF Conserved
<1> QED BY <1>2, <1>3, <1>4, <1>5, <1>6, <1>7 DEF Conserved

\* Get with no free buffer: the eldest frame is given up.
LEMMA GetEldestInv ==
  ASSUME IInv, NEW w \in Writers, MayStart, GetEldest(w)
  PROVE  IInv'
<1>1. w \in Threads /\ TypeOK /\ Conserved
  BY DEF Threads, IInv, Conserved
<1>2. /\ pc[w] = "idle" /\ Goto(w, "writing") /\ held[w] = NoBuffer
      /\ out # <<>> /\ Hold(w, Head(out)) /\ TakeEldest
      /\ in' = in /\ frame' = frame /\ stored' = stored /\ last' = last
  BY <1>1 DEF GetEldest, TypeOK
<1>3. Head(out) \in Buffers /\ out' \in Seq(Buffers)
  BY <1>1, <1>2, Eldest DEF TakeEldest
<1>4. /\ held' \in [Threads -> Buffers \cup {NoBuffer}]
      /\ held'[w] = Head(out) /\ \A u \in Threads : u # w => held'[u] = held[u]
  BY <1>1, <1>2, <1>3, Takes
<1>5. /\ pc' \in [Threads -> WriterPCs \cup ReaderPCs]
      /\ \A v \in Writers : pc'[v] \in WriterPCs
      /\ \A r \in Readers : pc'[r] \in ReaderPCs
      /\ pc'[w] = "writing" /\ \A u \in Threads : u # w => pc'[u] = pc[u]
  <2>1. "writing" \in WriterPCs /\ w \notin Readers
    BY DPipeAssumption DEF WriterPCs
  <2> QED BY <1>1, <1>2, <2>1, Moves
<1>6. TypeOK'
  BY <1>1, <1>2, <1>3, <1>4, <1>5, DPipeAssumption DEF TypeOK
<1>7. /\ Conserved' /\ Len(out') = Len(out) - 1
      /\ Cardinality(Holders') = Cardinality(Holders) + 1
  BY <1>1, <1>2, <1>6, TakeEldestConserves
<1>8. Counted'
  <2>1. Writing' = Writing \cup {w} /\ w \notin Writing
    BY <1>2, <1>5 DEF Writing, Threads
  <2>2. Cardinality(Writing') = Cardinality(Writing) + 1
    BY <2>1, <1>1, Finite, FS_AddElement
  <2>3. stored + Cardinality(Writing) < MaxFrames /\ stored \in Nat /\ MaxFrames \in Nat
    BY <1>1, DPipeAssumption DEF MayStart, Writing, TypeOK
  <2> QED BY <2>2, <2>3, <1>1, <1>2, <1>7, Finite DEF Counted, IInv
<1>9. NoLostWakeup'
  <2>1. Waiting' = Waiting /\ Alerts' = Alerts
    BY <1>2, <1>5 DEF Waiting, Alerts, Threads
  <2> QED BY <2>1, <1>1, <1>7, Finite DEF NoLostWakeup, IInv
<1> QED BY <1>7, <1>8, <1>9 DEF IInv

\* Store, up to the unlock: the frame it stores brings its own alert.
LEMMA StoreInv ==
  ASSUME IInv, NEW w \in Writers, NEW f \in 0..MaxFrames, Store(w, f)
  PROVE  IInv'
<1> DEFINE b == held[w]
           k == Len(out)
<1>1. w \in Threads /\ TypeOK /\ Conserved
  BY DEF Threads, IInv, Conserved
<1>2. /\ pc[w] = "writing" /\ Goto(w, "signalling") /\ Release(w)
      /\ b # NoBuffer /\ b \in Buffers
      /\ frame' = [frame EXCEPT ![b] = f] /\ out' = Append(out, b)
      /\ in' = in /\ stored' = stored + 1 /\ last' = last
  BY <1>1 DEF Store, Enqueue, TypeOK
<1>3. /\ Cardinality(Holders') = Cardinality(Holders) - 1
      /\ held' \in [Threads -> Buffers \cup {NoBuffer}]
      /\ held'[w] = NoBuffer /\ \A u \in Threads : u # w => held'[u] = held[u]
  BY <1>1, <1>2, Releases
<1>4. /\ pc' \in [Threads -> WriterPCs \cup ReaderPCs]
      /\ \A v \in Writers : pc'[v] \in WriterPCs
      /\ \A r \in Readers : pc'[r] \in ReaderPCs
      /\ pc'[w] = "signalling" /\ \A u \in Threads : u # w => pc'[u] = pc[u]
  <2>1. "signalling" \in WriterPCs /\ w \notin Readers
    BY DPipeAssumption DEF WriterPCs
  <2> QED BY <1>1, <1>2, <2>1, Moves
<1>5. /\ out \in Seq(Buffers) /\ out' \in Seq(Buffers) /\ k \in Nat /\ Len(out') = k + 1
      /\ \A i \in 1..k : out'[i] = out[i]
      /\ out'[k+1] = b
  BY <1>1, <1>2, AppendProperties, LenProperties DEF TypeOK
<1>6. \A u \in Threads : u # w => held[u] # b
  BY <1>1, <1>2 DEF Conserved
<1>7. b \notin in /\ \A i \in 1..k : out[i] # b
  BY <1>1, <1>2 DEF Conserved
<1> HIDE DEF b, k
<1>8. Writing' = Writing \ {w} /\ w \in Writing
  BY <1>2, <1>4 DEF Writing, Threads
<1>9. /\ Cardinality(Writing') = Cardinality(Writing) - 1
      /\ stored \in Nat /\ MaxFrames \in Nat /\ Cardinality(Writing') \in Nat
      /\ stored + 1 <= MaxFrames
      /\ stored' + Cardinality(Writing') <= MaxFrames
  <2>1. Cardinality(Writing') = Cardinality(Writing) - 1
    BY <1>1, <1>8, Finite, FS_RemoveElement
  <2>2. Cardinality(Writing') \in Nat
    BY <1>1, <1>8, Finite, FS_RemoveElement, FS_CardinalityType
  <2>3. stored \in Nat /\ MaxFrames \in Nat
    BY <1>1, DPipeAssumption DEF TypeOK
  <2> QED BY <1>1, <1>2, <2>1, <2>2, <2>3, Finite DEF Counted, IInv
<1>10. TypeOK'
  <2>1. stored' \in 0..MaxFrames /\ frame' \in [Buffers -> 0..MaxFrames]
    BY <1>1, <1>2, <1>9 DEF TypeOK
  <2> QED BY <2>1, <1>1, <1>2, <1>3, <1>4, <1>5 DEF TypeOK
<1>11. \A i \in 1..Len(out') : i \in 1..k \/ i = k + 1
  BY <1>5
<1>12. Conserved'
  <2>1. \A i \in 1..Len(out') : out'[i] \notin in'
    BY <1>1, <1>2, <1>5, <1>7, <1>11 DEF Conserved, k
  <2>2. \A i, j \in 1..Len(out') : i # j => out'[i] # out'[j]
    BY <1>1, <1>5, <1>7, <1>11 DEF Conserved, k
  <2>3. ASSUME NEW u \in Threads, held'[u] # NoBuffer
        PROVE  /\ held'[u] \notin in'
               /\ \A i \in 1..Len(out') : held'[u] # out'[i]
               /\ \A v \in Threads : v # u => held'[v] # held'[u]
    <3>1. /\ held'[u] = held[u] /\ held[u] \notin in /\ held[u] # b
          /\ \A i \in 1..k : held[u] # out[i]
          /\ \A v \in Threads : v # u => held[v] # held[u]
      BY <2>3, <1>1, <1>3, <1>6 DEF Conserved, k
    <3> QED BY <3>1, <2>3, <1>2, <1>3, <1>5, <1>11
  <2>4. ASSUME NEW a \in Buffers
        PROVE  a \in in' \/ (\E i \in 1..Len(out') : out'[i] = a)
                 \/ (\E u \in Threads : held'[u] = a)
    <3>1. ASSUME NEW i \in 1..k, out[i] = a
          PROVE  \E j \in 1..Len(out') : out'[j] = a
      BY <3>1, <1>5
    <3>2. ASSUME NEW u \in Threads, held[u] = a, u # w
          PROVE  held'[u] = a
      BY <3>2, <1>3
    <3>3. a = b => \E j \in 1..Len(out') : out'[j] = a
      BY <1>5
    <3>4. held[w] = b
      BY DEF b
    <3> QED BY <3>1, <3>2, <3>3, <3>4, <1>1, <1>2 DEF Conserved, k
  <2> QED BY <2>1, <2>2, <2>3, <2>4, <1>10 DEF Conserved
<1>13. Counted'
  BY <1>1, <1>2, <1>3, <1>5, <1>9, Finite DEF Counted, IInv, k
<1>14. NoLostWakeup'
  <2>1. Waiting' = Waiting
    <3>1. \A r \in Readers : r # w /\ pc'[r] = pc[r]
      BY <1>4, DPipeAssumption DEF Threads
    <3> QED BY <3>1 DEF Waiting
  <2>2. Alerts' = Alerts \cup {w} /\ w \notin Alerts
    BY <1>1, <1>2, <1>4 DEF Alerts
  <2>3. Cardinality(Alerts') = Cardinality(Alerts) + 1
    BY <2>2, <1>1, Finite, FS_AddElement
  <2> QED BY <2>1, <2>3, <1>1, <1>5, Finite DEF NoLostWakeup, IInv, k
<1> QED BY <1>12, <1>13, <1>14 DEF IInv

\* Load, at its start or back from the wait.
LEMMA LoadInv ==
  ASSUME IInv, NEW r \in Readers, Load(r)
  PROVE  IInv'
<1>1. r \in Threads /\ r \notin Writers /\ TypeOK /\ Conserved
  BY DPipeAssumption DEF Threads, IInv, Conserved
<1>2. /\ pc[r] \in {"idle", "signalled", "timedout", "spurious"}
      /\ Goto(r, "reading") /\ held[r] = NoBuffer
      /\ out # <<>> /\ Hold(r, Head(out)) /\ TakeEldest
      /\ in' = in /\ frame' = frame /\ stored' = stored /\ last' = frame[Head(out)]
  BY <1>1 DEF Load, Looking, Awake, TypeOK
<1>3. Head(out) \in Buffers /\ out' \in Seq(Buffers)
  BY <1>1, <1>2, Eldest DEF TakeEldest
<1>4. /\ held' \in [Threads -> Buffers \cup {NoBuffer}]
      /\ held'[r] = Head(out) /\ \A u \in Threads : u # r => held'[u] = held[u]
  BY <1>1, <1>2, <1>3, Takes
<1>5. /\ pc' \in [Threads -> WriterPCs \cup ReaderPCs]
      /\ \A v \in Writers : pc'[v] \in WriterPCs
      /\ \A v \in Readers : pc'[v] \in ReaderPCs
      /\ pc'[r] = "reading" /\ \A u \in Threads : u # r => pc'[u] = pc[u]
  <2>1. "reading" \in ReaderPCs
    BY DEF ReaderPCs
  <2> QED BY <1>1, <1>2, <2>1, Moves
<1>6. TypeOK'
  BY <1>1, <1>2, <1>3, <1>4, <1>5, DPipeAssumption DEF TypeOK
<1>7. /\ Conserved' /\ Len(out') = Len(out) - 1
      /\ Cardinality(Holders') = Cardinality(Holders) + 1
  BY <1>1, <1>2, <1>6, TakeEldestConserves
<1>8. Counted'
  <2>1. Writing' = Writing
    BY <1>1, <1>5 DEF Writing, Threads
  <2> QED BY <2>1, <1>1, <1>2, <1>7, Finite DEF Counted, IInv
<1>9. NoLostWakeup'
  <2>1. Waiting' = Waiting
    BY <1>2, <1>5 DEF Waiting, Threads
  <2>2. Alerts' = Alerts \ {r}
    BY <1>5 DEF Alerts
  <2>3. Cardinality(Alerts') \in Nat
    BY <2>2, SomeThreads DEF Alerts
  <2>4. Cardinality(Alerts') >= Cardinality(Alerts) - 1
    <3>1. IsFiniteSet(Alerts) /\ Cardinality(Alerts) \in Nat
      BY <1>1, Finite
    <3>2. Cardinality(Alerts \ {r}) =
            IF r \in Alerts THEN Cardinality(Alerts) - 1 ELSE Cardinality(Alerts)
      BY <3>1, FS_RemoveElement
    <3> QED BY <2>2, <3>1, <3>2
  <2> QED BY <2>1, <2>3, <2>4, <1>1, <1>7, Finite DEF NoLostWakeup, IInv
<1> QED BY <1>7, <1>8, <1>9 DEF IInv

\* Put.
LEMMA PutInv ==
  ASSUME IInv, NEW r \in Readers, Put(r)
  PROVE  IInv'
<1> DEFINE b == held[r]
<1>1. r \in Threads /\ r \notin Writers /\ TypeOK /\ Conserved
  BY DPipeAssumption DEF Threads, IInv, Conserved
<1>2. /\ pc[r] = "reading" /\ Goto(r, "idle") /\ Release(r)
      /\ b # NoBuffer /\ b \in Buffers /\ in' = in \cup {b}
      /\ out' = out /\ frame' = frame /\ stored' = stored /\ last' = last
  BY <1>1 DEF Put, Free, TypeOK
<1>3. /\ Cardinality(Holders') = Cardinality(Holders) - 1
      /\ held' \in [Threads -> Buffers \cup {NoBuffer}]
      /\ held'[r] = NoBuffer /\ \A u \in Threads : u # r => held'[u] = held[u]
  BY <1>1, <1>2, Releases
<1>4. /\ pc' \in [Threads -> WriterPCs \cup ReaderPCs]
      /\ \A v \in Writers : pc'[v] \in WriterPCs
      /\ \A v \in Readers : pc'[v] \in ReaderPCs
      /\ pc'[r] = "idle" /\ \A u \in Threads : u # r => pc'[u] = pc[u]
  <2>1. "idle" \in ReaderPCs
    BY DEF ReaderPCs
  <2> QED BY <1>1, <1>2, <2>1, Moves
<1>5. TypeOK'
  BY <1>1, <1>2, <1>3, <1>4, DPipeAssumption DEF TypeOK
<1>6. /\ b \notin in /\ \A i \in 1..Len(out) : b # out[i]
      /\ \A u \in Threads : u # r => held[u] # b
  BY <1>1, <1>2 DEF Conserved
<1>7. Conserved'
  <2>1. /\ \A i \in 1..Len(out') : out'[i] \notin in'
        /\ \A i, j \in 1..Len(out') : i # j => out'[i] # out'[j]
    BY <1>1, <1>2, <1>6 DEF Conserved
  <2>2. ASSUME NEW u \in Threads, held'[u] # NoBuffer
        PROVE  /\ held'[u] \notin in'
               /\ \A i \in 1..Len(out') : held'[u] # out'[i]
               /\ \A v \in Threads : v # u => held'[v] # held'[u]
    <3>1. /\ held'[u] = held[u] /\ held[u] \notin in /\ held[u] # b
          /\ \A i \in 1..Len(out) : held[u] # out[i]
          /\ \A v \in Threads : v # u => held[v] # held[u]
      BY <2>2, <1>1, <1>3, <1>6 DEF Conserved
    <3> QED BY <3>1, <2>2, <1>2, <1>3
  <2>3. ASSUME NEW a \in Buffers
        PROVE  a \in in' \/ (\E i \in 1..Len(out') : out'[i] = a)
                 \/ (\E u \in Threads : held'[u] = a)
    <3>1. ASSUME NEW u \in Threads, held[u] = a, u # r
          PROVE  held'[u] = a
      BY <3>1, <1>3
    <3> QED BY <3>1, <1>1, <1>2 DEF Conserved
  <2> QED BY <2>1, <2>2, <2>3, <1>5 DEF Conserved
<1>8. Counted'
  <2>1. Writing' = Writing
    BY <1>1, <1>4 DEF Writing, Threads
  <2>2. Cardinality(in') = Cardinality(in) + 1
    BY <1>1, <1>2, <1>6, Finite, FS_AddElement
  <2> QED BY <2>1, <2>2, <1>1, <1>2, <1>3, Finite DEF Counted, IInv
<1>9. NoLostWakeup'
  <2>1. Waiting' = Waiting /\ Alerts' = Alerts
    BY <1>2, <1>4 DEF Waiting, Alerts, Threads
  <2> QED BY <2>1, <1>2 DEF NoLostWakeup, IInv
<1> QED BY <1>7, <1>8, <1>9 DEF IInv

\* The signal passes the alert of a frame on to a reader that waits.
LEMMA SignalInv ==
  ASSUME IInv, NEW w \in Writers, Signal(w)
  PROVE  IInv'
<1>1. w \in Threads /\ w \notin Readers /\ TypeOK /\ Conserved
  BY DPipeAssumption DEF Threads, IInv, Conserved
<1>2. pc[w] = "signalling" /\ UNCHANGED <<pool, stored, last>> /\ w \in Alerts
  BY <1>1 DEF Signal, Alerts
<1>3. CASE Waiting = {}
  <2>1. Goto(w, "idle")
    BY <1>3 DEF Signal
  <2>2. /\ pc' \in [Threads -> WriterPCs \cup ReaderPCs]
        /\ \A v \in Writers : pc'[v] \in WriterPCs
        /\ \A v \in Readers : pc'[v] \in ReaderPCs
        /\ pc'[w] = "idle" /\ \A u \in Threads : u # w => pc'[u] = pc[u]
    <3>1. "idle" \in WriterPCs
      BY DEF WriterPCs
    <3> QED BY <1>1, <2>1, <3>1, Moves
  <2>3. Waiting' = {}
    BY <1>3, <2>2 DEF Waiting, Threads
  <2> QED BY <1>1, <1>2, <2>2, <2>3, SamePool DEF IInv, NoLostWakeup
<1>4. CASE Waiting # {}
  <2>1. PICK r \in Waiting : pc' = [pc EXCEPT ![w] = "idle", ![r] = "signalled"]
    BY <1>4 DEF Signal
  <2>2. r \in Readers /\ r \in Threads /\ r # w /\ pc[r] = "waiting"
    BY <1>1, <2>1 DEF Waiting, Threads
  <2>3. /\ pc' \in [Threads -> WriterPCs \cup ReaderPCs]
        /\ \A v \in Writers : pc'[v] \in WriterPCs
        /\ \A v \in Readers : pc'[v] \in ReaderPCs
        /\ pc'[w] = "idle" /\ pc'[r] = "signalled"
        /\ \A u \in Threads : u # w /\ u # r => pc'[u] = pc[u]
    BY <1>1, <2>1, <2>2 DEF TypeOK, WriterPCs, ReaderPCs, Awake, Threads
  <2>4. Conserved' /\ Counted'
    BY <1>1, <1>2, <2>2, <2>3, SamePool DEF IInv
  <2>5. Cardinality(Alerts') = Cardinality(Alerts)
    <3>1. Alerts' = (Alerts \ {w}) \cup {r} /\ r \notin Alerts \ {w}
      BY <1>1, <2>2, <2>3 DEF Alerts
    <3> DEFINE A == Alerts \ {w}
    <3>2. IsFiniteSet(A) /\ Cardinality(A) = Cardinality(Alerts) - 1
      BY <1>1, <1>2, Finite, FS_RemoveElement
    <3>3. Cardinality(Alerts') = Cardinality(A) + 1
      BY <3>1, <3>2, FS_AddElement
    <3> QED BY <1>1, <3>2, <3>3, Finite
  <2> QED BY <1>2, <1>4, <2>4, <2>5 DEF IInv, NoLostWakeup, pool
<1> QED BY <1>3, <1>4

\* The steps of a thread that finds the output pool empty.
LEMMA EmptyInv ==
  ASSUME IInv, NEW t \in Threads,
         \/ t \in Writers /\ GetNull(t)
         \/ t \in Readers /\ (Wait(t) \/ LoadNull(t))
  PROVE  IInv'
<1>1. Conserved /\ TypeOK
  BY DEF IInv, Conserved
<1>2. PICK s \in WriterPCs \cup ReaderPCs :
        /\ Goto(t, s) /\ s \notin {"writing", "reading"}
        /\ t \in Writers => s \in WriterPCs
        /\ t \in Readers => s \in ReaderPCs
  BY DPipeAssumption DEF GetNull, Wait, LoadNull, WriterPCs, ReaderPCs
<1>3. UNCHANGED <<pool, stored, last>> /\ out = <<>> /\ pc[t] \notin {"writing", "reading"}
  BY DEF GetNull, Wait, LoadNull, Looking, Awake
<1>4. /\ pc' \in [Threads -> WriterPCs \cup ReaderPCs]
      /\ \A v \in Writers : pc'[v] \in WriterPCs
      /\ \A v \in Readers : pc'[v] \in ReaderPCs
      /\ pc'[t] = s /\ \A u \in Threads : u # t => pc'[u] = pc[u]
  BY <1>1, <1>2, Moves
<1>5. Conserved' /\ Counted'
  BY <1>1, <1>2, <1>3, <1>4, SamePool DEF IInv
<1>6. Len(out') = 0 /\ Cardinality(Alerts') \in Nat
  <2>1. Alerts' \subseteq Threads
    BY DEF Alerts
  <2> QED BY <2>1, <1>3, EmptySeq, SomeThreads DEF pool
<1> QED BY <1>5, <1>6 DEF IInv, NoLostWakeup

\* A wait that ends without a signal.
LEMMA WakeInv ==
  ASSUME IInv, NEW r \in Readers, TimeOut(r) \/ SpuriousWakeup(r)
  PROVE  IInv'
<1>1. Conserved /\ TypeOK /\ r \in Threads /\ r \notin Writers
  BY DPipeAssumption DEF IInv, Conserved, Threads
<1>2. PICK s \in {"timedout", "spurious"} : Goto(r, s)
  BY DEF TimeOut, SpuriousWakeup
<1>3. UNCHANGED <<pool, stored, last>> /\ pc[r] = "waiting"
  BY DEF TimeOut, SpuriousWakeup
<1>4. /\ pc' \in [Threads -> WriterPCs \cup ReaderPCs]
      /\ \A v \in Writers : pc'[v] \in WriterPCs
      /\ \A v \in Readers : pc'[v] \in ReaderPCs
      /\ pc'[r] = s /\ \A u \in Threads : u # r => pc'[u] = pc[u]
  <2>1. s \in ReaderPCs
    BY DEF ReaderPCs, Awake
  <2> QED BY <1>1, <1>2, <2>1, Moves
<1>5. Conserved' /\ Counted'
  BY <1>1, <1>2, <1>3, <1>4, SamePool DEF IInv
<1>6. Waiting' \subseteq Waiting /\ Alerts' = Alerts
  BY <1>1, <1>3, <1>4 DEF Waiting, Alerts, Threads
<1> QED BY <1>3, <1>5, <1>6 DEF IInv, NoLostWakeup, pool

\* In the beginning every buffer is free.
LEMMA InitInv == Init => IInv
<1> SUFFICES ASSUME Init PROVE IInv
  OBVIOUS
<1>1. out \in Seq(Buffers) /\ Len(out) = 0
  BY EmptySeq DEF Init
<1>2. TypeOK
  BY <1>1, DPipeAssumption DEF Init, TypeOK, WriterPCs, ReaderPCs, Threads
<1>3. Conserved
  BY <1>1, <1>2 DEF Init, Conserved
<1>4. Holders = {} /\ Writing = {} /\ Waiting = {}
  BY DEF Init, Holders, Writing, Waiting, Threads
<1>5. Counted
  BY <1>1, <1>2, <1>4, FS_EmptySet, Finite, DPipeAssumption DEF Init, Counted
<1> QED BY <1>3, <1>4, <1>5 DEF IInv, NoLostWakeup

\* Whatever frame a writer stores, its steps keep the invariant.
LEMMA WriterInv ==
  ASSUME IInv, NEW w \in Writers,
         \/ MayStart /\ Get(w)
         \/ \E f \in 0..MaxFrames : Store(w, f)
         \/ Signal(w)
  PROVE  IInv'
<1>1. CASE MayStart /\ Get(w)
  <2>1. CASE GetFree(w)
    BY <1>1, <2>1, GetFreeInv
  <2>2. CASE GetEldest(w)
    BY <1>1, <2>2, GetEldestInv
  <2>3. CASE GetNull(w)
    <3>1. w \in Threads
      BY DEF Threads
    <3> QED BY <3>1, <2>3, EmptyInv
  <2> QED BY <2>1, <2>2, <2>3, <1>1 DEF Get
<1> QED BY <1>1, StoreInv, SignalInv

\* A reader's steps keep the invariant.
LEMMA ReaderInv ==
  ASSUME IInv, NEW r \in Readers, Read(r) \/ TimeOut(r) \/ SpuriousWakeup(r) \/ Put(r)
  PROVE  IInv'
<1>1. CASE Read(r)
  <2>1. CASE Load(r)
    BY <2>1, LoadInv
  <2>2. CASE Wait(r) \/ LoadNull(r)
    <3>1. r \in Threads
      BY DEF Threads
    <3> QED BY <3>1, <2>2, EmptyInv
  <2> QED BY <2>1, <2>2, <1>1 DEF Read
<1> QED BY <1>1, WakeInv, PutInv

\* So do steps that are not the pipe's.
LEMMA OtherInv ==
  ASSUME IInv, UNCHANGED vars
  PROVE  IInv'
<1>1. UNCHANGED <<in, out, frame, held, pc, stored, last>>
  BY DEF vars
<1> QED BY <1>1 DEF IInv, Conserved, TypeOK, Counted, Writing, Holders,
          NoLostWakeup, Waiting, Alerts

\* A frame that a writer has begun is one of those the model's bound allows.
LEMMA MayStore ==
  ASSUME IInv, NEW w \in Writers, NEW f, Store(w, f)
  PROVE  stored + 1 \in 0..MaxFrames
<1>1. TypeOK /\ Writing # {}
  BY DEF IInv, Conserved, Store, Writing
<1>2. Cardinality(Writing) \in Nat /\ Cardinality(Writing) # 0
  BY <1>1, Finite, FS_EmptySet
<1> QED BY <1>1, <1>2, DPipeAssumption DEF IInv, Counted, TypeOK

\* Every step keeps the invariant.
LEMMA NextInv == IInv /\ [Next]_vars => IInv'
<1> SUFFICES ASSUME IInv, [Next]_vars PROVE IInv'
  OBVIOUS
<1>1. ASSUME NEW w \in Writers, Store(w, stored + 1) PROVE stored + 1 \in 0..MaxFrames
  BY <1>1, MayStore
<1>2. ASSUME NEW w \in Writers, (MayStart /\ Get(w)) \/ Store(w, stored + 1) \/ Signal(w)
      PROVE  IInv'
  BY <1>1, <1>2, WriterInv
<1> QED BY <1>2, ReaderInv, OtherInv DEF Next

\* The invariant holds in every state.
THEOREM Invariance == Spec => []IInv
BY InitInv, NextInv, PTL DEF Spec

\* No buffer is lost and none is in two places, so no thread writes a frame
\* that another one reads.
THEOREM BuffersConserved == Spec => []Conserved
<1>1. IInv => Conserved
  BY DEF IInv
<1> QED BY <1>1, Invariance, PTL

\* While a reader waits, each stored frame has its own alert on the way, though
\* dpipe_store signals after it has left the critical section.
THEOREM WakeupsKept == Spec => []NoLostWakeup
<1>1. IInv => NoLostWakeup
  BY DEF IInv
<1> QED BY <1>1, Invariance, PTL

\* dpipe_get returns NULL only when the threads have every buffer: the count of
\* the buffers leaves no other place for them.
THEOREM NullWhenAllHeld == Spec => NullOnlyWhenAllHeld
<1>1. ASSUME IInv, [Next]_vars, NEW w \in Writers, pc[w] # "null", pc'[w] = "null"
      PROVE  Cardinality(Holders \ {w}) = Cardinality(Buffers)
  <2>1. TypeOK /\ w \in Threads /\ w \notin Readers
    BY <1>1, DPipeAssumption DEF IInv, Conserved, Threads
  <2>2. GetNull(w)
    <3>1. pc' # pc
      BY <1>1
    <3>2. ASSUME NEW t \in Threads, NEW s \in WriterPCs \cup ReaderPCs,
                 Goto(t, s), s # "null"
          PROVE  FALSE
      BY <1>1, <2>1, <3>2 DEF Goto, TypeOK
    <3>3. ASSUME NEW v \in Writers, Get(v) PROVE GetNull(w)
      <4>1. v \in Threads /\ {"writing", "null"} \subseteq WriterPCs
        BY DEF Threads, WriterPCs
      <4>2. GetNull(v)
        BY <3>2, <3>3, <4>1 DEF Get, GetFree, GetEldest
      <4>3. v = w
        BY <4>1, <4>2, <2>1, <1>1 DEF GetNull, Goto, TypeOK
      <4> QED BY <4>2, <4>3
    <3>4. ASSUME NEW v \in Writers PROVE ~Store(v, stored + 1)
      <4>1. v \in Threads /\ "signalling" \in WriterPCs
        BY DEF Threads, WriterPCs
      <4> QED BY <3>2, <4>1 DEF Store
    <3>5. ASSUME NEW v \in Writers PROVE ~Signal(v)
      <4>1. v \in Threads /\ "idle" \in WriterPCs
        BY DEF Threads, WriterPCs
      <4>2. ASSUME NEW r \in Waiting PROVE pc' # [pc EXCEPT ![v] = "idle", ![r] = "signalled"]
        BY <1>1, <2>1, <4>1 DEF TypeOK, Waiting
      <4> QED BY <3>2, <4>1, <4>2 DEF Signal
    <3>6. ASSUME NEW r \in Readers
          PROVE  ~(Read(r) \/ TimeOut(r) \/ SpuriousWakeup(r) \/ Put(r))
      <4>1. /\ r \in Threads
            /\ {"reading", "waiting", "idle", "timedout", "spurious"} \subseteq ReaderPCs
        BY DEF Threads, ReaderPCs, Awake
      <4> QED BY <3>2, <4>1 DEF Read, Load, Wait, LoadNull, TimeOut, SpuriousWakeup, Put
    <3> QED BY <1>1, <3>1, <3>3, <3>4, <3>5, <3>6 DEF Next, vars
  <2>3. /\ in = {} /\ out = <<>> /\ held[w] = NoBuffer
    BY <2>1, <2>2 DEF GetNull, TypeOK
  <2>4. Holders \ {w} = Holders
    BY <2>3 DEF Holders
  <2>5. Cardinality(in) = 0 /\ Len(out) = 0
    BY <2>3, FS_EmptySet, EmptySeq
  <2>6. Cardinality(in) + Len(out) + Cardinality(Holders) = Cardinality(Buffers)
    BY <1>1 DEF IInv, Counted
  <2>7. Cardinality(Holders) \in Nat
    BY <2>1, Finite
  <2>8. Cardinality(Holders) = Cardinality(Buffers)
    BY <2>5, <2>6, <2>7
  <2> QED BY <2>4, <2>8
<1>2. IInv /\ [Next]_vars =>
        [\A w \in Writers : pc[w] # "null" /\ pc'[w] = "null" =>
           Cardinality(Holders \ {w}) = Cardinality(Buffers)]_vars
  BY <1>1
<1> QED BY <1>2, Invariance, PTL DEF Spec, NullOnlyWhenAllHeld
-----------------------------------------------------------------------------
(***************************************************************************)
(* The pipe implements the channel of module FrameChannel: what waits is   *)
(* the frames of the output pool, and a buffer is in use while held.       *)
(***************************************************************************)
Frames(s, f) == [i \in 1..Len(s) |-> f[s[i]]]

\* The frames of some buffers are a sequence as long.
LEMMA FramesSeq ==
  ASSUME NEW s \in Seq(Buffers), NEW f \in [Buffers -> Nat]
  PROVE  /\ Frames(s, f) \in Seq(Nat) /\ Len(Frames(s, f)) = Len(s)
         /\ \A i \in 1..Len(s) : Frames(s, f)[i] = f[s[i]]
         /\ Frames(s, f) = <<>> <=> s = <<>>
<1>1. Len(s) \in Nat /\ \A i \in 1..Len(s) : s[i] \in Buffers
  BY LenProperties, ElementOfSeq
<1>2. Frames(s, f) \in [1..Len(s) -> Nat]
  BY <1>1 DEF Frames
<1>3. Frames(s, f) \in Seq(Nat) /\ Len(Frames(s, f)) = Len(s)
  BY <1>1, <1>2
<1>4. Frames(s, f) = <<>> <=> s = <<>>
  BY <1>1, <1>3, EmptySeq
<1> QED BY <1>3, <1>4 DEF Frames

\* Taking the eldest buffer takes the eldest frame.
LEMMA FramesTail ==
  ASSUME NEW s \in Seq(Buffers), s # <<>>, NEW f \in [Buffers -> Nat]
  PROVE  /\ Frames(Tail(s), f) = Tail(Frames(s, f))
         /\ Head(Frames(s, f)) = f[Head(s)]
<1> DEFINE F == Frames(s, f)
<1>1. /\ Len(s) \in Nat \ {0} /\ Tail(s) \in Seq(Buffers) /\ Len(Tail(s)) = Len(s) - 1
      /\ \A i \in 1..Len(Tail(s)) : Tail(s)[i] = s[i+1]
  BY EmptySeq, HeadTailProperties
<1>2. /\ F \in Seq(Nat) /\ Len(F) = Len(s) /\ F # <<>>
      /\ \A i \in 1..Len(s) : F[i] = f[s[i]]
  BY FramesSeq
<1>3. /\ Frames(Tail(s), f) \in Seq(Nat) /\ Len(Frames(Tail(s), f)) = Len(s) - 1
      /\ \A i \in 1..Len(s)-1 : Frames(Tail(s), f)[i] = f[Tail(s)[i]]
  BY <1>1, FramesSeq
<1> HIDE DEF F
<1>4. /\ Tail(F) \in Seq(Nat) /\ Len(Tail(F)) = Len(s) - 1
      /\ \A i \in 1..Len(s)-1 : Tail(F)[i] = F[i+1]
  BY <1>2, HeadTailProperties
<1>5. \A i \in 1..Len(s)-1 : i+1 \in 1..Len(s)
  BY <1>1
<1>6. \A i \in 1..Len(s)-1 : Frames(Tail(s), f)[i] = Tail(F)[i]
  BY <1>1, <1>2, <1>3, <1>4, <1>5
<1>7. Frames(Tail(s), f) = Tail(F)
  BY <1>3, <1>4, <1>6, SeqEqual
<1>8. Head(F) = F[1] /\ Head(s) = s[1] /\ 1 \in 1..Len(s)
  BY <1>1, <1>2
<1> QED BY <1>2, <1>7, <1>8 DEF F

\* Storing a buffer stores the frame just written into it.
LEMMA FramesAppend ==
  ASSUME NEW s \in Seq(Buffers), NEW f \in [Buffers -> Nat], NEW b \in Buffers,
         NEW n \in Nat, \A i \in 1..Len(s) : s[i] # b
  PROVE  Frames(Append(s, b), [f EXCEPT ![b] = n]) = Append(Frames(s, f), n)
<1> DEFINE F == Frames(s, f)
           g == [f EXCEPT ![b] = n]
           k == Len(s)
           G == Frames(Append(s, b), g)
<1>1. /\ k \in Nat /\ \A i \in 1..k : s[i] \in Buffers
      /\ Append(s, b) \in Seq(Buffers) /\ Len(Append(s, b)) = k + 1
      /\ \A i \in 1..k : Append(s, b)[i] = s[i]
      /\ Append(s, b)[k+1] = b
  BY LenProperties, ElementOfSeq, AppendProperties
<1>2. g \in [Buffers -> Nat] /\ g[b] = n /\ \A c \in Buffers : c # b => g[c] = f[c]
  OBVIOUS
<1>3. /\ F \in Seq(Nat) /\ Len(F) = k /\ \A i \in 1..k : F[i] = f[s[i]]
  BY FramesSeq
<1>4. /\ G \in Seq(Nat) /\ Len(G) = k + 1
      /\ \A i \in 1..k+1 : G[i] = g[Append(s, b)[i]]
  <2> DEFINE a == Append(s, b)
  <2>1. a \in Seq(Buffers) /\ Len(a) = k + 1 /\ G = Frames(a, g)
    BY <1>1
  <2> HIDE DEF g, a, G, k
  <2>2. /\ Frames(a, g) \in Seq(Nat) /\ Len(Frames(a, g)) = Len(a)
        /\ \A i \in 1..Len(a) : Frames(a, g)[i] = g[a[i]]
    BY <2>1, <1>2, FramesSeq
  <2> QED BY <2>1, <2>2 DEF a
<1> HIDE DEF F, g, G
<1>5. /\ Append(F, n) \in Seq(Nat) /\ Len(Append(F, n)) = k + 1
      /\ \A i \in 1..k : Append(F, n)[i] = F[i]
      /\ Append(F, n)[k+1] = n
  BY <1>3, AppendProperties
<1>6. \A i \in 1..k+1 : G[i] = Append(F, n)[i]
  <2> TAKE i \in 1..k+1
  <2>1. CASE i \in 1..k
    BY <2>1, <1>1, <1>2, <1>3, <1>4, <1>5
  <2>2. CASE i = k + 1
    BY <2>2, <1>1, <1>2, <1>4, <1>5
  <2>3. i \in 1..k \/ i = k + 1
    <3>1. k \in Nat /\ i \in 1..k+1
      BY <1>1
    <3> HIDE DEF k
    <3> QED BY <3>1
  <2> QED BY <2>1, <2>2, <2>3
<1>7. G = Append(F, n)
  BY <1>4, <1>5, <1>6, SeqEqual
<1> QED BY <1>7 DEF F, g, G

\* What the abstract channel sees of a state.
LEMMA Mapped ==
  ASSUME TypeOK
  PROVE  /\ out \in Seq(Buffers) /\ frame \in [Buffers -> Nat]
         /\ Frames(out, frame) \in Seq(Nat) /\ Len(Frames(out, frame)) = Len(out)
         /\ Frames(out, frame) = <<>> <=> out = <<>>
<1>1. out \in Seq(Buffers) /\ frame \in [Buffers -> Nat]
  BY DPipeAssumption DEF TypeOK
<1> QED BY <1>1, FramesSeq

\* An idle thread leaves room for one more holder.
LEMMA RoomToHold ==
  ASSUME TypeOK, NEW t \in Threads, held[t] = NoBuffer
  PROVE  Cardinality(Holders) < Cardinality(Threads)
<1>1. Holders \subseteq Threads \ {t}
  BY DEF Holders
<1>2. /\ IsFiniteSet(Threads \ {t}) /\ Cardinality(Threads \ {t}) = Cardinality(Threads) - 1
      /\ Cardinality(Threads) \in Nat
  BY FS_RemoveElement, FS_CardinalityType, DPipeAssumption
<1>3. Cardinality(Holders) <= Cardinality(Threads \ {t})
  BY <1>1, <1>2, FS_Subset
<1> QED BY <1>2, <1>3, Finite

\* Getting a buffer begins a frame: the eldest goes when no buffer is free.
LEMMA GetRefines ==
  ASSUME IInv, NEW w \in Writers, GetFree(w) \/ GetEldest(w)
  PROVE  Channel!Begin
<1> DEFINE W == Frames(out, frame)
<1>1. w \in Threads /\ TypeOK /\ held[w] = NoBuffer
  BY DEF Threads, IInv, Conserved, GetFree, GetEldest, TypeOK
<1>2. /\ W \in Seq(Nat) /\ Len(W) = Len(out)
      /\ W = <<>> <=> out = <<>>
      /\ out \in Seq(Buffers) /\ frame \in [Buffers -> Nat]
  BY <1>1, Mapped
<1>3. Cardinality(Holders) < Cardinality(Threads)
  BY <1>1, RoomToHold
<1>4. /\ Cardinality(in) + Len(out) + Cardinality(Holders) = Cardinality(Buffers)
      /\ Cardinality(in) \in Nat /\ Len(out) \in Nat /\ Cardinality(Holders) \in Nat
  BY <1>1, Finite DEF IInv, Counted
<1>5. Channel!AllInUse <=> Cardinality(in) = 0
  <2>1. Channel!AllInUse <=> Len(W) + Cardinality(Holders) = Cardinality(Buffers)
    BY DEF Channel!AllInUse, Frames
  <2>2. Len(W) + Cardinality(Holders) = Cardinality(Buffers) <=> Cardinality(in) = 0
    <3> HIDE DEF W
    <3> QED BY <1>2, <1>4
  <2> QED BY <2>1, <2>2
<1>6. Channel!AllInUse <=> in = {}
  BY <1>1, <1>5, Finite, FS_EmptySet
<1>7. stored' = stored /\ last' = last /\ frame' = frame
  BY DEF GetFree, GetEldest
<1>8. CASE GetFree(w)
  <2>1. PICK b \in in : Hold(w, b)
    BY <1>8 DEF GetFree
  <2>2. b \in Buffers
    BY <1>1 DEF TypeOK
  <2>3. Cardinality(Holders') = Cardinality(Holders) + 1
    BY <1>1, <2>1, <2>2, Takes
  <2>4. out' = out /\ in # {}
    BY <1>8, <2>1 DEF GetFree
  <2> QED BY <1>3, <1>6, <1>7, <2>3, <2>4 DEF Channel!Begin
<1>9. CASE GetEldest(w)
  <2>1. in = {} /\ out # <<>> /\ Hold(w, Head(out)) /\ out' = Tail(out)
    BY <1>9 DEF GetEldest, TakeEldest
  <2>2. Head(out) \in Buffers
    BY <1>1, <2>1, Eldest
  <2>3. Cardinality(Holders') = Cardinality(Holders) + 1
    BY <1>1, <2>1, <2>2, Takes
  <2>4. Frames(out', frame') = Tail(W) /\ W # <<>>
    <3>1. Frames(Tail(out), frame) = Tail(W)
      BY <1>2, <2>1, FramesTail
    <3> HIDE DEF W
    <3> QED BY <3>1, <1>2, <1>7, <2>1
  <2> QED BY <1>3, <1>6, <1>7, <2>1, <2>3, <2>4 DEF Channel!Begin, Frames
<1> QED BY <1>8, <1>9

\* Store is the channel's Store.
LEMMA StoreRefines ==
  ASSUME IInv, NEW w \in Writers, Store(w, stored + 1)
  PROVE  Channel!Store
<1> DEFINE b == held[w]
<1>1. w \in Threads /\ TypeOK /\ Conserved
  BY DEF Threads, IInv, Conserved
<1>2. /\ b # NoBuffer /\ b \in Buffers /\ Release(w) /\ pc[w] = "writing"
      /\ frame' = [frame EXCEPT ![b] = stored + 1] /\ out' = Append(out, b)
      /\ stored' = stored + 1 /\ last' = last
  BY <1>1 DEF Store, Enqueue, TypeOK
<1>3. /\ out \in Seq(Buffers) /\ frame \in [Buffers -> Nat]
      /\ \A i \in 1..Len(out) : out[i] # b
      /\ stored \in Nat /\ stored + 1 \in Nat
  BY <1>1, <1>2, Mapped DEF Conserved, TypeOK
<1>4. Frames(out', frame') = Append(Frames(out, frame), stored + 1)
  <2> HIDE DEF b
  <2>1. Frames(Append(out, b), [frame EXCEPT ![b] = stored + 1])
          = Append(Frames(out, frame), stored + 1)
    BY <1>2, <1>3, FramesAppend
  <2> QED BY <2>1, <1>2
<1>5. Cardinality(Holders') = Cardinality(Holders) - 1
  BY <1>1, <1>2, Releases
<1>6. Cardinality(Holders) > 0
  <2>1. Holders # {}
    BY <1>1, <1>2 DEF Holders
  <2> QED BY <2>1, <1>1, Finite, FS_EmptySet
<1>7. stored < MaxFrames
  <2>1. Writing # {}
    BY <1>2 DEF Writing
  <2>2. Cardinality(Writing) > 0
    BY <2>1, <1>1, Finite, FS_EmptySet
  <2> QED BY <2>2, <1>1, <1>3, Finite, DPipeAssumption DEF IInv, Counted
<1> QED BY <1>2, <1>4, <1>5, <1>6, <1>7 DEF Channel!Store, Frames

\* Load is the channel's Load.
LEMMA LoadRefines ==
  ASSUME IInv, NEW r \in Readers, Load(r)
  PROVE  Channel!Load
<1>1. r \in Threads /\ TypeOK /\ held[r] = NoBuffer
  BY DEF Threads, IInv, Conserved, Load, Looking, Awake, TypeOK
<1>2. /\ out # <<>> /\ Hold(r, Head(out)) /\ out' = Tail(out)
      /\ frame' = frame /\ stored' = stored /\ last' = frame[Head(out)]
  BY DEF Load, TakeEldest
<1>3. Head(out) \in Buffers
  BY <1>1, <1>2, Eldest
<1>4. Cardinality(Holders') = Cardinality(Holders) + 1
  BY <1>1, <1>2, <1>3, Takes
<1>5. Cardinality(Holders) < Cardinality(Threads)
  BY <1>1, RoomToHold
<1>6. /\ Frames(out', frame') = Tail(Frames(out, frame))
      /\ Frames(out, frame) # <<>> /\ last' = Head(Frames(out, frame))
  BY <1>1, <1>2, Mapped, FramesTail
<1> QED BY <1>2, <1>4, <1>5, <1>6 DEF Channel!Load, Frames

\* Put is the channel's Finish.
LEMMA PutRefines ==
  ASSUME IInv, NEW r \in Readers, Put(r)
  PROVE  Channel!Finish
<1>1. r \in Threads /\ TypeOK /\ held[r] # NoBuffer /\ Release(r)
  BY DEF Threads, IInv, Conserved, Put, TypeOK
<1>2. Cardinality(Holders') = Cardinality(Holders) - 1
  BY <1>1, Releases
<1>3. Cardinality(Holders) > 0
  <2>1. Holders # {}
    BY <1>1 DEF Holders
  <2> QED BY <2>1, <1>1, Finite, FS_EmptySet
<1> QED BY <1>2, <1>3 DEF Channel!Finish, Put

\* Every step of the pipe is one of the channel or changes nothing it sees: the
\* waits, the signals and a get that returns NULL are stutters.
THEOREM ImplementsChannel == Spec => ChannelSpec
<1>1. Init => Channel!Init
  <2> SUFFICES ASSUME Init PROVE Channel!Init
    OBVIOUS
  <2>1. Holders = {} /\ Cardinality(Holders) = 0
    BY FS_EmptySet DEF Init, Holders
  <2>2. TypeOK /\ out = <<>>
    BY InitInv DEF IInv, Conserved, Init
  <2>3. Frames(out, frame) = <<>>
    BY <2>2, Mapped
  <2> QED BY <2>1, <2>3 DEF Init, Channel!Init, Frames
<1>2. IInv /\ [Next]_vars => [Channel!Next]_(Channel!vars)
  <2> SUFFICES ASSUME IInv, [Next]_vars
               PROVE  Channel!Next \/ UNCHANGED Channel!vars
    OBVIOUS
  <2>1. ASSUME UNCHANGED <<pool, stored, last>>
        PROVE  UNCHANGED Channel!vars
    BY <2>1 DEF pool, Channel!vars, Holders
  <2>2. ASSUME NEW w \in Writers, Get(w)
        PROVE  Channel!Next \/ UNCHANGED Channel!vars
    <3>1. CASE GetFree(w) \/ GetEldest(w)
      BY <3>1, GetRefines DEF Channel!Next
    <3>2. CASE GetNull(w)
      BY <3>2, <2>1 DEF GetNull
    <3> QED BY <2>2, <3>1, <3>2 DEF Get
  <2>3. ASSUME NEW w \in Writers, Store(w, stored + 1)
        PROVE  Channel!Next
    BY <2>3, StoreRefines DEF Channel!Next
  <2>4. ASSUME NEW w \in Writers, Signal(w)
        PROVE  UNCHANGED Channel!vars
    BY <2>4, <2>1 DEF Signal
  <2>5. ASSUME NEW r \in Readers, Read(r)
        PROVE  Channel!Next \/ UNCHANGED Channel!vars
    <3>1. CASE Load(r)
      BY <3>1, LoadRefines DEF Channel!Next
    <3>2. CASE Wait(r) \/ LoadNull(r)
      BY <3>2, <2>1 DEF Wait, LoadNull
    <3> QED BY <2>5, <3>1, <3>2 DEF Read
  <2>6. ASSUME NEW r \in Readers, TimeOut(r) \/ SpuriousWakeup(r)
        PROVE  UNCHANGED Channel!vars
    BY <2>6, <2>1 DEF TimeOut, SpuriousWakeup
  <2>7. ASSUME NEW r \in Readers, Put(r)
        PROVE  Channel!Next
    BY <2>7, PutRefines DEF Channel!Next
  <2>8. CASE UNCHANGED vars
    BY <2>8, <2>1 DEF vars, pool
  <2> QED BY <2>2, <2>3, <2>4, <2>5, <2>6, <2>7, <2>8 DEF Next
<1> QED BY <1>1, <1>2, Invariance, PTL DEF Spec, ChannelSpec, Channel!Spec
-----------------------------------------------------------------------------
(***************************************************************************)
(* What holds of the pipe and what each call does, for the proofs about    *)
(* the threads that use it.                                                *)
(***************************************************************************)
\* Where the buffers and the threads are.
LEMMA PipeFacts ==
  ASSUME IInv
  PROVE  /\ out \in Seq(Buffers) /\ frame \in [Buffers -> 0..MaxFrames]
         /\ stored \in 0..MaxFrames /\ last \in 0..MaxFrames
         /\ \A w \in Writers : pc[w] \in {"idle", "writing", "signalling", "null"}
         /\ \A r \in Readers : pc[r] \in {"idle", "waiting", "reading",
                                          "signalled", "timedout", "spurious"}
         /\ \A t \in Threads :
              /\ held[t] \in Buffers \cup {NoBuffer}
              /\ held[t] # NoBuffer <=> pc[t] \in {"writing", "reading"}
              /\ held[t] # NoBuffer => \A u \in Threads : u # t => held[u] # held[t]
         /\ in = {} /\ out = <<>> => \A b \in Buffers : \E t \in Threads : held[t] = b
<1>1. TypeOK /\ Conserved
  BY DEF IInv, Conserved
<1>2. in = {} /\ out = <<>> => \A b \in Buffers : \E t \in Threads : held[t] = b
  <2>1. out = <<>> => ~\E i \in 1..Len(out) : TRUE
    BY <1>1, EmptySeq DEF TypeOK
  <2> QED BY <1>1, <2>1 DEF Conserved
<1>3. /\ \A w \in Writers : pc[w] \in {"idle", "writing", "signalling", "null"}
      /\ \A r \in Readers : pc[r] \in {"idle", "waiting", "reading",
                                       "signalled", "timedout", "spurious"}
  BY <1>1 DEF TypeOK, WriterPCs, ReaderPCs, Awake
<1>4. \A t \in Threads :
        /\ held[t] \in Buffers \cup {NoBuffer}
        /\ held[t] # NoBuffer <=> pc[t] \in {"writing", "reading"}
        /\ held[t] # NoBuffer => \A u \in Threads : u # t => held[u] # held[t]
  BY <1>1 DEF TypeOK, Conserved
<1> QED BY <1>1, <1>2, <1>3, <1>4 DEF TypeOK

\* dpipe_get takes a free buffer or the eldest frame, and NULL without them.
LEMMA GetDoes ==
  ASSUME IInv, NEW w \in Writers, Get(w)
  PROVE  /\ pc[w] = "idle" /\ pc'[w] \in {"writing", "null"}
         /\ \A t \in Threads \ {w} : pc'[t] = pc[t] /\ held'[t] = held[t]
         /\ UNCHANGED <<frame, stored, last>>
         /\ out' = out \/ (out # <<>> /\ out' = Tail(out))
         /\ pc'[w] = "null" => in = {} /\ out = <<>>
<1>1. w \in Threads /\ TypeOK
  BY DEF Threads, IInv, Conserved
<1>2. CASE GetFree(w)
  BY <1>1, <1>2 DEF GetFree, Goto, Hold, TypeOK
<1>3. CASE GetEldest(w)
  BY <1>1, <1>3 DEF GetEldest, Goto, Hold, TakeEldest, TypeOK
<1>4. CASE GetNull(w)
  BY <1>1, <1>4 DEF GetNull, Goto, pool, TypeOK
<1> QED BY <1>2, <1>3, <1>4 DEF Get

\* dpipe_store appends the writer's buffer, which is nobody else's.
LEMMA StoreDoes ==
  ASSUME IInv, NEW w \in Writers, NEW f, Store(w, f)
  PROVE  /\ pc[w] = "writing" /\ pc'[w] = "signalling"
         /\ \A t \in Threads \ {w} : /\ pc'[t] = pc[t] /\ held'[t] = held[t]
                                     /\ held[t] # held[w]
         /\ held[w] \in Buffers /\ \A i \in 1..Len(out) : out[i] # held[w]
         /\ frame' = [frame EXCEPT ![held[w]] = f] /\ out' = Append(out, held[w])
         /\ stored' = stored + 1 /\ last' = last
<1>1. w \in Threads /\ TypeOK /\ Conserved
  BY DEF Threads, IInv, Conserved
<1>2. held[w] # NoBuffer /\ held[w] \in Buffers
  BY <1>1 DEF Store, TypeOK
<1>3. /\ \A i \in 1..Len(out) : out[i] # held[w]
      /\ \A t \in Threads \ {w} : held[t] # held[w]
  BY <1>1, <1>2 DEF Conserved
<1>4. /\ pc[w] = "writing" /\ pc'[w] = "signalling"
      /\ \A t \in Threads \ {w} : pc'[t] = pc[t] /\ held'[t] = held[t]
  BY <1>1 DEF Store, Goto, Release, Hold, TypeOK
<1> QED BY <1>2, <1>3, <1>4 DEF Store, Enqueue

\* The signal wakes one reader at most.
LEMMA SignalDoes ==
  ASSUME IInv, NEW w \in Writers, Signal(w)
  PROVE  /\ pc[w] = "signalling" /\ pc'[w] = "idle"
         /\ \A t \in Threads \ {w} :
              pc'[t] = pc[t] \/ (pc[t] = "waiting" /\ pc'[t] = "signalled")
         /\ UNCHANGED <<in, out, frame, held, stored, last>>
<1>1. w \in Threads /\ w \notin Readers /\ TypeOK
  BY DPipeAssumption DEF Threads, IInv, Conserved
<1>2. CASE Waiting = {}
  BY <1>1, <1>2 DEF Signal, Goto, pool, TypeOK
<1>3. CASE Waiting # {}
  <2>1. PICK r \in Waiting : pc' = [pc EXCEPT ![w] = "idle", ![r] = "signalled"]
    BY <1>3 DEF Signal
  <2>2. r \in Threads /\ r # w /\ pc[r] = "waiting"
    BY <1>1 DEF Waiting, Threads
  <2> QED BY <1>1, <2>1, <2>2 DEF Signal, pool, TypeOK
<1> QED BY <1>2, <1>3

\* dpipe_load takes the eldest frame, waits, or gives up.
LEMMA ReadDoes ==
  ASSUME IInv, NEW r \in Readers, Read(r)
  PROVE  /\ pc[r] \in {"idle", "signalled", "timedout", "spurious"}
         /\ \A t \in Threads \ {r} : pc'[t] = pc[t] /\ held'[t] = held[t]
         /\ UNCHANGED <<frame, stored>>
         /\ \/ /\ Load(r) /\ pc'[r] = "reading"
               /\ out # <<>> /\ out' = Tail(out)
               /\ held'[r] = Head(out) /\ last' = frame[Head(out)]
            \/ /\ Wait(r) /\ pc'[r] = "waiting"
               /\ UNCHANGED <<out, held, last>>
            \/ /\ LoadNull(r) /\ pc'[r] = "idle" /\ r \in Timed
               /\ UNCHANGED <<out, held, last>>
<1>1. r \in Threads /\ TypeOK
  BY DEF Threads, IInv, Conserved
<1>2. CASE Load(r)
  BY <1>1, <1>2 DEF Load, Looking, Awake, Goto, Hold, TakeEldest, TypeOK
<1>3. CASE Wait(r)
  BY <1>1, <1>3 DEF Wait, Looking, Awake, Goto, pool, TypeOK
<1>4. CASE LoadNull(r)
  BY <1>1, <1>4 DEF LoadNull, Awake, Goto, pool, TypeOK
<1> QED BY <1>2, <1>3, <1>4 DEF Read

\* A wait ends by itself.
LEMMA WakeDoes ==
  ASSUME IInv, NEW r \in Readers, TimeOut(r) \/ SpuriousWakeup(r)
  PROVE  /\ pc[r] = "waiting" /\ pc'[r] \in {"timedout", "spurious"}
         /\ \A t \in Threads \ {r} : pc'[t] = pc[t]
         /\ UNCHANGED <<out, frame, held, stored, last>>
<1>1. r \in Threads /\ TypeOK
  BY DEF Threads, IInv, Conserved
<1> QED BY <1>1 DEF TimeOut, SpuriousWakeup, Goto, pool, TypeOK

\* dpipe_put gives the buffer back.
LEMMA PutDoes ==
  ASSUME IInv, NEW r \in Readers, Put(r)
  PROVE  /\ pc[r] = "reading" /\ pc'[r] = "idle"
         /\ \A t \in Threads \ {r} : pc'[t] = pc[t] /\ held'[t] = held[t]
         /\ UNCHANGED <<out, frame, stored, last>>
<1>1. r \in Threads /\ TypeOK
  BY DEF Threads, IInv, Conserved
<1> QED BY <1>1 DEF Put, Goto, Release, Hold, TypeOK
=============================================================================
