------------------------ MODULE FramePipelineProofs ------------------------
(***************************************************************************)
(* Proofs about the video path of the server, for any number of buffers,   *)
(* frames and sessions: no buffer is lost, no thread is given NULL, and    *)
(* frames are encoded in the order they were captured.                     *)
(*                                                                         *)
(* What DPipeProofs proves of the steps of a pipe is taken for both pipes. *)
(***************************************************************************)
EXTENDS FramePipeline, SequenceTheorems, FiniteSetTheorems, TLAPS

SrcP == INSTANCE DPipeProofs
  WITH Buffers <- SrcBuffers, Writers <- {Capture}, Readers <- {Filter},
       Timed <- {}, in <- srcIn, out <- srcOut, frame <- srcFrame,
       held <- srcHeld, pc <- srcPc, stored <- srcStored, last <- srcLast

DstP == INSTANCE DPipeProofs
  WITH Buffers <- DstBuffers, Writers <- {Filter}, Readers <- {Encoder},
       Timed <- {Encoder}, in <- dstIn, out <- dstOut, frame <- dstFrame,
       held <- dstHeld, pc <- dstPc, stored <- dstStored, last <- dstLast

\* The frames f of the buffers s come in order, after lo and up to hi.
InOrder(s, f, lo, hi) ==
  /\ \A i \in 1..Len(s) : lo < f[s[i]] /\ f[s[i]] <= hi
  /\ \A i, j \in 1..Len(s) : i < j => f[s[i]] < f[s[j]]

\* The source pipe has frames after the one loaded last, up to the newest.
SrcOrder ==
  /\ srcLast <= srcStored
  /\ InOrder(srcOut, srcFrame, srcLast, srcStored)
  /\ srcPc[Filter] = "reading" => srcFrame[srcHeld[Filter]] = srcLast

\* The filter's pipe has frames up to the one converted last, and up to the one
\* before it while that is not stored.
DstOrder ==
  /\ dstLast <= converted
  /\ InOrder(dstOut, dstFrame, dstLast, converted)
  /\ dstPc[Filter] = "writing" /\ srcPc[Filter] = "idle" =>
       dstLast < converted /\ \A i \in 1..Len(dstOut) : dstFrame[dstOut[i]] < converted
  /\ dstPc[Encoder] = "reading" => dstFrame[dstHeld[Encoder]] = dstLast /\ encoded < dstLast
  /\ encoded <= dstLast

\* What the filter does with the two pipes: it stores each frame it loads once,
\* so it never has more to store than were captured.
Filters ==
  /\ converted <= srcLast
  /\ srcPc[Filter] = "reading" => converted < srcLast /\ dstPc[Filter] \in {"idle", "writing"}
  /\ srcPc[Filter] \notin {"idle", "reading"} => dstPc[Filter] = "idle"
  /\ dstStored + (IF srcPc[Filter] = "reading" \/ dstPc[Filter] = "writing" THEN 1 ELSE 0)
       <= srcLast

\* The encoder thread is in the pipe only in its load, and there is one while it
\* is launched and until it is joined.
Sessions ==
  /\ OneEncoder
  /\ encoder # "load" => dstPc[Encoder] = "idle"
  /\ server = "joining" => ~threadLaunched /\ encoder # "none"
  /\ server = "idle" /\ ~threadLaunched => encoder = "none"

NoNull == srcPc[Capture] # "null" /\ dstPc[Filter] # "null"

Pipes == SrcP!IInv /\ DstP!IInv

IInv == TypeOK /\ Pipes /\ NoNull /\ SrcOrder /\ DstOrder /\ Filters /\ Sessions
-----------------------------------------------------------------------------
\* The assumptions about a pipe hold of both.
LEMMA Assumed == SrcP!DPipeAssumption /\ DstP!DPipeAssumption
<1>1. IsFiniteSet({Capture, Filter}) /\ IsFiniteSet({Filter, Encoder})
  <2>1. IsFiniteSet({Capture}) /\ IsFiniteSet({Filter})
    BY FS_Singleton
  <2>2. IsFiniteSet({Capture} \cup {Filter}) /\ IsFiniteSet({Filter} \cup {Encoder})
    BY <2>1, FS_AddElement
  <2>3. {Capture} \cup {Filter} = {Capture, Filter} /\ {Filter} \cup {Encoder} = {Filter, Encoder}
    OBVIOUS
  <2> QED BY <2>2, <2>3
<1>2. /\ \A S : SrcP!IsFiniteSet(S) <=> IsFiniteSet(S)
      /\ \A S : DstP!IsFiniteSet(S) <=> IsFiniteSet(S)
  BY DEF SrcP!IsFiniteSet, DstP!IsFiniteSet, IsFiniteSet
<1>3. {Capture} \cup {Filter} = {Capture, Filter} /\ {Filter} \cup {Encoder} = {Filter, Encoder}
  OBVIOUS
<1> QED BY <1>1, <1>2, <1>3, FramePipelineAssumption
  DEF SrcP!DPipeAssumption, DstP!DPipeAssumption, SrcP!Threads, DstP!Threads

\* The steps of the source pipe are those that DPipeProofs is about.
LEMMA SrcSteps ==
  /\ \A t : Src!MayStart /\ Src!Get(t) => SrcP!MayStart /\ SrcP!Get(t)
  /\ \A t, f : Src!Store(t, f) => SrcP!Store(t, f)
  /\ \A t : Src!Signal(t) => SrcP!Signal(t)
  /\ \A t : Src!Read(t) => SrcP!Read(t)
  /\ \A t : Src!SpuriousWakeup(t) => SrcP!SpuriousWakeup(t)
  /\ \A t : Src!Put(t) => SrcP!Put(t)
<1> USE DEF Src!Goto, Src!Hold, Src!Release, Src!TakeEldest, Src!Enqueue, Src!Free, Src!pool,
  SrcP!Goto, SrcP!Hold, SrcP!Release, SrcP!TakeEldest, SrcP!Enqueue, SrcP!Free, SrcP!pool
<1>1. \A S : Src!Cardinality(S) = SrcP!Cardinality(S)
  BY DEF Src!Cardinality, SrcP!Cardinality
<1>2. \A t : Src!MayStart /\ Src!Get(t) => SrcP!MayStart /\ SrcP!Get(t)
  BY <1>1 DEF Src!MayStart, SrcP!MayStart, Src!Get, SrcP!Get, Src!GetFree, SrcP!GetFree,
    Src!GetEldest, SrcP!GetEldest, Src!GetNull, SrcP!GetNull
<1>3. \A t, f : Src!Store(t, f) => SrcP!Store(t, f)
  BY DEF Src!Store, SrcP!Store
<1>4. \A t : Src!Signal(t) => SrcP!Signal(t)
  BY DEF Src!Signal, SrcP!Signal, Src!Waiting, SrcP!Waiting
<1>5. \A t : Src!Read(t) => SrcP!Read(t)
  BY DEF Src!Read, SrcP!Read, Src!Load, SrcP!Load, Src!Wait, SrcP!Wait, Src!LoadNull,
    SrcP!LoadNull, Src!Looking, SrcP!Looking, Src!Awake, SrcP!Awake
<1>6. \A t : Src!SpuriousWakeup(t) => SrcP!SpuriousWakeup(t)
  BY DEF Src!SpuriousWakeup, SrcP!SpuriousWakeup
<1>7. \A t : Src!Put(t) => SrcP!Put(t)
  BY DEF Src!Put, SrcP!Put
<1> QED BY <1>2, <1>3, <1>4, <1>5, <1>6, <1>7

\* So are those of the filter's pipe.
LEMMA DstSteps ==
  /\ \A t : Dst!Get(t) => DstP!Get(t)
  /\ \A t, f : Dst!Store(t, f) => DstP!Store(t, f)
  /\ \A t : Dst!Signal(t) => DstP!Signal(t)
  /\ \A t : Dst!Load(t) \/ Dst!Wait(t) \/ Dst!LoadNull(t) => DstP!Read(t)
  /\ \A t : Dst!TimeOut(t) => DstP!TimeOut(t)
  /\ \A t : Dst!SpuriousWakeup(t) => DstP!SpuriousWakeup(t)
  /\ \A t : Dst!Put(t) => DstP!Put(t)
<1> USE DEF Dst!Goto, Dst!Hold, Dst!Release, Dst!TakeEldest, Dst!Enqueue, Dst!Free, Dst!pool,
  DstP!Goto, DstP!Hold, DstP!Release, DstP!TakeEldest, DstP!Enqueue, DstP!Free, DstP!pool
<1>2. \A t : Dst!Get(t) => DstP!Get(t)
  BY DEF Dst!Get, DstP!Get, Dst!GetFree, DstP!GetFree,
    Dst!GetEldest, DstP!GetEldest, Dst!GetNull, DstP!GetNull
<1>3. \A t, f : Dst!Store(t, f) => DstP!Store(t, f)
  BY DEF Dst!Store, DstP!Store
<1>4. \A t : Dst!Signal(t) => DstP!Signal(t)
  BY DEF Dst!Signal, DstP!Signal, Dst!Waiting, DstP!Waiting
<1>5. \A t : Dst!Load(t) \/ Dst!Wait(t) \/ Dst!LoadNull(t) => DstP!Read(t)
  BY DEF DstP!Read, Dst!Load, DstP!Load, Dst!Wait, DstP!Wait, Dst!LoadNull,
    DstP!LoadNull, Dst!Looking, DstP!Looking, Dst!Awake, DstP!Awake
<1>6. \A t : Dst!SpuriousWakeup(t) => DstP!SpuriousWakeup(t)
  BY DEF Dst!SpuriousWakeup, DstP!SpuriousWakeup
<1>7. \A t : Dst!Put(t) => DstP!Put(t)
  BY DEF Dst!Put, DstP!Put
<1>8. \A t : Dst!TimeOut(t) => DstP!TimeOut(t)
  BY DEF Dst!TimeOut, DstP!TimeOut
<1> QED BY <1>2, <1>3, <1>4, <1>5, <1>6, <1>7, <1>8
-----------------------------------------------------------------------------
\* Without its eldest frame a pipe is in order, after that frame.
LEMMA OrderTail ==
  ASSUME NEW B, NEW s \in Seq(B), s # <<>>, NEW f \in [B -> Nat], NEW lo \in Nat, NEW hi \in Nat,
         InOrder(s, f, lo, hi)
  PROVE  /\ InOrder(Tail(s), f, lo, hi) /\ InOrder(Tail(s), f, f[Head(s)], hi)
         /\ lo < f[Head(s)] /\ f[Head(s)] <= hi /\ f[Head(s)] \in Nat
         /\ \A i \in 1..Len(Tail(s)) : \E j \in 1..Len(s) : Tail(s)[i] = s[j]
         /\ \E j \in 1..Len(s) : Head(s) = s[j]
<1>1. /\ Len(Tail(s)) = Len(s) - 1 /\ Len(s) \in Nat \ {0} /\ Head(s) = s[1]
      /\ \A i \in 1..Len(Tail(s)) : Tail(s)[i] = s[i+1]
      /\ Head(s) \in B /\ f[Head(s)] \in Nat
  BY HeadTailProperties, EmptySeq
<1>2. /\ \A i \in 1..Len(Tail(s)) : i + 1 \in 1..Len(s) /\ 1 < i + 1
      /\ \A i, j \in 1..Len(Tail(s)) : i < j => i + 1 < j + 1
      /\ 1 \in 1..Len(s)
  BY <1>1
<1> QED BY <1>1, <1>2 DEF InOrder

\* A newer frame in another buffer keeps a pipe in order.
LEMMA OrderAppend ==
  ASSUME NEW B, NEW s \in Seq(B), NEW f \in [B -> Nat], NEW lo \in Nat, NEW hi \in Nat,
         InOrder(s, f, lo, hi), NEW b \in B, \A i \in 1..Len(s) : s[i] # b,
         NEW n \in Nat, lo < n, \A i \in 1..Len(s) : f[s[i]] < n
  PROVE  InOrder(Append(s, b), [f EXCEPT ![b] = n], lo, n)
<1> DEFINE t == Append(s, b)
           g == [f EXCEPT ![b] = n]
           k == Len(s)
<1>1. /\ k \in Nat /\ Len(t) = k + 1 /\ t[k+1] = b /\ \A i \in 1..k : t[i] = s[i]
      /\ \A i \in 1..k : s[i] \in B
  BY AppendProperties
<1>2. g[b] = n /\ \A i \in 1..k : g[s[i]] = f[s[i]] /\ f[s[i]] \in Nat
  BY <1>1
<1> HIDE DEF t, g, k
<1>3. \A i \in 1..Len(t) : i \in 1..k \/ i = k + 1
  BY <1>1
<1>4. ASSUME NEW i \in 1..Len(t) PROVE lo < g[t[i]] /\ g[t[i]] <= n
  <2>1. CASE i \in 1..k
    <3>1. lo < f[s[i]] /\ f[s[i]] < n
      BY <2>1 DEF InOrder, k
    <3> QED BY <1>1, <1>2, <2>1, <3>1
  <2>2. CASE i = k + 1
    BY <1>1, <1>2, <2>2
  <2> QED BY <1>3, <2>1, <2>2
<1>5. ASSUME NEW i \in 1..Len(t), NEW j \in 1..Len(t), i < j PROVE g[t[i]] < g[t[j]]
  <2>1. i \in 1..k
    BY <1>1, <1>5
  <2>2. CASE j \in 1..k
    <3>1. f[s[i]] < f[s[j]]
      BY <1>5, <2>1, <2>2 DEF InOrder, k
    <3> QED BY <1>1, <1>2, <2>1, <2>2, <3>1
  <2>3. CASE j = k + 1
    <3>1. f[s[i]] < n
      BY <2>1 DEF k
    <3> QED BY <1>1, <1>2, <2>1, <2>3, <3>1
  <2> QED BY <1>3, <2>2, <2>3
<1> QED BY <1>4, <1>5 DEF InOrder, t, g

\* A pool of two buffers or more is not all in the hands of one thread.
LEMMA TwoBuffers ==
  ASSUME NEW S, IsFiniteSet(S), Cardinality(S) > 1, NEW x
  PROVE  \E b \in S : b # x
<1> SUFFICES ASSUME S \subseteq {x} PROVE FALSE
  OBVIOUS
<1>1. IsFiniteSet({x}) /\ Cardinality({x}) = 1
  BY FS_Singleton
<1>2. Cardinality(S) <= Cardinality({x}) /\ Cardinality(S) \in Nat
  BY <1>1, FS_Subset, FS_CardinalityType
<1> QED BY <1>1, <1>2
-----------------------------------------------------------------------------
\* Where the threads of the source pipe are.
LEMMA SrcFacts ==
  ASSUME SrcP!IInv
  PROVE  /\ srcOut \in Seq(SrcBuffers) /\ srcFrame \in [SrcBuffers -> Nat]
         /\ srcFrame \in [SrcBuffers -> 0..MaxFrames]
         /\ srcStored \in 0..MaxFrames /\ srcLast \in 0..MaxFrames /\ MaxFrames \in Nat
         /\ srcPc[Capture] \in {"idle", "writing", "signalling", "null"}
         /\ srcPc[Filter] \in {"idle", "waiting", "reading", "signalled", "timedout", "spurious"}
         /\ srcHeld[Capture] # NoBuffer <=> srcPc[Capture] = "writing"
         /\ srcHeld[Filter] # NoBuffer <=> srcPc[Filter] = "reading"
         /\ srcHeld[Filter] \in SrcBuffers \cup {NoBuffer}
         /\ srcIn = {} /\ srcOut = <<>> =>
              \A b \in SrcBuffers : srcHeld[Capture] = b \/ srcHeld[Filter] = b
<1>1. SrcP!Threads = {Capture, Filter}
  BY DEF SrcP!Threads
<1>2. MaxFrames \in Nat
  BY FramePipelineAssumption
<1>3. /\ srcOut \in Seq(SrcBuffers) /\ srcFrame \in [SrcBuffers -> 0..MaxFrames]
      /\ srcStored \in 0..MaxFrames /\ srcLast \in 0..MaxFrames
      /\ \A w \in {Capture} : srcPc[w] \in {"idle", "writing", "signalling", "null"}
      /\ \A r \in {Filter} : srcPc[r] \in {"idle", "waiting", "reading",
                                           "signalled", "timedout", "spurious"}
      /\ \A t \in SrcP!Threads :
           /\ srcHeld[t] \in SrcBuffers \cup {NoBuffer}
           /\ srcHeld[t] # NoBuffer <=> srcPc[t] \in {"writing", "reading"}
           /\ srcHeld[t] # NoBuffer =>
                \A u \in SrcP!Threads : u # t => srcHeld[u] # srcHeld[t]
      /\ srcIn = {} /\ srcOut = <<>> =>
           \A b \in SrcBuffers : \E t \in SrcP!Threads : srcHeld[t] = b
  BY Assumed, SrcP!PipeFacts
<1>4. srcFrame \in [SrcBuffers -> Nat]
  BY <1>2, <1>3
<1> QED BY <1>1, <1>2, <1>3, <1>4

\* Where the threads of the filter's pipe are.
LEMMA DstFacts ==
  ASSUME DstP!IInv
  PROVE  /\ dstOut \in Seq(DstBuffers) /\ dstFrame \in [DstBuffers -> Nat]
         /\ dstFrame \in [DstBuffers -> 0..MaxFrames]
         /\ dstStored \in 0..MaxFrames /\ dstLast \in 0..MaxFrames /\ MaxFrames \in Nat
         /\ dstPc[Filter] \in {"idle", "writing", "signalling", "null"}
         /\ dstPc[Encoder] \in {"idle", "waiting", "reading", "signalled", "timedout", "spurious"}
         /\ dstHeld[Filter] # NoBuffer <=> dstPc[Filter] = "writing"
         /\ dstHeld[Encoder] # NoBuffer <=> dstPc[Encoder] = "reading"
         /\ dstHeld[Encoder] \in DstBuffers \cup {NoBuffer}
         /\ dstIn = {} /\ dstOut = <<>> =>
              \A b \in DstBuffers : dstHeld[Filter] = b \/ dstHeld[Encoder] = b
<1>1. DstP!Threads = {Filter, Encoder}
  BY DEF DstP!Threads
<1>2. MaxFrames \in Nat
  BY FramePipelineAssumption
<1>3. /\ dstOut \in Seq(DstBuffers) /\ dstFrame \in [DstBuffers -> 0..MaxFrames]
      /\ dstStored \in 0..MaxFrames /\ dstLast \in 0..MaxFrames
      /\ \A w \in {Filter} : dstPc[w] \in {"idle", "writing", "signalling", "null"}
      /\ \A r \in {Encoder} : dstPc[r] \in {"idle", "waiting", "reading",
                                            "signalled", "timedout", "spurious"}
      /\ \A t \in DstP!Threads :
           /\ dstHeld[t] \in DstBuffers \cup {NoBuffer}
           /\ dstHeld[t] # NoBuffer <=> dstPc[t] \in {"writing", "reading"}
           /\ dstHeld[t] # NoBuffer =>
                \A u \in DstP!Threads : u # t => dstHeld[u] # dstHeld[t]
      /\ dstIn = {} /\ dstOut = <<>> =>
           \A b \in DstBuffers : \E t \in DstP!Threads : dstHeld[t] = b
  BY Assumed, DstP!PipeFacts
<1>4. dstFrame \in [DstBuffers -> Nat]
  BY <1>2, <1>3
<1> QED BY <1>1, <1>2, <1>3, <1>4

\* A step that leaves a pipe alone keeps its invariant.
LEMMA SrcSame ==
  ASSUME SrcP!IInv, UNCHANGED srcvars
  PROVE  SrcP!IInv'
BY Assumed, SrcP!OtherInv DEF srcvars, SrcP!vars

LEMMA DstSame ==
  ASSUME DstP!IInv, UNCHANGED dstvars
  PROVE  DstP!IInv'
BY Assumed, DstP!OtherInv DEF dstvars, DstP!vars

\* The capture thread is given a buffer: the filter has one at most.
LEMMA CaptureGetInv ==
  ASSUME IInv, CaptureGet
  PROVE  IInv'
<1>1. SrcP!MayStart /\ SrcP!Get(Capture)
  BY SrcSteps DEF CaptureGet
<1>2. SrcP!IInv' /\ DstP!IInv'
  BY <1>1, Assumed, SrcP!WriterInv, DstSame DEF IInv, Pipes, CaptureGet
<1>3. /\ srcPc[Capture] = "idle" /\ srcPc'[Capture] \in {"writing", "null"}
      /\ srcPc'[Filter] = srcPc[Filter] /\ srcHeld'[Filter] = srcHeld[Filter]
      /\ UNCHANGED <<srcFrame, srcStored, srcLast>>
      /\ srcOut' = srcOut \/ (srcOut # <<>> /\ srcOut' = Tail(srcOut))
      /\ srcPc'[Capture] = "null" => srcIn = {} /\ srcOut = <<>>
  <2>1. Filter \in SrcP!Threads \ {Capture}
    BY FramePipelineAssumption DEF SrcP!Threads
  <2> QED BY <1>1, <2>1, Assumed, SrcP!GetDoes DEF IInv, Pipes
<1>4. NoNull'
  <2>1. srcPc'[Capture] # "null"
    <3> SUFFICES ASSUME srcIn = {}, srcOut = <<>> PROVE FALSE
      BY <1>3
    <3>1. \A b \in SrcBuffers : srcHeld[Capture] = b \/ srcHeld[Filter] = b
      BY SrcFacts DEF IInv, Pipes
    <3>2. srcHeld[Capture] = NoBuffer
      BY <1>3, SrcFacts DEF IInv, Pipes
    <3>3. PICK b \in SrcBuffers : b # srcHeld[Filter]
      BY TwoBuffers, FramePipelineAssumption
    <3> QED BY <3>1, <3>2, <3>3, FramePipelineAssumption
  <2> QED BY <2>1 DEF IInv, NoNull, CaptureGet, dstvars
<1>5. SrcOrder'
  <2>1. InOrder(srcOut', srcFrame, srcLast, srcStored)
    <3>1. /\ srcOut \in Seq(SrcBuffers) /\ srcFrame \in [SrcBuffers -> Nat]
          /\ srcLast \in Nat /\ srcStored \in Nat
          /\ InOrder(srcOut, srcFrame, srcLast, srcStored)
      BY SrcFacts DEF IInv, Pipes, SrcOrder
    <3>2. srcOut # <<>> => InOrder(Tail(srcOut), srcFrame, srcLast, srcStored)
      BY <3>1, OrderTail
    <3>3. CASE srcOut' = srcOut
      BY <3>1, <3>3
    <3>4. CASE srcOut # <<>> /\ srcOut' = Tail(srcOut)
      BY <3>2, <3>4
    <3> QED BY <1>3, <3>3, <3>4
  <2> QED BY <1>3, <2>1 DEF IInv, SrcOrder
<1>6. UNCHANGED <<dstvars, converted, control, encoded>>
  BY DEF CaptureGet
<1>7. DstOrder' /\ Filters' /\ Sessions' /\ TypeOK'
  BY <1>3, <1>6 DEF IInv, DstOrder, Filters, Sessions, OneEncoder, TypeOK, dstvars, control
<1> QED BY <1>2, <1>4, <1>5, <1>7 DEF IInv, Pipes

\* It stores the next frame, or signals.
LEMMA CaptureStoreInv ==
  ASSUME IInv, CaptureStore
  PROVE  IInv'
<1>1. UNCHANGED <<dstvars, converted, control, encoded>>
  BY DEF CaptureStore
<1>2. Filter \in SrcP!Threads \ {Capture}
  BY FramePipelineAssumption DEF SrcP!Threads
<1>3. CASE Src!Store(Capture, srcStored + 1)
  <2>1. SrcP!Store(Capture, srcStored + 1)
    BY <1>3, SrcSteps
  <2>2. /\ srcPc[Capture] = "writing" /\ srcPc'[Capture] = "signalling"
        /\ srcPc'[Filter] = srcPc[Filter] /\ srcHeld'[Filter] = srcHeld[Filter]
        /\ srcHeld[Filter] # srcHeld[Capture]
        /\ srcHeld[Capture] \in SrcBuffers
        /\ \A i \in 1..Len(srcOut) : srcOut[i] # srcHeld[Capture]
        /\ srcFrame' = [srcFrame EXCEPT ![srcHeld[Capture]] = srcStored + 1]
        /\ srcOut' = Append(srcOut, srcHeld[Capture])
        /\ srcStored' = srcStored + 1 /\ srcLast' = srcLast
    BY <1>2, <2>1, Assumed, SrcP!StoreDoes DEF IInv, Pipes
  <2>3. srcStored + 1 \in 0..MaxFrames
    BY <2>1, Assumed, SrcP!MayStore DEF IInv, Pipes
  <2>4. SrcP!IInv' /\ DstP!IInv'
    BY <1>1, <2>1, <2>3, Assumed, SrcP!WriterInv, DstSame DEF IInv, Pipes
  <2>5. SrcOrder'
    <3>1. /\ srcOut \in Seq(SrcBuffers) /\ srcFrame \in [SrcBuffers -> Nat]
          /\ srcLast \in Nat /\ srcStored \in Nat /\ srcLast <= srcStored
          /\ InOrder(srcOut, srcFrame, srcLast, srcStored)
      BY SrcFacts DEF IInv, Pipes, SrcOrder
    <3>2. \A i \in 1..Len(srcOut) : srcFrame[srcOut[i]] < srcStored + 1
      BY <3>1, ElementOfSeq DEF InOrder
    <3>3. InOrder(srcOut', srcFrame', srcLast, srcStored + 1)
      <4>1. srcStored + 1 \in Nat /\ srcLast < srcStored + 1
        BY <3>1
      <4>2. InOrder(Append(srcOut, srcHeld[Capture]),
                    [srcFrame EXCEPT ![srcHeld[Capture]] = srcStored + 1],
                    srcLast, srcStored + 1)
        BY <2>2, <3>1, <3>2, <4>1, OrderAppend
      <4> QED BY <2>2, <4>2
    <3>4. srcPc[Filter] = "reading" => srcFrame'[srcHeld[Filter]] = srcLast
      BY <2>2, <3>1, SrcFacts DEF IInv, Pipes, SrcOrder
    <3> QED BY <2>2, <3>1, <3>3, <3>4 DEF SrcOrder
  <2>6. NoNull' /\ DstOrder' /\ Filters' /\ Sessions' /\ TypeOK'
    BY <1>1, <2>2 DEF IInv, NoNull, DstOrder, Filters, Sessions, OneEncoder, TypeOK, dstvars, control
  <2> QED BY <2>4, <2>5, <2>6 DEF IInv, Pipes
<1>4. CASE Src!Signal(Capture)
  <2>1. SrcP!Signal(Capture)
    BY <1>4, SrcSteps
  <2>2. SrcP!IInv' /\ DstP!IInv'
    BY <1>1, <2>1, Assumed, SrcP!WriterInv, DstSame DEF IInv, Pipes
  <2>3. /\ srcPc'[Capture] = "idle"
        /\ srcPc'[Filter] = srcPc[Filter]
             \/ (srcPc[Filter] = "waiting" /\ srcPc'[Filter] = "signalled")
        /\ UNCHANGED <<srcOut, srcFrame, srcHeld, srcStored, srcLast>>
    BY <1>2, <2>1, Assumed, SrcP!SignalDoes DEF IInv, Pipes
  <2>4. NoNull' /\ SrcOrder' /\ DstOrder' /\ Filters' /\ Sessions' /\ TypeOK'
    BY <1>1, <2>3 DEF IInv, NoNull, SrcOrder, DstOrder, Filters, Sessions, OneEncoder, TypeOK,
      dstvars, control
  <2> QED BY <2>2, <2>4 DEF IInv, Pipes
<1> QED BY <1>3, <1>4 DEF CaptureStore

\* The filter's thread loads a frame, the eldest that was not loaded, or waits.
LEMMA FilterLoadInv ==
  ASSUME IInv, FilterLoad
  PROVE  IInv'
<1>1. UNCHANGED <<dstvars, converted, control, encoded>> /\ dstPc[Filter] = "idle"
  BY DEF FilterLoad
<1>2. SrcP!Read(Filter)
  BY SrcSteps DEF FilterLoad
<1>3. SrcP!IInv' /\ DstP!IInv'
  BY <1>1, <1>2, Assumed, SrcP!ReaderInv, DstSame DEF IInv, Pipes
<1>4. Capture \in SrcP!Threads \ {Filter}
  BY FramePipelineAssumption DEF SrcP!Threads
<1>5. /\ srcPc[Filter] \in {"idle", "signalled", "timedout", "spurious"}
      /\ srcPc'[Capture] = srcPc[Capture]
      /\ UNCHANGED <<srcFrame, srcStored>>
      /\ \/ /\ srcPc'[Filter] = "reading"
            /\ srcOut # <<>> /\ srcOut' = Tail(srcOut)
            /\ srcHeld'[Filter] = Head(srcOut) /\ srcLast' = srcFrame[Head(srcOut)]
         \/ /\ srcPc'[Filter] = "waiting"
            /\ UNCHANGED <<srcOut, srcHeld, srcLast>>
  BY <1>2, <1>4, Assumed, SrcP!ReadDoes DEF IInv, Pipes
<1>6. /\ srcOut \in Seq(SrcBuffers) /\ srcFrame \in [SrcBuffers -> Nat]
      /\ srcLast \in Nat /\ srcStored \in Nat /\ dstStored \in Nat /\ converted \in Nat
      /\ srcLast <= srcStored /\ converted <= srcLast /\ dstStored <= srcLast
      /\ InOrder(srcOut, srcFrame, srcLast, srcStored)
  BY <1>1, <1>5, SrcFacts, DstFacts DEF IInv, Pipes, SrcOrder, Filters, TypeOK
<1>7. CASE srcPc'[Filter] = "reading"
  <2>1. /\ srcOut # <<>> /\ srcOut' = Tail(srcOut)
        /\ srcHeld'[Filter] = Head(srcOut) /\ srcLast' = srcFrame[Head(srcOut)]
    BY <1>5, <1>7
  <2>2. /\ InOrder(Tail(srcOut), srcFrame, srcFrame[Head(srcOut)], srcStored)
        /\ srcLast < srcFrame[Head(srcOut)] /\ srcFrame[Head(srcOut)] <= srcStored
        /\ srcFrame[Head(srcOut)] \in Nat
    BY <1>6, <2>1, OrderTail
  <2>3. SrcOrder'
    BY <1>5, <2>1, <2>2 DEF SrcOrder
  <2>4. converted < srcLast' /\ dstStored + 1 <= srcLast' /\ converted <= srcLast'
    BY <1>6, <2>1, <2>2
  <2>5. Filters'
    BY <1>1, <1>7, <2>4 DEF Filters, dstvars
  <2> QED BY <1>1, <1>3, <1>5, <1>7, <2>3, <2>5 DEF IInv, Pipes, NoNull, DstOrder, Sessions,
        OneEncoder, TypeOK, dstvars, control
<1>8. CASE srcPc'[Filter] = "waiting"
  <2>1. UNCHANGED <<srcOut, srcHeld, srcLast>>
    BY <1>5, <1>8
  <2>2. SrcOrder' /\ Filters'
    BY <1>1, <1>5, <1>6, <1>8, <2>1 DEF IInv, SrcOrder, Filters, dstvars
  <2> QED BY <1>1, <1>3, <1>5, <1>8, <2>1, <2>2 DEF IInv, Pipes, NoNull, DstOrder, Sessions,
        OneEncoder, TypeOK, dstvars, control
<1> QED BY <1>5, <1>7, <1>8

\* Its wait ends for no reason.
LEMMA FilterWakesInv ==
  ASSUME IInv, FilterWakes
  PROVE  IInv'
<1>1. UNCHANGED <<dstvars, converted, control, encoded>>
  BY DEF FilterWakes
<1>2. SrcP!SpuriousWakeup(Filter)
  BY SrcSteps DEF FilterWakes
<1>3. SrcP!IInv' /\ DstP!IInv'
  BY <1>1, <1>2, Assumed, SrcP!ReaderInv, DstSame DEF IInv, Pipes
<1>4. Capture \in SrcP!Threads \ {Filter}
  BY FramePipelineAssumption DEF SrcP!Threads
<1>5. /\ srcPc[Filter] = "waiting" /\ srcPc'[Filter] \in {"timedout", "spurious"}
      /\ srcPc'[Capture] = srcPc[Capture]
      /\ UNCHANGED <<srcOut, srcFrame, srcHeld, srcStored, srcLast>>
  BY <1>2, <1>4, Assumed, SrcP!WakeDoes DEF IInv, Pipes
<1> QED BY <1>1, <1>3, <1>5 DEF IInv, Pipes, NoNull, SrcOrder, DstOrder, Filters, Sessions,
      OneEncoder, TypeOK, dstvars, control

\* It is given a buffer to convert into, as the encoder has one at most.
LEMMA FilterGetInv ==
  ASSUME IInv, FilterGet
  PROVE  IInv'
<1>1. UNCHANGED <<srcvars, converted, control, encoded>> /\ srcPc[Filter] = "reading"
  BY DEF FilterGet
<1>2. DstP!Get(Filter)
  BY DstSteps DEF FilterGet
<1>3. Encoder \in DstP!Threads \ {Filter}
  BY FramePipelineAssumption DEF DstP!Threads
<1>4. /\ dstPc[Filter] = "idle" /\ dstPc'[Filter] \in {"writing", "null"}
      /\ dstPc'[Encoder] = dstPc[Encoder] /\ dstHeld'[Encoder] = dstHeld[Encoder]
      /\ UNCHANGED <<dstFrame, dstStored, dstLast>>
      /\ dstOut' = dstOut \/ (dstOut # <<>> /\ dstOut' = Tail(dstOut))
      /\ dstPc'[Filter] = "null" => dstIn = {} /\ dstOut = <<>>
  BY <1>2, <1>3, Assumed, DstP!GetDoes DEF IInv, Pipes
<1>5. /\ dstOut \in Seq(DstBuffers) /\ dstFrame \in [DstBuffers -> Nat]
      /\ dstLast \in Nat /\ converted \in Nat /\ dstStored \in Nat /\ MaxFrames \in Nat
      /\ srcLast \in 0..MaxFrames /\ dstStored + 1 <= srcLast
      /\ InOrder(dstOut, dstFrame, dstLast, converted)
  BY <1>1, SrcFacts, DstFacts DEF IInv, Pipes, DstOrder, Filters, TypeOK
<1>6. DstP!MayStart
  <2>1. {w \in {Filter} : dstPc[w] = "writing"} = {}
    BY <1>4
  <2>2. DstP!Cardinality({}) = 0
    <3>1. DstP!Cardinality({}) = Cardinality({})
      BY DEF DstP!Cardinality, Cardinality
    <3> QED BY <3>1, FS_EmptySet
  <2>3. dstStored + 0 < MaxFrames
    BY <1>5
  <2> QED BY <2>1, <2>2, <2>3 DEF DstP!MayStart
<1>7. SrcP!IInv' /\ DstP!IInv'
  BY <1>1, <1>2, <1>6, Assumed, DstP!WriterInv, SrcSame DEF IInv, Pipes
<1>8. dstPc'[Filter] # "null"
  <2> SUFFICES ASSUME dstIn = {}, dstOut = <<>> PROVE FALSE
    BY <1>4
  <2>1. \A b \in DstBuffers : dstHeld[Filter] = b \/ dstHeld[Encoder] = b
    BY DstFacts DEF IInv, Pipes
  <2>2. dstHeld[Filter] = NoBuffer
    BY <1>4, DstFacts DEF IInv, Pipes
  <2>3. PICK b \in DstBuffers : b # dstHeld[Encoder]
    BY TwoBuffers, FramePipelineAssumption
  <2> QED BY <2>1, <2>2, <2>3, FramePipelineAssumption
<1>9. DstOrder'
  <2>1. InOrder(dstOut', dstFrame, dstLast, converted)
    <3>1. dstOut # <<>> => InOrder(Tail(dstOut), dstFrame, dstLast, converted)
      BY <1>5, OrderTail
    <3>2. CASE dstOut' = dstOut
      BY <1>5, <3>2
    <3>3. CASE dstOut # <<>> /\ dstOut' = Tail(dstOut)
      BY <3>1, <3>3
    <3> QED BY <1>4, <3>2, <3>3
  <2> QED BY <1>1, <1>4, <2>1 DEF IInv, DstOrder, srcvars
<1>10. Filters'
  BY <1>1, <1>4, <1>8 DEF IInv, Filters, srcvars
<1> QED BY <1>1, <1>4, <1>7, <1>8, <1>9, <1>10 DEF IInv, Pipes, NoNull, SrcOrder, Sessions,
      OneEncoder, TypeOK, srcvars, control

\* It puts the source buffer back when it has converted the frame.
LEMMA FilterConvertInv ==
  ASSUME IInv, FilterConvert
  PROVE  IInv'
<1>1. /\ UNCHANGED <<dstvars, control, encoded>>
      /\ srcPc[Filter] = "reading" /\ dstPc[Filter] = "writing"
      /\ converted' = srcFrame[srcHeld[Filter]]
  BY DEF FilterConvert
<1>2. SrcP!Put(Filter)
  BY SrcSteps DEF FilterConvert
<1>3. SrcP!IInv' /\ DstP!IInv'
  BY <1>1, <1>2, Assumed, SrcP!ReaderInv, DstSame DEF IInv, Pipes
<1>4. Capture \in SrcP!Threads \ {Filter}
  BY FramePipelineAssumption DEF SrcP!Threads
<1>5. /\ srcPc'[Filter] = "idle" /\ srcPc'[Capture] = srcPc[Capture]
      /\ UNCHANGED <<srcOut, srcFrame, srcStored, srcLast>>
  BY <1>2, <1>4, Assumed, SrcP!PutDoes DEF IInv, Pipes
<1>6. /\ converted' = srcLast /\ converted < srcLast /\ dstLast <= converted
      /\ srcLast \in 0..MaxFrames /\ MaxFrames \in Nat
      /\ converted \in Nat /\ dstLast \in Nat /\ dstStored \in Nat
      /\ dstStored + 1 <= srcLast
      /\ dstOut \in Seq(DstBuffers) /\ dstFrame \in [DstBuffers -> Nat]
      /\ InOrder(dstOut, dstFrame, dstLast, converted)
  BY <1>1, SrcFacts, DstFacts DEF IInv, Pipes, SrcOrder, DstOrder, Filters, TypeOK
<1>7. \A i \in 1..Len(dstOut) : dstFrame[dstOut[i]] \in Nat /\ dstFrame[dstOut[i]] <= converted
  BY <1>6, ElementOfSeq DEF InOrder
<1>8. \A i \in 1..Len(dstOut) : dstFrame[dstOut[i]] < srcLast
  BY <1>6, <1>7
<1>9. dstLast < srcLast /\ dstLast <= srcLast
  BY <1>6
<1>10. InOrder(dstOut, dstFrame, dstLast, srcLast)
  BY <1>6, <1>7, <1>8 DEF InOrder
<1>11. DstOrder'
  BY <1>1, <1>6, <1>8, <1>9, <1>10 DEF IInv, DstOrder, dstvars
<1>12. Filters'
  BY <1>1, <1>5, <1>6 DEF IInv, Filters, dstvars
<1> QED BY <1>1, <1>3, <1>5, <1>6, <1>11, <1>12 DEF IInv, Pipes, NoNull, SrcOrder, Sessions,
      OneEncoder, TypeOK, dstvars, control

\* It stores what it has converted, or signals.
LEMMA FilterStoreInv ==
  ASSUME IInv, FilterStore
  PROVE  IInv'
<1>1. UNCHANGED <<srcvars, converted, control, encoded>> /\ srcPc[Filter] = "idle"
  BY DEF FilterStore
<1>2. Encoder \in DstP!Threads \ {Filter}
  BY FramePipelineAssumption DEF DstP!Threads
<1>3. CASE Dst!Store(Filter, converted)
  <2>1. DstP!Store(Filter, converted) /\ converted \in 0..MaxFrames
    BY <1>3, DstSteps DEF IInv, TypeOK
  <2>2. /\ dstPc[Filter] = "writing" /\ dstPc'[Filter] = "signalling"
        /\ dstPc'[Encoder] = dstPc[Encoder] /\ dstHeld'[Encoder] = dstHeld[Encoder]
        /\ dstHeld[Encoder] # dstHeld[Filter]
        /\ dstHeld[Filter] \in DstBuffers
        /\ \A i \in 1..Len(dstOut) : dstOut[i] # dstHeld[Filter]
        /\ dstFrame' = [dstFrame EXCEPT ![dstHeld[Filter]] = converted]
        /\ dstOut' = Append(dstOut, dstHeld[Filter])
        /\ dstStored' = dstStored + 1 /\ dstLast' = dstLast
    BY <1>2, <2>1, Assumed, DstP!StoreDoes DEF IInv, Pipes
  <2>3. SrcP!IInv' /\ DstP!IInv'
    BY <1>1, <2>1, Assumed, DstP!WriterInv, SrcSame DEF IInv, Pipes
  <2>4. DstOrder'
    <3>1. /\ dstOut \in Seq(DstBuffers) /\ dstFrame \in [DstBuffers -> Nat]
          /\ dstLast \in Nat /\ converted \in Nat
          /\ InOrder(dstOut, dstFrame, dstLast, converted)
          /\ dstLast < converted /\ \A i \in 1..Len(dstOut) : dstFrame[dstOut[i]] < converted
      BY <1>1, <2>2, DstFacts DEF IInv, Pipes, DstOrder, TypeOK
    <3>2. InOrder(Append(dstOut, dstHeld[Filter]),
                  [dstFrame EXCEPT ![dstHeld[Filter]] = converted], dstLast, converted)
      BY <2>2, <3>1, OrderAppend
    <3>3. InOrder(dstOut', dstFrame', dstLast, converted)
      BY <2>2, <3>2
    <3>4. dstPc[Encoder] = "reading" =>
            dstFrame'[dstHeld[Encoder]] = dstLast /\ encoded < dstLast
      BY <2>2, <3>1, DstFacts DEF IInv, Pipes, DstOrder
    <3> QED BY <1>1, <2>2, <3>3, <3>4 DEF IInv, DstOrder
  <2>5. Filters'
    <3>1. dstStored + 1 <= srcLast /\ dstStored' + 0 <= srcLast
      BY <1>1, <2>2, DstFacts DEF IInv, Pipes, Filters
    <3> QED BY <1>1, <2>2, <3>1 DEF IInv, Filters, srcvars
  <2> QED BY <1>1, <2>2, <2>3, <2>4, <2>5 DEF IInv, Pipes, NoNull, SrcOrder, Sessions,
        OneEncoder, TypeOK, srcvars, control
<1>4. CASE Dst!Signal(Filter)
  <2>1. DstP!Signal(Filter)
    BY <1>4, DstSteps
  <2>2. SrcP!IInv' /\ DstP!IInv'
    BY <1>1, <2>1, Assumed, DstP!WriterInv, SrcSame DEF IInv, Pipes
  <2>3. /\ dstPc[Filter] = "signalling" /\ dstPc'[Filter] = "idle"
        /\ dstPc'[Encoder] = dstPc[Encoder]
             \/ (dstPc[Encoder] = "waiting" /\ dstPc'[Encoder] = "signalled")
        /\ UNCHANGED <<dstOut, dstFrame, dstHeld, dstStored, dstLast>>
    BY <1>2, <2>1, Assumed, DstP!SignalDoes DEF IInv, Pipes
  <2> QED BY <1>1, <2>2, <2>3 DEF IInv, Pipes, NoNull, SrcOrder, DstOrder, Filters, Sessions,
        OneEncoder, TypeOK, srcvars, control
<1> QED BY <1>3, <1>4 DEF FilterStore

\* The encoder thread looks whether it is to go on, outside the pipe.
LEMMA EncoderCheckInv ==
  ASSUME IInv, EncoderCheck
  PROVE  IInv'
<1>1. SrcP!IInv' /\ DstP!IInv'
  BY SrcSame, DstSame DEF IInv, Pipes, EncoderCheck
<1> QED BY <1>1 DEF IInv, Pipes, NoNull, SrcOrder, DstOrder, Filters, Sessions, OneEncoder,
      TypeOK, EncoderCheck, srcvars, dstvars

\* It loads the eldest frame, which is newer than the one it encoded last.
LEMMA EncoderLoadInv ==
  ASSUME IInv, EncoderLoad
  PROVE  IInv'
<1>1. /\ UNCHANGED <<srcvars, converted, threadLaunched, server, sessions, encoded>>
      /\ encoder = "load"
  BY DEF EncoderLoad
<1>2. DstP!Read(Encoder)
  BY DstSteps DEF EncoderLoad
<1>3. SrcP!IInv' /\ DstP!IInv'
  BY <1>1, <1>2, Assumed, DstP!ReaderInv, SrcSame DEF IInv, Pipes
<1>4. Filter \in DstP!Threads \ {Encoder}
  BY FramePipelineAssumption DEF DstP!Threads
<1>5. /\ dstPc'[Filter] = dstPc[Filter]
      /\ UNCHANGED <<dstFrame, dstStored>>
      /\ \/ /\ dstPc'[Encoder] = "reading"
            /\ dstOut # <<>> /\ dstOut' = Tail(dstOut)
            /\ dstHeld'[Encoder] = Head(dstOut) /\ dstLast' = dstFrame[Head(dstOut)]
         \/ /\ dstPc'[Encoder] \in {"idle", "waiting"}
            /\ UNCHANGED <<dstOut, dstHeld, dstLast>>
  BY <1>2, <1>4, Assumed, DstP!ReadDoes DEF IInv, Pipes
<1>6. encoder' \in {"load", "check"} /\ (encoder' # "load" => dstPc'[Encoder] = "idle")
  <2>1. CASE Dst!Load(Encoder) \/ Dst!Wait(Encoder)
    BY <1>1, <2>1 DEF EncoderLoad, Dst!Load, Dst!Wait, Dst!LoadNull, Dst!Awake
  <2>2. CASE Dst!LoadNull(Encoder)
    <3>1. dstOut = <<>> /\ dstPc' = [dstPc EXCEPT ![Encoder] = "idle"]
      BY <2>2 DEF Dst!LoadNull, Dst!Goto
    <3>2. dstPc'[Encoder] # "reading" /\ dstPc'[Encoder] # "waiting"
      <4>1. Encoder \in DOMAIN dstPc
        BY DEF IInv, Pipes, DstP!IInv, DstP!Conserved, DstP!TypeOK, DstP!Threads
      <4> QED BY <3>1, <4>1
    <3> QED BY <1>1, <1>5, <3>2 DEF EncoderLoad
  <2> QED BY <2>1, <2>2 DEF EncoderLoad
<1>7. /\ dstOut \in Seq(DstBuffers) /\ dstFrame \in [DstBuffers -> Nat]
      /\ dstLast \in Nat /\ converted \in Nat /\ encoded \in Nat /\ encoded <= dstLast
      /\ InOrder(dstOut, dstFrame, dstLast, converted)
  BY DstFacts DEF IInv, Pipes, DstOrder, TypeOK
<1>8. DstOrder'
  <2>1. CASE dstPc'[Encoder] = "reading"
    <3>1. /\ dstOut # <<>> /\ dstOut' = Tail(dstOut)
          /\ dstHeld'[Encoder] = Head(dstOut) /\ dstLast' = dstFrame[Head(dstOut)]
      BY <1>5, <2>1
    <3>2. /\ InOrder(Tail(dstOut), dstFrame, dstFrame[Head(dstOut)], converted)
          /\ dstLast < dstFrame[Head(dstOut)] /\ dstFrame[Head(dstOut)] <= converted
          /\ dstFrame[Head(dstOut)] \in Nat
          /\ \A i \in 1..Len(Tail(dstOut)) : \E j \in 1..Len(dstOut) : Tail(dstOut)[i] = dstOut[j]
          /\ \E j \in 1..Len(dstOut) : Head(dstOut) = dstOut[j]
      BY <1>7, <3>1, OrderTail
    <3>3. encoded < dstLast' /\ encoded <= dstLast' /\ dstLast' <= converted
      BY <1>7, <3>1, <3>2
    <3>4. ASSUME dstPc[Filter] = "writing", srcPc[Filter] = "idle"
          PROVE  /\ dstFrame[Head(dstOut)] < converted
                 /\ \A i \in 1..Len(Tail(dstOut)) : dstFrame[Tail(dstOut)[i]] < converted
      <4>1. \A j \in 1..Len(dstOut) : dstFrame[dstOut[j]] < converted
        BY <3>4 DEF IInv, DstOrder
      <4> QED BY <3>2, <4>1
    <3> QED BY <1>1, <1>5, <2>1, <3>1, <3>2, <3>3, <3>4 DEF DstOrder, srcvars
  <2>2. CASE dstPc'[Encoder] # "reading"
    BY <1>1, <1>5, <2>2 DEF IInv, DstOrder, srcvars
  <2> QED BY <2>1, <2>2
<1>9. Sessions'
  BY <1>1, <1>6 DEF IInv, Sessions, OneEncoder
<1> QED BY <1>1, <1>3, <1>5, <1>6, <1>8, <1>9 DEF IInv, Pipes, NoNull, SrcOrder, Filters,
      TypeOK, srcvars

\* Its wait ends, after a second or for no reason.
LEMMA EncoderWakesInv ==
  ASSUME IInv, EncoderWakes
  PROVE  IInv'
<1>1. UNCHANGED <<srcvars, converted, control, encoded>>
  BY DEF EncoderWakes
<1>2. DstP!TimeOut(Encoder) \/ DstP!SpuriousWakeup(Encoder)
  BY DstSteps DEF EncoderWakes
<1>3. SrcP!IInv' /\ DstP!IInv'
  BY <1>1, <1>2, Assumed, DstP!ReaderInv, SrcSame DEF IInv, Pipes
<1>4. Filter \in DstP!Threads \ {Encoder}
  BY FramePipelineAssumption DEF DstP!Threads
<1>5. /\ dstPc[Encoder] = "waiting" /\ dstPc'[Encoder] \in {"timedout", "spurious"}
      /\ dstPc'[Filter] = dstPc[Filter]
      /\ UNCHANGED <<dstOut, dstFrame, dstHeld, dstStored, dstLast>>
  BY <1>2, <1>4, Assumed, DstP!WakeDoes DEF IInv, Pipes
<1> QED BY <1>1, <1>3, <1>5 DEF IInv, Pipes, NoNull, SrcOrder, DstOrder, Filters, Sessions,
      OneEncoder, TypeOK, srcvars, control

\* It puts the buffer back, whether the frame could be encoded or not.
LEMMA EncoderEncodeInv ==
  ASSUME IInv, EncoderEncode
  PROVE  IInv' /\ (encoded' # encoded => encoded' > encoded)
<1>1. /\ UNCHANGED <<srcvars, converted, threadLaunched, server, sessions>>
      /\ dstPc[Encoder] = "reading" /\ encoder' \in {"check", "exited"}
      /\ encoded' = encoded \/ encoded' = dstFrame[dstHeld[Encoder]]
  BY DEF EncoderEncode
<1>2. DstP!Put(Encoder)
  BY DstSteps DEF EncoderEncode
<1>3. SrcP!IInv' /\ DstP!IInv'
  BY <1>1, <1>2, Assumed, DstP!ReaderInv, SrcSame DEF IInv, Pipes
<1>4. Filter \in DstP!Threads \ {Encoder}
  BY FramePipelineAssumption DEF DstP!Threads
<1>5. /\ dstPc'[Encoder] = "idle" /\ dstPc'[Filter] = dstPc[Filter]
      /\ UNCHANGED <<dstOut, dstFrame, dstStored, dstLast>>
  BY <1>2, <1>4, Assumed, DstP!PutDoes DEF IInv, Pipes
<1>6. /\ encoded' = encoded \/ encoded' = dstLast
      /\ encoded < dstLast /\ encoded \in 0..MaxFrames /\ dstLast \in 0..MaxFrames
      /\ MaxFrames \in Nat
  BY <1>1, DstFacts DEF IInv, Pipes, DstOrder, TypeOK
<1>7. encoded' \in 0..MaxFrames /\ encoded' <= dstLast
  BY <1>6
<1>8. DstOrder'
  BY <1>1, <1>5, <1>7 DEF IInv, DstOrder, srcvars
<1>9. encoder = "load"
  BY <1>1 DEF IInv, Sessions
<1>10. Sessions' /\ TypeOK'
  BY <1>1, <1>5, <1>7, <1>9 DEF IInv, Sessions, OneEncoder, TypeOK
<1> QED BY <1>1, <1>3, <1>5, <1>6, <1>8, <1>10 DEF IInv, Pipes, NoNull, SrcOrder, Filters, srcvars

\* The server launches the encoder thread, tells it to stop, and joins it.
LEMMA ServerInv ==
  ASSUME IInv, ServerStep
  PROVE  IInv' /\ encoded' = encoded
<1>1. UNCHANGED <<srcvars, dstvars, converted, encoded>>
  BY DEF ServerStep, RegisterFirst, UnregisterLast, Join
<1>2. SrcP!IInv' /\ DstP!IInv'
  BY <1>1, SrcSame, DstSame DEF IInv, Pipes
<1>3. NoNull' /\ SrcOrder' /\ DstOrder' /\ Filters'
  BY <1>1 DEF IInv, NoNull, SrcOrder, DstOrder, Filters, srcvars, dstvars
<1>4. CASE RegisterFirst
  <2>1. sessions' \in 0..MaxSessions
    BY <1>4, FramePipelineAssumption DEF RegisterFirst, IInv, TypeOK
  <2> QED BY <1>1, <1>2, <1>3, <1>4, <2>1 DEF IInv, Pipes, Sessions, OneEncoder, TypeOK,
        RegisterFirst, dstvars
<1>5. CASE UnregisterLast
  BY <1>1, <1>2, <1>3, <1>5 DEF IInv, Pipes, Sessions, OneEncoder, TypeOK, UnregisterLast, dstvars
<1>6. CASE Join
  BY <1>1, <1>2, <1>3, <1>6 DEF IInv, Pipes, Sessions, OneEncoder, TypeOK, Join, dstvars
<1> QED BY <1>1, <1>4, <1>5, <1>6 DEF ServerStep
-----------------------------------------------------------------------------
\* At first both pipes are empty and no encoder is launched.
LEMMA InitInv == Init => IInv
<1> SUFFICES ASSUME Init PROVE IInv
  OBVIOUS
<1>1. SrcP!Init /\ DstP!Init
  BY DEF Init, Src!Init, Dst!Init, SrcP!Init, DstP!Init, Src!Threads, Dst!Threads,
    SrcP!Threads, DstP!Threads
<1>2. Pipes
  BY <1>1, Assumed, SrcP!InitInv, DstP!InitInv DEF Pipes
<1>3. /\ srcOut = <<>> /\ srcPc[Filter] = "idle" /\ srcPc[Capture] = "idle"
      /\ srcStored = 0 /\ srcLast = 0
  BY <1>1 DEF SrcP!Init, SrcP!Threads
<1>4. /\ dstOut = <<>> /\ dstPc[Filter] = "idle" /\ dstPc[Encoder] = "idle"
      /\ dstStored = 0 /\ dstLast = 0
  BY <1>1 DEF DstP!Init, DstP!Threads
<1>5. \A f, lo, hi : InOrder(<<>>, f, lo, hi)
  <2>1. Len(<<>>) = 0
    OBVIOUS
  <2>2. \A i \in 1..Len(<<>>) : FALSE
    BY <2>1
  <2> QED BY <2>2 DEF InOrder
<1>6. NoNull /\ SrcOrder /\ DstOrder /\ Filters
  BY <1>3, <1>4, <1>5 DEF Init, NoNull, SrcOrder, DstOrder, Filters
<1>7. TypeOK /\ Sessions
  <2>1. 0 \in 0..MaxFrames /\ 0 \in 0..MaxSessions
    BY FramePipelineAssumption
  <2> QED BY <1>4, <2>1 DEF Init, TypeOK, Sessions, OneEncoder
<1> QED BY <1>2, <1>6, <1>7 DEF IInv

\* Every step keeps the invariant, and encodes nothing but a newer frame.
LEMMA NextInv == IInv /\ [Next]_vars => IInv' /\ (encoded' # encoded => encoded' > encoded)
<1> SUFFICES ASSUME IInv, [Next]_vars
             PROVE  IInv' /\ (encoded' # encoded => encoded' > encoded)
  OBVIOUS
<1>1. CASE CaptureStep
  <2>1. encoded' = encoded
    BY <1>1 DEF CaptureStep, CaptureGet, CaptureStore
  <2> QED BY <1>1, <2>1, CaptureGetInv, CaptureStoreInv DEF CaptureStep
<1>2. CASE FilterStep
  <2>1. encoded' = encoded
    BY <1>2 DEF FilterStep, FilterLoad, FilterWakes, FilterGet, FilterConvert, FilterStore
  <2> QED BY <1>2, <2>1, FilterLoadInv, FilterWakesInv, FilterGetInv, FilterConvertInv,
        FilterStoreInv DEF FilterStep
<1>3. CASE EncoderCheck \/ EncoderLoad \/ EncoderWakes
  <2>1. encoded' = encoded
    BY <1>3 DEF EncoderCheck, EncoderLoad, EncoderWakes
  <2> QED BY <1>3, <2>1, EncoderCheckInv, EncoderLoadInv, EncoderWakesInv
<1>4. CASE EncoderEncode
  BY <1>4, EncoderEncodeInv
<1>5. CASE ServerStep
  BY <1>5, ServerInv
<1>6. CASE UNCHANGED vars
  <2>1. UNCHANGED <<srcvars, dstvars, converted, control, encoded>>
    BY <1>6 DEF vars
  <2>2. SrcP!IInv' /\ DstP!IInv'
    BY <2>1, SrcSame, DstSame DEF IInv, Pipes
  <2> QED BY <2>1, <2>2 DEF IInv, Pipes, NoNull, SrcOrder, DstOrder, Filters, Sessions,
        OneEncoder, TypeOK, srcvars, dstvars, control
<1> QED BY <1>1, <1>2, <1>3, <1>4, <1>5, <1>6 DEF Next, EncoderStep

\* The invariant holds of the three threads, the server and both pipes, however
\* often an encoder is launched and wherever its thread is when it is stopped.
THEOREM Invariance == Spec => []IInv
<1>1. IInv /\ [Next]_vars => IInv'
  BY NextInv
<1> QED BY <1>1, InitInv, PTL DEF Spec

\* No thread of the path is given NULL, both pipes have all their buffers, and
\* an encoder thread that is gone took none along.
THEOREM BuffersStay == Spec => []BuffersSurvive
<1>1. IInv => BuffersSurvive
  <2> SUFFICES ASSUME IInv PROVE BuffersSurvive
    OBVIOUS
  <2>1. Src!Conserved
    <3>1. SrcP!Conserved
      BY DEF IInv, Pipes, SrcP!IInv
    <3> QED BY <3>1 DEF SrcP!Conserved, Src!Conserved, SrcP!TypeOK, Src!TypeOK, SrcP!Threads,
          Src!Threads, SrcP!WriterPCs, Src!WriterPCs, SrcP!ReaderPCs, Src!ReaderPCs,
          SrcP!Awake, Src!Awake
  <2>2. Dst!Conserved
    <3>1. DstP!Conserved
      BY DEF IInv, Pipes, DstP!IInv
    <3> QED BY <3>1 DEF DstP!Conserved, Dst!Conserved, DstP!TypeOK, Dst!TypeOK, DstP!Threads,
          Dst!Threads, DstP!WriterPCs, Dst!WriterPCs, DstP!ReaderPCs, Dst!ReaderPCs,
          DstP!Awake, Dst!Awake
  <2>3. encoder \in {"none", "check", "exited"} => dstHeld[Encoder] = NoBuffer
    BY DstFacts DEF IInv, Pipes, Sessions
  <2> QED BY <2>1, <2>2, <2>3 DEF IInv, NoNull, Sessions, BuffersSurvive
<1> QED BY <1>1, Invariance, PTL

\* Whatever frames the pipes give up and keep from session to session, no frame
\* is encoded after a newer one, and none twice.
THEOREM EncodedOrder == Spec => EncodedInOrder
<1>1. IInv /\ [Next]_vars => [encoded' # encoded => encoded' > encoded]_encoded
  BY NextInv
<1> QED BY <1>1, Invariance, PTL DEF Spec, EncodedInOrder
=============================================================================
