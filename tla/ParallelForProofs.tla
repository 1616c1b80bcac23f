------------------------- MODULE ParallelForProofs -------------------------
(***************************************************************************)
(* Theorems about ParallelFor, for every number of threads, entries and    *)
(* iterations and every grain size.                                        *)
(***************************************************************************)
EXTENDS ParallelFor, TLAPS

(***************************************************************************)
(* Type correctness.                                                       *)
(***************************************************************************)

\* What the type lemmas need of the operators on values.
LEMMA ValuesClosed ==
  /\ Neutral \in Values
  /\ Full \in Values
  /\ \A acc \in Values, i \in Iterations : Accumulate(acc, i) \in Values
  /\ \A a, b \in Values : Combine(a, b) \in Values
  BY DEF Neutral, Full, Unit, Values, Accumulate, Combine

\* The initial state has the declared types.
LEMMA InitType == Init => TypeOK
<1> SUFFICES ASSUME Init PROVE TypeOK
  OBVIOUS
<1>1. EmptyFrame \in Frames
  BY ValuesClosed, LoopAssumption DEF EmptyFrame, Frames
<1>2. red \in [Entries -> Values]
  BY ValuesClosed DEF Init, StaleValues
<1>3. frame \in [Slots -> [Depths -> Frames]]
  BY <1>1 DEF Init
<1>4. top \in [Slots -> 0 .. MaxDepth]
  BY LoopAssumption DEF Init
<1> QED
  BY <1>2, <1>3, <1>4, ValuesClosed, ThreadsAssumption DEF Init, TypeOK

\* The slot a thread runs in has an entry in the reduce variable.
LEMMA SlotsAreEntries == Slots \subseteq Entries
  BY ThreadsAssumption DEF Slots, Entries

\* Replacing one open frame keeps the type of frame.
LEMMA FrameUpdate ==
  ASSUME frame \in [Slots -> [Depths -> Frames]],
         NEW t \in Slots, NEW d \in Depths, NEW f \in Frames
  PROVE  [frame EXCEPT ![t][d] = f] \in [Slots -> [Depths -> Frames]]
  OBVIOUS

\* The top frame of a slot with an open chunk.
LEMMA TopFrameType ==
  ASSUME TypeOK, NEW t \in Slots, top[t] > 0
  PROVE  /\ top[t] \in Depths
         /\ frame[t][top[t]] \in Frames
<1>1. top[t] \in Depths
  BY LoopAssumption DEF TypeOK, Depths
<1> QED
  BY <1>1 DEF TypeOK

\* Every step keeps the types.
LEMMA NextType == TypeOK /\ [Next]_vars => TypeOK'
<1> SUFFICES ASSUME TypeOK, [Next]_vars PROVE TypeOK'
  OBVIOUS
<1> USE ThreadsAssumption, LoopAssumption
<1>1. CASE InitEntry
  <2>1. red' \in [Entries -> Values]
    BY <1>1, ValuesClosed DEF InitEntry, TypeOK
  <2> QED BY <1>1, <2>1 DEF InitEntry, TypeOK
<1>2. CASE StartLoop
  <2>1. pool' \subseteq Chunks
    BY <1>2 DEF StartLoop, Chunks
  <2> QED BY <1>2, <2>1 DEF StartLoop, TypeOK
<1>3. CASE Join
  BY <1>3 DEF Join, TypeOK
<1>4. CASE CombineEntry
  <2>1. red[idx] \in Values
    BY <1>4 DEF CombineEntry, TypeOK, Entries
  <2> QED BY <1>4, <2>1, ValuesClosed DEF CombineEntry, TypeOK
<1>5. CASE Return
  BY <1>5 DEF Return, TypeOK
<1>6. CASE \E c \in pool : SplitChunk(c)
  <2>1. PICK c \in pool : SplitChunk(c)
    BY <1>6
  <2>2. pool' \subseteq Chunks
    BY <2>1 DEF SplitChunk, TypeOK, Chunks
  <2> QED BY <2>1, <2>2 DEF SplitChunk, TypeOK
<1>7. ASSUME NEW t \in Slots, ThreadStep(t) PROVE TypeOK'
  <2>1. CASE \E c \in pool : TakeChunk(t, c)
    <3>1. PICK c \in pool : TakeChunk(t, c)
      BY <2>1
    <3> DEFINE f == [cur |-> c[1], hi |-> c[2], acc |-> red[t], at |-> "iter"]
    <3>2. f \in Frames
      BY SlotsAreEntries DEF Frames, TypeOK, Chunks
    <3>3. top[t] + 1 \in Depths /\ top[t] + 1 \in 0 .. MaxDepth
      BY <3>1 DEF TakeChunk, TypeOK, Depths
    <3>4. frame' = [frame EXCEPT ![t][top[t] + 1] = f]
      BY <3>1 DEF TakeChunk
    <3>5. frame' \in [Slots -> [Depths -> Frames]]
      BY <3>2, <3>3, <3>4, FrameUpdate DEF TypeOK
    <3>6. top' \in [Slots -> 0 .. MaxDepth]
      BY <3>1, <3>3 DEF TakeChunk, TypeOK
    <3> QED BY <3>1, <3>5, <3>6 DEF TakeChunk, TypeOK
  <2>2. CASE Iterate(t)
    <3> DEFINE f == Advanced(TopFrame(t))
    <3>1. top[t] \in Depths /\ TopFrame(t) \in Frames
      BY <2>2, TopFrameType DEF Iterate, TopFrame
    <3>2. f \in Frames
      BY <2>2, <3>1, ValuesClosed DEF Iterate, Advanced, Frames, Iterations
    <3>3. frame' = [frame EXCEPT ![t][top[t]] = f]
      BY <2>2 DEF Iterate
    <3>4. frame' \in [Slots -> [Depths -> Frames]]
      BY <3>1, <3>2, <3>3, FrameUpdate DEF TypeOK
    <3> QED BY <2>2, <3>4 DEF Iterate, TypeOK
  <2>3. CASE EnterNested(t)
    <3> DEFINE f == Waiting(TopFrame(t))
    <3>1. top[t] \in Depths /\ TopFrame(t) \in Frames
      BY <2>3, TopFrameType DEF EnterNested, TopFrame
    <3>2. f \in Frames
      BY <2>3, <3>1 DEF EnterNested, Waiting, Frames
    <3>3. frame' = [frame EXCEPT ![t][top[t]] = f]
      BY <2>3 DEF EnterNested
    <3>4. frame' \in [Slots -> [Depths -> Frames]]
      BY <3>1, <3>2, <3>3, FrameUpdate DEF TypeOK
    <3> QED BY <2>3, <3>4 DEF EnterNested, TypeOK
  <2>4. CASE LeaveNested(t)
    <3> DEFINE f == Advanced(TopFrame(t))
    <3>1. top[t] \in Depths /\ TopFrame(t) \in Frames
      BY <2>4, TopFrameType DEF LeaveNested, TopFrame
    <3>2. f \in Frames
      BY <2>4, <3>1, ValuesClosed DEF LeaveNested, Advanced, Frames, Iterations
    <3>3. frame' = [frame EXCEPT ![t][top[t]] = f]
      BY <2>4 DEF LeaveNested
    <3>4. frame' \in [Slots -> [Depths -> Frames]]
      BY <3>1, <3>2, <3>3, FrameUpdate DEF TypeOK
    <3> QED BY <2>4, <3>4 DEF LeaveNested, TypeOK
  <2>5. CASE StoreChunk(t)
    <3>1. TopFrame(t).acc \in Values
      BY <2>5, TopFrameType DEF StoreChunk, TopFrame, Frames
    <3>2. top' \in [Slots -> 0 .. MaxDepth]
      BY <2>5 DEF StoreChunk, TypeOK
    <3> QED BY <2>5, <3>1, <3>2 DEF StoreChunk, TypeOK
  <2> QED BY <1>7, <2>1, <2>2, <2>3, <2>4, <2>5 DEF ThreadStep
<1>8. CASE UNCHANGED vars
  BY <1>8 DEF vars, TypeOK
<1> QED
  BY <1>1, <1>2, <1>3, <1>4, <1>5, <1>6, <1>7, <1>8 DEF Next, CallerStep, Returned

\* Every variable keeps its type, nested waits included.
THEOREM TypeCorrect == Spec => []TypeOK
  BY InitType, NextType, PTL DEF Spec
-----------------------------------------------------------------------------
(***************************************************************************)
(* The reduction is exact when the body of the loop does not wait and the  *)
(* reduction is an addition (or a multiplication).                         *)
(*                                                                         *)
(* EachIterationHeldOnce is not inductive by itself: Iterate needs to know *)
(* that no other chunk holds the iteration it performs, and the combine    *)
(* loop which entry holds each iteration and whether it has been folded.   *)
(***************************************************************************)
Flat == MaxDepth = 1 /\ ReduceOp = "add"

Idle == phase # "run" => pool = {} /\ \A t \in Slots : top[t] = 0

EntriesCleared ==
  /\ phase = "init" => \A e \in Entries : e < idx => red[e] = Neutral
  /\ phase = "run" => \A e \in Entries \ Slots : red[e] = Neutral
  /\ phase \in {"init", "run"} => result = Neutral

FramesFlat ==
  \A t \in Slots : top[t] = 1 => frame[t][1].cur <= frame[t][1].hi

\* No iteration is left to two chunks.
Disjoint ==
  /\ \A i \in Iterations, c, d \in pool : InChunk(c, i) /\ InChunk(d, i) => c = d
  /\ \A i \in Iterations, t \in Slots, c \in pool : ~(InFrame(t, 1, i) /\ InChunk(c, i))
  /\ \A i \in Iterations, t, u \in Slots : InFrame(t, 1, i) /\ InFrame(u, 1, i) => t = u

\* Entry h is the only one that holds iteration i, and the combine loop has
\* taken it into the result once it is past h.
Holds(h, i) ==
  /\ red[h][i] = Unit
  /\ \A e \in Entries \ {h} : red[e][i] = 0
  /\ result[i] = IF h < idx THEN Unit ELSE 0

Folding ==
  /\ phase \in {"combine", "done"} => \A i \in Iterations : \E h \in Entries : Holds(h, i)
  /\ phase = "done" => idx = MaxConcurrency

LoopInv ==
  TypeOK /\ Idle /\ EntriesCleared /\ FramesFlat /\ Disjoint /\ EachIterationHeldOnce /\ Folding

\* With one open chunk per slot at most, the operators that look at the open
\* chunks need not range over depths.
LEMMA FlatOpen ==
  ASSUME Flat, TypeOK
  PROVE  /\ Depths = {1}
         /\ \A t \in Slots : top[t] \in {0, 1}
         /\ \A t \in Slots, i \in Iterations :
              InFrame(t, 1, i) <=> top[t] = 1 /\ frame[t][1].cur <= i /\ i < frame[t][1].hi
         /\ \A t \in Slots : Partial(t) = IF top[t] = 0 THEN red[t] ELSE frame[t][1].acc
  BY DEF Flat, TypeOK, Depths, InFrame, IsOpen, Partial

\* The invariant holds when the loop is entered, whatever an earlier execution
\* left in the entries.
LEMMA LoopInvInit == Flat /\ Init => LoopInv
<1> SUFFICES ASSUME Flat, Init PROVE LoopInv
  OBVIOUS
<1>1. TypeOK
  BY InitType
<1> QED
  BY <1>1, ThreadsAssumption
  DEF LoopInv, Init, Idle, EntriesCleared, FramesFlat, Disjoint, EachIterationHeldOnce, Folding,
      InFrame, IsOpen, Slots, Entries

\* One more entry cleared.
LEMMA InitEntryKeeps == ASSUME Flat, LoopInv, TypeOK', InitEntry PROVE LoopInv'
<1> USE ThreadsAssumption, LoopAssumption
<1>1. EntriesCleared'
  BY DEF InitEntry, LoopInv, EntriesCleared, TypeOK, Entries
<1>2. Idle' /\ FramesFlat'
  BY DEF InitEntry, LoopInv, Idle, FramesFlat
<1>3. Disjoint'
  BY DEF InitEntry, LoopInv, Disjoint, InChunk, InFrame, IsOpen
<1>4. EachIterationHeldOnce' /\ Folding'
  BY DEF InitEntry, EachIterationHeldOnce, Folding
<1> QED
  BY <1>1, <1>2, <1>3, <1>4 DEF LoopInv

\* Every iteration is in the first chunk and every entry is neutral.
LEMMA StartLoopKeeps == ASSUME Flat, LoopInv, TypeOK', StartLoop PROVE LoopInv'
<1> USE ThreadsAssumption, LoopAssumption
<1>1. \A e \in Entries : red[e] = Neutral
  BY DEF StartLoop, LoopInv, EntriesCleared, Entries
<1>2. EntriesCleared' /\ Idle' /\ Folding'
  BY <1>1 DEF StartLoop, LoopInv, EntriesCleared, Idle, Folding
<1>3. \A t \in Slots : top'[t] = 0
  BY DEF StartLoop, LoopInv, Idle
<1>4. FramesFlat'
  BY <1>3 DEF FramesFlat
<1>5. Disjoint'
  BY <1>3 DEF StartLoop, Disjoint, InChunk, InFrame, IsOpen
<1>6. EachIterationHeldOnce'
  <2> SUFFICES ASSUME NEW i \in Iterations
               PROVE  Pending(i)' /\ \A t \in Slots : Partial(t)'[i] = 0
    BY DEF EachIterationHeldOnce
  <2>1. Pending(i)'
    <3>1. Count # 0 /\ 0 <= i /\ i < Count
      BY DEF Iterations
    <3>2. <<0, Count>> \in pool'
      BY <3>1 DEF StartLoop
    <3>3. InChunk(<<0, Count>>, i)
      BY <3>1 DEF InChunk
    <3> QED BY <3>2, <3>3 DEF Pending, InChunk
  <2>2. \A t \in Slots : Partial(t)' = Neutral
    BY <1>1, <1>3, SlotsAreEntries DEF StartLoop, Partial
  <2> QED BY <2>1, <2>2 DEF Neutral
<1> QED
  BY <1>2, <1>4, <1>5, <1>6 DEF LoopInv

\* Splitting a chunk moves no iteration.
LEMMA SplitChunkKeeps ==
  ASSUME Flat, LoopInv, TypeOK', NEW c \in pool, SplitChunk(c)
  PROVE  LoopInv' /\ \A i \in Iterations : Pending(i)' <=> Pending(i)
<1> USE ThreadsAssumption, LoopAssumption
<1>1. PICK m \in (c[1] + 1) .. (c[2] - 1) :
        pool' = (pool \ {c}) \cup {<<c[1], m>>, <<m, c[2]>>}
  BY DEF SplitChunk
<1>2. c \in Chunks /\ c[1] \in Int /\ c[2] \in Int /\ m \in Int /\ c[1] < m /\ m < c[2]
  BY <1>1 DEF LoopInv, TypeOK, Chunks
<1>3. \A i \in Iterations : InChunk(c, i) <=> InChunk(<<c[1], m>>, i) \/ InChunk(<<m, c[2]>>, i)
  BY <1>2 DEF InChunk, Iterations
<1>4. \A i \in Iterations : ~(InChunk(<<c[1], m>>, i) /\ InChunk(<<m, c[2]>>, i))
  BY <1>2 DEF InChunk, Iterations
<1>5. \A i \in Iterations : (\E d \in pool' : InChunk(d, i)) <=> (\E d \in pool : InChunk(d, i))
  BY <1>1, <1>3
<1>6. \A t \in Slots, d \in Depths, i \in Iterations : InFrame(t, d, i)' <=> InFrame(t, d, i)
  BY DEF SplitChunk, InFrame, IsOpen
<1>7. \A t \in Slots : Partial(t)' = Partial(t)
  BY DEF SplitChunk, Partial
<1>8. \A i \in Iterations : Pending(i)' <=> Pending(i)
  BY <1>5, <1>6 DEF Pending, InChunk
<1>9. EachIterationHeldOnce'
  BY <1>7, <1>8 DEF SplitChunk, LoopInv, EachIterationHeldOnce
<1>10. Disjoint'
  <2>1. \A i \in Iterations, d, e \in pool' : InChunk(d, i) /\ InChunk(e, i) => d = e
    <3>1. \A i \in Iterations, d, e \in pool : InChunk(d, i) /\ InChunk(e, i) => d = e
      BY DEF LoopInv, Disjoint
    <3> QED BY <1>1, <1>3, <1>4, <3>1, Zenon
  <2>2. 1 \in Depths
    BY DEF Depths
  <2>3. \A i \in Iterations, t \in Slots, d \in pool' : ~(InFrame(t, 1, i) /\ InChunk(d, i))
    BY <1>1, <1>3 DEF LoopInv, Disjoint
  <2> QED BY <1>6, <2>1, <2>2, <2>3 DEF LoopInv, Disjoint, InChunk
<1>11. Idle' /\ EntriesCleared' /\ FramesFlat' /\ Folding'
  BY DEF SplitChunk, LoopInv, Idle, EntriesCleared, FramesFlat, Folding
<1> QED
  BY <1>8, <1>9, <1>10, <1>11 DEF LoopInv

\* The chunk goes from the pool to a slot, whose partial value is its entry.
LEMMA TakeChunkKeeps ==
  ASSUME Flat, LoopInv, TypeOK', NEW s \in Slots, NEW c \in pool, TakeChunk(s, c)
  PROVE  LoopInv' /\ \A i \in Iterations : Pending(i)' <=> Pending(i)
<1> USE ThreadsAssumption, LoopAssumption
<1>1. top[s] = 0 /\ top' = [top EXCEPT ![s] = 1] /\ pool' = pool \ {c}
  BY DEF TakeChunk, Flat, LoopInv, TypeOK
<1>2. /\ frame'[s][1] = [cur |-> c[1], hi |-> c[2], acc |-> red[s], at |-> "iter"]
      /\ \A t \in Slots \ {s} : frame'[t] = frame[t]
  <2>1. frame[s] \in [Depths -> Frames] /\ 1 \in Depths
    BY DEF LoopInv, TypeOK, Depths
  <2> QED BY <1>1, <2>1 DEF TakeChunk, LoopInv, TypeOK
<1>3. c \in Chunks /\ c[1] \in Int /\ c[2] \in Int /\ c[1] < c[2]
  BY DEF LoopInv, TypeOK, Chunks
<1>4. Depths = {1} /\ top \in [Slots -> 0 .. 1]
  BY DEF Flat, Depths, LoopInv, TypeOK
<1>5. \A i \in Iterations : InFrame(s, 1, i)' <=> InChunk(c, i)
  BY <1>1, <1>2, <1>4 DEF InFrame, IsOpen, InChunk
<1>6. \A t \in Slots \ {s}, i \in Iterations : InFrame(t, 1, i)' <=> InFrame(t, 1, i)
  BY <1>1, <1>2, <1>4 DEF InFrame, IsOpen
<1>7. \A i \in Iterations : ~InFrame(s, 1, i)
  BY <1>1 DEF InFrame, IsOpen
<1>8. \A i \in Iterations : Pending(i)' <=> Pending(i)
  <2>1. \A i \in Iterations : Pending(i) <=>
          (\E d \in pool : InChunk(d, i)) \/ (\E t \in Slots : InFrame(t, 1, i))
    BY <1>4 DEF Pending
  <2>2. \A i \in Iterations : Pending(i)' <=>
          (\E d \in pool' : InChunk(d, i)) \/ (\E t \in Slots : InFrame(t, 1, i)')
    BY <1>4 DEF Pending, InChunk
  <2> QED BY <1>1, <1>5, <1>6, <1>7, <2>1, <2>2
<1>9. \A t \in Slots : Partial(t)' = Partial(t)
  BY <1>1, <1>2, <1>4 DEF Partial, TakeChunk
<1>10. EachIterationHeldOnce'
  BY <1>8, <1>9 DEF TakeChunk, LoopInv, EachIterationHeldOnce
<1>11. Disjoint'
  <2>1. \A i \in Iterations, d, e \in pool : InChunk(d, i) /\ InChunk(e, i) => d = e
    BY DEF LoopInv, Disjoint
  <2>2. \A i \in Iterations, t \in Slots, d \in pool' : ~(InFrame(t, 1, i)' /\ InChunk(d, i))
    BY <1>1, <1>5, <1>6, <2>1 DEF LoopInv, Disjoint
  <2>3. \A i \in Iterations, t, u \in Slots : InFrame(t, 1, i)' /\ InFrame(u, 1, i)' => t = u
    BY <1>5, <1>6 DEF LoopInv, Disjoint
  <2> QED BY <1>1, <2>1, <2>2, <2>3 DEF Disjoint, InChunk
<1>12. FramesFlat'
  BY <1>1, <1>2, <1>3, <1>4 DEF LoopInv, FramesFlat
<1>13. Idle' /\ EntriesCleared' /\ Folding'
  BY DEF TakeChunk, LoopInv, Idle, EntriesCleared, Folding
<1> QED
  BY <1>8, <1>10, <1>11, <1>12, <1>13 DEF LoopInv

\* The iteration performed was in no other chunk and held by no slot; now the
\* slot that performed it holds it.
LEMMA PerformKeeps ==
  ASSUME Flat, LoopInv, TypeOK', NEW s \in Slots, Iterate(s) \/ LeaveNested(s)
  PROVE  /\ LoopInv'
         /\ \E k \in Iterations :
              Pending(k) /\ \A i \in Iterations : Pending(i)' <=> Pending(i) /\ i # k
<1> USE ThreadsAssumption, LoopAssumption
<1> DEFINE k == frame[s][1].cur
<1>1. Depths = {1} /\ top \in [Slots -> 0 .. 1] /\ top[s] = 1
  BY DEF Flat, Depths, Iterate, LeaveNested, LoopInv, TypeOK
<1>2. /\ frame[s][1] \in Frames
      /\ k \in Iterations
      /\ k < frame[s][1].hi
      /\ frame[s][1].acc \in Values
      /\ frame[s][1].hi \in Int
  <2>1. frame[s][1] \in Frames
    BY <1>1 DEF LoopInv, TypeOK
  <2> QED BY <1>1, <2>1 DEF Iterate, LeaveNested, TopFrame, Frames, Iterations
<1>3. /\ frame'[s][1] = Advanced(frame[s][1])
      /\ \A t \in Slots \ {s} : frame'[t] = frame[t]
  BY <1>1 DEF Iterate, LeaveNested, TopFrame, LoopInv, TypeOK
<1>4. /\ frame'[s][1].cur = k + 1
      /\ frame'[s][1].hi = frame[s][1].hi
      /\ frame'[s][1].at = "iter"
      /\ \A i \in Iterations :
           frame'[s][1].acc[i] = frame[s][1].acc[i] + (IF i = k THEN Unit ELSE 0)
  <2>1. \A i \in Iterations : frame[s][1].acc[i] \in Int
    BY <1>2 DEF Values
  <2>2. Unit \in Int
    BY DEF Unit
  <2>3. frame'[s][1].acc = [frame[s][1].acc EXCEPT ![k] = @ + Unit]
    BY <1>3 DEF Advanced, Accumulate
  <2> QED BY <1>2, <1>3, <2>1, <2>2, <2>3 DEF Advanced, Values
<1>5. \A i \in Iterations : InFrame(s, 1, i)' <=> InFrame(s, 1, i) /\ i # k
  BY <1>1, <1>2, <1>4 DEF Iterate, LeaveNested, InFrame, IsOpen, Iterations
<1>6. \A t \in Slots \ {s}, i \in Iterations : InFrame(t, 1, i)' <=> InFrame(t, 1, i)
  BY <1>3 DEF Iterate, LeaveNested, InFrame, IsOpen
<1>7. InFrame(s, 1, k)
  BY <1>1, <1>2 DEF InFrame, IsOpen, Iterations
<1>8. \A t \in Slots \ {s} : Partial(t)' = Partial(t)
  BY <1>1, <1>3 DEF Iterate, LeaveNested, Partial
<1>9. Partial(s) = frame[s][1].acc /\ Partial(s)' = frame'[s][1].acc
  BY <1>1 DEF Iterate, LeaveNested, Partial
<1>10. \A i \in Iterations : Pending(i) <=>
          (\E d \in pool : InChunk(d, i)) \/ (\E t \in Slots : InFrame(t, 1, i))
  BY <1>1 DEF Pending
<1>11. \A i \in Iterations : Pending(i)' <=>
          (\E d \in pool : InChunk(d, i)) \/ (\E t \in Slots : InFrame(t, 1, i)')
  BY <1>1 DEF Iterate, LeaveNested, Pending, InChunk
<1>12. Disjoint'
  BY <1>5, <1>6 DEF Iterate, LeaveNested, LoopInv, Disjoint, InChunk
<1>13. \A i \in Iterations : Pending(i)' <=> Pending(i) /\ i # k
  BY <1>2, <1>5, <1>6, <1>7, <1>10, <1>11 DEF LoopInv, Disjoint
<1>14. EachIterationHeldOnce'
  <2> SUFFICES ASSUME NEW i \in Iterations
               PROVE  IF Pending(i)'
                      THEN \A t \in Slots : Partial(t)'[i] = 0
                      ELSE \E t \in Slots : /\ Partial(t)'[i] = Unit
                                            /\ \A u \in Slots \ {t} : Partial(u)'[i] = 0
    BY DEF EachIterationHeldOnce
  <2>1. IF Pending(i)
        THEN \A t \in Slots : Partial(t)[i] = 0
        ELSE \E t \in Slots : /\ Partial(t)[i] = Unit
                              /\ \A u \in Slots \ {t} : Partial(u)[i] = 0
    BY DEF Iterate, LeaveNested, LoopInv, EachIterationHeldOnce
  <2>2. CASE i = k
    <3>1. Pending(i) /\ ~Pending(i)'
      BY <1>7, <1>10, <1>13, <2>2
    <3>2. Partial(s)'[i] = Unit
      BY <1>4, <1>9, <2>1, <2>2, <3>1 DEF Unit
    <3> QED BY <1>8, <2>1, <3>1, <3>2
  <2>3. CASE i # k
    <3>1. Partial(s)'[i] = Partial(s)[i]
      BY <1>2, <1>4, <1>9, <2>3 DEF Values
    <3>2. \A t \in Slots : Partial(t)'[i] = Partial(t)[i]
      BY <1>8, <3>1
    <3> QED BY <1>13, <2>1, <2>3, <3>2
  <2> QED BY <2>2, <2>3
<1>15. FramesFlat'
  BY <1>1, <1>2, <1>3, <1>4 DEF Iterate, LeaveNested, LoopInv, FramesFlat, Iterations
<1>17. Pending(k)
  BY <1>2, <1>7, <1>10
<1>16. Idle' /\ EntriesCleared' /\ Folding'
  BY DEF Iterate, LeaveNested, LoopInv, Idle, EntriesCleared, Folding
<1> QED
  BY <1>2, <1>13, <1>17, <1>12, <1>14, <1>15, <1>16 DEF LoopInv

\* A thread that starts to wait has performed nothing.
LEMMA EnterNestedKeeps ==
  ASSUME Flat, LoopInv, TypeOK', NEW s \in Slots, EnterNested(s)
  PROVE  LoopInv' /\ \A i \in Iterations : Pending(i)' <=> Pending(i)
<1> USE ThreadsAssumption, LoopAssumption
<1>1. Depths = {1} /\ top \in [Slots -> 0 .. 1] /\ top[s] = 1 /\ top' = top
  BY DEF Flat, Depths, EnterNested, LoopInv, TypeOK
<1>2. /\ frame'[s][1] = Waiting(frame[s][1])
      /\ \A t \in Slots \ {s} : frame'[t] = frame[t]
  BY <1>1 DEF EnterNested, TopFrame, LoopInv, TypeOK
<1>3. \A t \in Slots : /\ frame'[t][1].cur = frame[t][1].cur
                       /\ frame'[t][1].hi = frame[t][1].hi
                       /\ frame'[t][1].acc = frame[t][1].acc
  BY <1>2 DEF Waiting
<1>4. \A t \in Slots, i \in Iterations : InFrame(t, 1, i)' <=> InFrame(t, 1, i)
  BY <1>1, <1>3 DEF InFrame, IsOpen
<1>5. \A i \in Iterations : Pending(i)' <=> Pending(i)
  BY <1>1, <1>4 DEF EnterNested, Pending, InChunk
<1>6. \A t \in Slots : Partial(t)' = Partial(t)
  BY <1>1, <1>3 DEF EnterNested, Partial
<1>7. EachIterationHeldOnce'
  BY <1>5, <1>6 DEF EnterNested, LoopInv, EachIterationHeldOnce
<1>8. Disjoint'
  BY <1>4 DEF EnterNested, LoopInv, Disjoint, InChunk
<1>9. FramesFlat'
  BY <1>1, <1>3 DEF LoopInv, FramesFlat
<1>10. Idle' /\ EntriesCleared' /\ Folding'
  BY DEF EnterNested, LoopInv, Idle, EntriesCleared, Folding
<1> QED
  BY <1>5, <1>7, <1>8, <1>9, <1>10 DEF LoopInv

\* The end of a chunk: its value becomes the entry of the slot.
LEMMA StoreChunkKeeps ==
  ASSUME Flat, LoopInv, TypeOK', NEW s \in Slots, StoreChunk(s)
  PROVE  LoopInv' /\ \A i \in Iterations : Pending(i)' <=> Pending(i)
<1> USE ThreadsAssumption, LoopAssumption
<1>1. Depths = {1} /\ top \in [Slots -> 0 .. 1] /\ top[s] = 1 /\ top' = [top EXCEPT ![s] = 0]
  <2>1. Depths = {1} /\ top \in [Slots -> 0 .. 1]
    BY DEF Flat, Depths, LoopInv, TypeOK
  <2>2. top[s] = 1
    BY <2>1 DEF StoreChunk
  <2> QED BY <2>1, <2>2 DEF StoreChunk
<1>2. s \in Entries /\ red' = [red EXCEPT ![s] = frame[s][1].acc] /\ red \in [Entries -> Values]
  <2>1. TopFrame(s) = frame[s][1]
    BY <1>1 DEF TopFrame
  <2> QED BY <2>1, SlotsAreEntries DEF StoreChunk, LoopInv, TypeOK
<1>3. frame[s][1].cur = frame[s][1].hi /\ frame[s][1].cur \in Int
  <2>1. frame[s][1] \in Frames
    BY <1>1 DEF LoopInv, TypeOK
  <2> QED BY <1>1, <2>1 DEF StoreChunk, TopFrame, Frames
<1>4. \A t \in Slots : Partial(t)' = Partial(t)
  BY <1>1, <1>2, SlotsAreEntries DEF StoreChunk, Partial
<1>5. \A t \in Slots, i \in Iterations : InFrame(t, 1, i)' <=> InFrame(t, 1, i)
  <2>1. \A i \in Iterations : ~InFrame(s, 1, i)
    BY <1>3 DEF InFrame, Iterations
  <2>2. \A i \in Iterations : ~InFrame(s, 1, i)'
    BY <1>1 DEF InFrame, IsOpen
  <2>3. \A t \in Slots \ {s}, i \in Iterations : InFrame(t, 1, i)' <=> InFrame(t, 1, i)
    BY <1>1 DEF StoreChunk, InFrame, IsOpen
  <2> QED BY <2>1, <2>2, <2>3
<1>6. \A i \in Iterations : Pending(i)' <=> Pending(i)
  BY <1>1, <1>5 DEF StoreChunk, Pending, InChunk
<1>7. EachIterationHeldOnce'
  BY <1>4, <1>6 DEF StoreChunk, LoopInv, EachIterationHeldOnce
<1>8. Disjoint'
  BY <1>5 DEF StoreChunk, LoopInv, Disjoint, InChunk
<1>9. FramesFlat'
  BY <1>1 DEF StoreChunk, LoopInv, FramesFlat
<1>10. EntriesCleared'
  BY <1>2 DEF StoreChunk, LoopInv, EntriesCleared
<1>11. Idle' /\ Folding'
  BY DEF StoreChunk, LoopInv, Idle, Folding
<1> QED
  BY <1>6, <1>7, <1>8, <1>9, <1>10, <1>11 DEF LoopInv

\* When no chunk is left nothing is pending, so each iteration is held by one
\* slot: by its entry.
LEMMA JoinKeeps == ASSUME Flat, LoopInv, TypeOK', Join PROVE LoopInv'
<1> USE ThreadsAssumption, LoopAssumption
<1>1. \A t \in Slots : Partial(t) = red[t]
  BY DEF Join, Partial
<1>2. \A i \in Iterations : ~Pending(i)
  <2>1. \A t \in Slots, d \in Depths : ~IsOpen(t, d)
    BY DEF Join, IsOpen, Depths
  <2> QED BY <2>1 DEF Join, Pending, InFrame
<1>3. ASSUME NEW i \in Iterations PROVE \E h \in Entries : Holds(h, i)'
  <2>1. PICK h \in Slots : /\ red[h][i] = Unit
                           /\ \A u \in Slots \ {h} : red[u][i] = 0
    BY <1>1, <1>2 DEF Join, LoopInv, EachIterationHeldOnce
  <2>2. \A e \in Entries \ Slots : red[e][i] = 0
    BY DEF Join, LoopInv, EntriesCleared, Neutral
  <2>3. result[i] = 0 /\ ~(h < 0)
    BY DEF Join, LoopInv, EntriesCleared, Neutral, Slots
  <2>4. h \in Entries /\ red[h]'[i] = Unit /\ \A e \in Entries \ {h} : red[e]'[i] = 0
    BY <2>1, <2>2, SlotsAreEntries DEF Join
  <2>5. Holds(h, i)'
    BY <2>3, <2>4 DEF Join, Holds
  <2> QED BY <2>4, <2>5
<1>4. Folding'
  BY <1>3 DEF Join, Folding
<1>5. Idle' /\ EntriesCleared' /\ FramesFlat' /\ EachIterationHeldOnce'
  BY DEF Join, LoopInv, Idle, EntriesCleared, FramesFlat, EachIterationHeldOnce
<1>6. Disjoint'
  BY DEF Join, LoopInv, Disjoint, InFrame, IsOpen, InChunk
<1> QED
  BY <1>4, <1>5, <1>6 DEF LoopInv

\* Folding entry idx takes in the iterations that entry holds.
LEMMA CombineEntryKeeps == ASSUME Flat, LoopInv, TypeOK', CombineEntry PROVE LoopInv'
<1> USE ThreadsAssumption, LoopAssumption
<1>1. idx \in Entries /\ red[idx] \in Values /\ result \in Values
  BY DEF CombineEntry, LoopInv, TypeOK, Entries
<1>2. \A i \in Iterations : result'[i] = result[i] + red[idx][i]
  BY DEF CombineEntry, Combine, Flat
<1>3. ASSUME NEW i \in Iterations PROVE \E h \in Entries : Holds(h, i)'
  <2>1. PICK h \in Entries : Holds(h, i)
    BY DEF CombineEntry, LoopInv, Folding
  <2>2. result'[i] = IF h < idx + 1 THEN Unit ELSE 0
    <3>1. CASE h = idx
      <4>1. red[idx][i] = Unit /\ result[i] = 0 /\ Unit \in Int
        BY <1>1, <2>1, <3>1 DEF Holds, Entries, Unit
      <4> QED BY <1>1, <1>2, <3>1, <4>1 DEF Entries
    <3>2. CASE h # idx
      <4>1. red[idx][i] = 0
        BY <1>1, <2>1, <3>2 DEF Holds
      <4>2. h < idx + 1 <=> h < idx
        BY <1>1, <3>2 DEF Entries
      <4> QED BY <1>2, <2>1, <4>1, <4>2 DEF Holds, Unit
    <3> QED BY <3>1, <3>2
  <2> QED BY <2>1, <2>2 DEF CombineEntry, Holds
<1>4. Folding'
  BY <1>3 DEF CombineEntry, Folding
<1>5. Idle' /\ EntriesCleared' /\ FramesFlat' /\ EachIterationHeldOnce'
  BY DEF CombineEntry, LoopInv, Idle, EntriesCleared, FramesFlat, EachIterationHeldOnce
<1>6. Disjoint'
  BY DEF CombineEntry, LoopInv, Disjoint, InFrame, IsOpen, InChunk
<1> QED
  BY <1>4, <1>5, <1>6 DEF LoopInv

\* Returning changes nothing the invariant speaks of.
LEMMA ReturnKeeps == ASSUME Flat, LoopInv, TypeOK', Return PROVE LoopInv'
<1>1. Folding'
  BY DEF Return, LoopInv, Folding, Holds
<1>2. Idle' /\ EntriesCleared' /\ FramesFlat' /\ EachIterationHeldOnce'
  BY DEF Return, LoopInv, Idle, EntriesCleared, FramesFlat, EachIterationHeldOnce
<1>3. Disjoint'
  BY DEF Return, LoopInv, Disjoint, InFrame, IsOpen, InChunk
<1> QED
  BY <1>1, <1>2, <1>3 DEF LoopInv

\* Nor does a step that changes no variable.
LEMMA StutterKeeps == ASSUME LoopInv, UNCHANGED vars PROVE LoopInv'
<1>1. TypeOK' /\ Idle' /\ EntriesCleared' /\ FramesFlat' /\ Folding'
  BY DEF vars, LoopInv, TypeOK, Idle, EntriesCleared, FramesFlat, Folding, Holds
<1>2. Disjoint'
  BY DEF vars, LoopInv, Disjoint, InFrame, IsOpen, InChunk
<1>3. EachIterationHeldOnce'
  BY DEF vars, LoopInv, EachIterationHeldOnce, Pending, Partial, InFrame, IsOpen, InChunk
<1> QED
  BY <1>1, <1>2, <1>3 DEF LoopInv

\* Every step keeps the invariant.
LEMMA LoopInvNext == ASSUME Flat, LoopInv, [Next]_vars PROVE LoopInv'
<1>1. TypeOK'
  BY NextType DEF LoopInv
<1>2. CASE CallerStep
  BY <1>1, <1>2, InitEntryKeeps, StartLoopKeeps, JoinKeeps, CombineEntryKeeps, ReturnKeeps
  DEF CallerStep
<1>3. CASE \E c \in pool : SplitChunk(c)
  BY <1>1, <1>3, SplitChunkKeeps
<1>4. ASSUME NEW s \in Slots, ThreadStep(s) PROVE LoopInv'
  BY <1>1, <1>4, TakeChunkKeeps, PerformKeeps, EnterNestedKeeps, StoreChunkKeeps
  DEF ThreadStep
<1>5. CASE UNCHANGED vars
  BY <1>5, StutterKeeps
<1> QED
  BY <1>2, <1>3, <1>4, <1>5 DEF Next, Returned

\* In every reachable state of the generated code each iteration is still to be
\* performed, or held by exactly one slot (parallel_to_tbb.cpp:157-180).
THEOREM HeldOnce == ASSUME Flat PROVE Spec => []EachIterationHeldOnce
<1>1. Init => LoopInv
  BY LoopInvInit
<1>2. LoopInv /\ [Next]_vars => LoopInv'
  BY LoopInvNext
<1>3. LoopInv => EachIterationHeldOnce
  BY DEF LoopInv
<1> QED
  BY <1>1, <1>2, <1>3, PTL DEF Spec

\* The invariant gives the value of the finished loop.
LEMMA DoneIsFull ==
  ASSUME LoopInv, phase \in {"combine", "done"}, idx = MaxConcurrency PROVE result = Full
<1>2. result \in [Iterations -> Int]
  BY DEF LoopInv, TypeOK, Values
<1>1. \A i \in Iterations : result[i] = Unit
  <2> SUFFICES ASSUME NEW i \in Iterations PROVE result[i] = Unit
    OBVIOUS
  <2>1. PICK h \in Entries : Holds(h, i)
    BY DEF LoopInv, Folding
  <2>2. h < idx
    BY ThreadsAssumption DEF LoopInv, Folding, Entries
  <2> QED BY <2>1, <2>2 DEF Holds
<1> QED
  BY <1>1, <1>2 DEF Full

\* The value returned is that of the sequential loop (test_basic.py:426-476).
THEOREM ReductionExact == ASSUME Flat PROVE Spec => []ResultCorrect
<1>1. Init => LoopInv
  BY LoopInvInit
<1>2. LoopInv /\ [Next]_vars => LoopInv'
  BY LoopInvNext
<1>3. LoopInv => ResultCorrect
  BY DoneIsFull DEF ResultCorrect, LoopInv, Folding
<1> QED
  BY <1>1, <1>2, <1>3, PTL DEF Spec
-----------------------------------------------------------------------------
(***************************************************************************)
(* The generated code implements LoopOnce: performing an iteration is      *)
(* Execute, returning from the combine loop is Publish, and every other    *)
(* step leaves the performed iterations and the value alone.               *)
(***************************************************************************)

\* Nothing has been performed when the loop is entered.
LEMMA RefineInit == Init => Once!Init
  BY DEF Init, Once!Init, Once!NoValue, Executed, Value

\* A step that keeps what is pending is a stutter of LoopOnce.
LEMMA RefineStutter ==
  ASSUME phase # "done", phase' # "done",
         \A i \in Iterations : (phase # "init" /\ ~Pending(i)) <=> (phase # "init" /\ ~Pending(i))'
  PROVE  UNCHANGED <<Executed, Value>>
  BY DEF Executed, Value

\* Every step maps to a step of LoopOnce or to a stutter.
LEMMA RefineNext ==
  ASSUME Flat, LoopInv, LoopInv', [Next]_vars
  PROVE  [Once!Next]_<<Executed, Value>>
<1> USE ThreadsAssumption, LoopAssumption
<1>1. Depths = {1} /\ top \in [Slots -> 0 .. 1]
  BY DEF Flat, Depths, LoopInv, TypeOK
<1>2. CASE InitEntry
  BY <1>2, RefineStutter DEF InitEntry
<1>3. CASE StartLoop
  <2>1. ASSUME NEW i \in Iterations PROVE Pending(i)'
    <3>1. Count # 0 /\ 0 <= i /\ i < Count
      BY DEF Iterations
    <3>2. <<0, Count>> \in pool'
      BY <1>3, <3>1 DEF StartLoop
    <3>3. InChunk(<<0, Count>>, i)
      BY <3>1 DEF InChunk
    <3> QED BY <3>2, <3>3 DEF Pending, InChunk
  <2> QED BY <1>3, <2>1, RefineStutter DEF StartLoop
<1>4. CASE Join
  <2>1. \A i \in Iterations : Pending(i) <=> Pending(i)'
    BY <1>4 DEF Join, Pending, InFrame, IsOpen, InChunk
  <2> QED BY <1>4, <2>1, RefineStutter DEF Join
<1>5. CASE CombineEntry
  <2>1. \A i \in Iterations : Pending(i) <=> Pending(i)'
    BY <1>5 DEF CombineEntry, Pending, InFrame, IsOpen, InChunk
  <2> QED BY <1>5, <2>1, RefineStutter DEF CombineEntry
<1>6. CASE Return
  <2>1. \A i \in Iterations : ~Pending(i) /\ ~Pending(i)'
    <3>1. pool = {} /\ \A t \in Slots, d \in Depths : ~IsOpen(t, d)
      BY <1>1, <1>6 DEF Return, LoopInv, Idle, IsOpen
    <3> QED BY <1>6, <3>1 DEF Return, Pending, InFrame, IsOpen
  <2>2. Executed = Iterations /\ Executed' = Iterations
    BY <1>6, <2>1 DEF Return, Executed
  <2>3. Value' = Full
    BY <1>6, DoneIsFull DEF Return, Value
  <2> QED BY <2>2, <2>3 DEF Once!Next, Once!Publish, Once!Expected, Full
<1>7. CASE \E c \in pool : SplitChunk(c)
  <2>1. PICK c \in pool : SplitChunk(c)
    BY <1>7
  <2>2. \A i \in Iterations : Pending(i) <=> Pending(i)'
    BY <2>1, SplitChunkKeeps DEF LoopInv
  <2> QED BY <2>1, <2>2, RefineStutter DEF SplitChunk
<1>8. ASSUME NEW s \in Slots, ThreadStep(s) PROVE [Once!Next]_<<Executed, Value>>
  <2>1. CASE \E c \in pool : TakeChunk(s, c)
    <3>1. PICK c \in pool : TakeChunk(s, c)
      BY <2>1
    <3>2. \A i \in Iterations : Pending(i) <=> Pending(i)'
      BY <3>1, TakeChunkKeeps DEF LoopInv
    <3> QED BY <3>1, <3>2, RefineStutter DEF TakeChunk
  <2>2. CASE Iterate(s) \/ LeaveNested(s)
    <3>1. PICK k \in Iterations : /\ Pending(k)
                                  /\ \A i \in Iterations : Pending(i)' <=> Pending(i) /\ i # k
      BY <2>2, PerformKeeps DEF LoopInv
    <3>2. Executed' = Executed \cup {k} /\ k \notin Executed /\ Value' = Value
      BY <2>2, <3>1 DEF Iterate, LeaveNested, Executed, Value
    <3>3. Once!Execute(k)
      BY <3>2 DEF Once!Execute
    <3> QED BY <3>3 DEF Once!Next
  <2>3. CASE StoreChunk(s)
    <3>1. \A i \in Iterations : Pending(i) <=> Pending(i)'
      BY <2>3, StoreChunkKeeps DEF LoopInv
    <3> QED BY <2>3, <3>1, RefineStutter DEF StoreChunk
  <2>4. CASE EnterNested(s)
    <3>1. \A i \in Iterations : Pending(i) <=> Pending(i)'
      BY <2>4, EnterNestedKeeps DEF LoopInv
    <3> QED BY <2>4, <3>1, RefineStutter DEF EnterNested
  <2> QED BY <1>8, <2>1, <2>2, <2>3, <2>4 DEF ThreadStep
<1>9. CASE UNCHANGED vars
  <2>1. \A i \in Iterations : Pending(i) <=> Pending(i)'
    BY <1>9 DEF vars, Pending, InFrame, IsOpen, InChunk
  <2> QED BY <1>9, <2>1 DEF vars, Executed, Value
<1> QED
  BY <1>2, <1>3, <1>4, <1>5, <1>6, <1>7, <1>8, <1>9 DEF Next, CallerStep, Returned

\* The loop with its threads, chunks and entries performs every iteration
\* exactly once and then returns the loop's value.
THEOREM Refinement == ASSUME Flat PROVE Spec => ImplementsLoopOnce
<1>1. Init => LoopInv
  BY LoopInvInit
<1>2. LoopInv /\ [Next]_vars => LoopInv'
  BY LoopInvNext
<1>3. Init => Once!Init
  BY RefineInit
<1>4. LoopInv /\ LoopInv' /\ [Next]_vars => [Once!Next]_<<Executed, Value>>
  BY RefineNext
<1> QED
  BY <1>1, <1>2, <1>3, <1>4, PTL DEF Spec, ImplementsLoopOnce, Once!Spec
=============================================================================
