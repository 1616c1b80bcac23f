---------------------------- MODULE ParallelFor ----------------------------
(***************************************************************************)
(* One execution of a parallel reduction loop: the code that ParallelToTbb *)
(* (parallel_to_tbb.cpp) generates around plier.parallel, run by the TBB   *)
(* runtime of tbb_parallel.cpp.                                            *)
(*                                                                         *)
(*   init     a sequential loop stores the neutral element in every entry  *)
(*            of the reduce variable, an array with one entry per arena    *)
(*            slot that is allocated once per function (AllocaInsertion-   *)
(*            Point), so it holds the previous execution's values here;    *)
(*   run      tbb::parallel_for splits 0..Count-1 into chunks; the thread  *)
(*            in slot t that gets a chunk loads entry t, runs the clone of *)
(*            the original loop over the chunk from that value, and stores *)
(*            the result in entry t;                                       *)
(*   combine  a sequential loop folds the entries into the initial value.  *)
(*                                                                         *)
(* When the body of the loop itself runs a parallel loop, the thread waits *)
(* inside an iteration. A thread waiting in TBB runs other chunks of the   *)
(* arena, those of the outer loop included (MaxDepth > 1): nothing in      *)
(* dpcomp_parallel_for isolates the wait (no this_task_arena::isolate).    *)
(*                                                                         *)
(* Values are abstracted as in LoopOnce: the number of times each          *)
(* iteration's operand was applied, so the neutral element is the zero     *)
(* vector for "+" and for "*".                                             *)
(***************************************************************************)
EXTENDS Integers, FiniteSets

CONSTANTS
  NumThreads,       \* TBBContext::numThreads, the slots of the arena
  MaxConcurrency,   \* the max_concurrency attribute, entries of the reduce variable
  Count,            \* iterations of the loop
  Grain,            \* grain size of the blocked range
  ReduceOp,         \* "add" (addi, addf, muli, mulf) or "sub" (subi, subf)
  MaxDepth          \* chunks one thread may have open; 1 if waiting threads take none

\* Both numbers are numba's get_thread_count() (runtime.py:26, passes.py:132),
\* and ParallelToTbb leaves loops alone when it is 1 or less.
ASSUME ThreadsAssumption ==
  /\ NumThreads \in Nat \ {0}
  /\ MaxConcurrency \in Nat
  /\ NumThreads <= MaxConcurrency
ASSUME LoopAssumption ==
  /\ Count \in Nat
  /\ Grain \in Nat \ {0}
  /\ ReduceOp \in {"add", "sub"}
  /\ MaxDepth \in Nat \ {0}

VARIABLES
  phase,    \* "init", "run", "combine" or "done"
  idx,      \* induction variable of the init and of the combine loop
  red,      \* the reduce variable
  pool,     \* chunks <<begin, end>> that no thread has taken yet
  top,      \* top[t]: the chunks that slot t has open, the last one on top
  frame,    \* frame[t][d]: the d-th open chunk of slot t
  result    \* the value the combine loop carries

vars == <<phase, idx, red, pool, top, frame, result>>

Iterations == 0 .. Count - 1
Slots      == 0 .. NumThreads - 1
Entries    == 0 .. MaxConcurrency - 1
Depths     == 1 .. MaxDepth
Values     == [Iterations -> Int]
Chunks     == {c \in (0 .. Count) \X (0 .. Count) : c[1] < c[2]}
Frames     == {f \in [cur : 0 .. Count, hi : 0 .. Count, acc : Values, at : {"iter", "wait"}] :
                 f.at = "wait" => f.cur < f.hi}

Unit    == IF ReduceOp = "sub" THEN -1 ELSE 1
Neutral == [i \in Iterations |-> 0]
Full    == [i \in Iterations |-> Unit]

\* What an entry may hold before the init loop: nothing yet, or the value
\* that an earlier execution of the same loop left in it.
StaleValues == {Neutral, Full}

\* scf.reduce inside the cloned loop: the accumulator takes iteration i.
Accumulate(acc, i) == [acc EXCEPT ![i] = @ + Unit]

\* The reduction body cloned into the combine loop: first operand the carried
\* value, second operand the entry.
Combine(carried, entry) ==
  [i \in Iterations |-> IF ReduceOp = "sub" THEN carried[i] - entry[i]
                                            ELSE carried[i] + entry[i]]

EmptyFrame == [cur |-> 0, hi |-> 0, acc |-> Neutral, at |-> "iter"]

TopFrame(t) == frame[t][top[t]]
IsOpen(t, d) == d <= top[t]

\* A chunk whose body waits for a nested loop, and one whose body has ended.
Waiting(f)  == [cur |-> f.cur, hi |-> f.hi, acc |-> f.acc, at |-> "wait"]
Advanced(f) == [cur |-> f.cur + 1, hi |-> f.hi, acc |-> Accumulate(f.acc, f.cur), at |-> "iter"]
-----------------------------------------------------------------------------
Init ==
  /\ phase = "init"
  /\ idx = 0
  /\ red \in [Entries -> StaleValues]
  /\ pool = {}
  /\ top = [t \in Slots |-> 0]
  /\ frame = [t \in Slots |-> [d \in Depths |-> EmptyFrame]]
  /\ result = Neutral

\* Mutant of InitEntry: the loop runs one entry too far.
InitEntryPastEnd ==
  /\ phase = "init"
  /\ idx <= MaxConcurrency
  /\ red' = [red EXCEPT ![idx] = Neutral]
  /\ idx' = idx + 1
  /\ UNCHANGED <<phase, pool, top, frame, result>>

\* scf.for 0 .. max_concurrency: store the neutral element.
InitEntry ==
  /\ phase = "init"
  /\ idx < MaxConcurrency
  /\ red' = [red EXCEPT ![idx] = Neutral]
  /\ idx' = idx + 1
  /\ UNCHANGED <<phase, pool, top, frame, result>>

\* Mutant of StartLoop: only the entries of the arena's slots were cleared.
StartLoopAfterSlots ==
  /\ phase = "init"
  /\ idx = NumThreads
  /\ phase' = "run"
  /\ pool' = IF Count = 0 THEN {} ELSE {<<0, Count>>}
  /\ UNCHANGED <<idx, red, top, frame, result>>

\* dpcomp_parallel_for hands the whole blocked range to tbb::parallel_for,
\* which runs nothing for an empty range.
StartLoop ==
  /\ phase = "init"
  /\ idx = MaxConcurrency
  /\ phase' = "run"
  /\ pool' = IF Count = 0 THEN {} ELSE {<<0, Count>>}
  /\ UNCHANGED <<idx, red, top, frame, result>>

\* TBB divides a chunk longer than the grain size (auto_partitioner decides
\* where and whether).
SplitChunk(c) ==
  /\ phase = "run"
  /\ c[2] - c[1] > Grain
  /\ \E m \in (c[1] + 1) .. (c[2] - 1) :
       pool' = (pool \ {c}) \cup {<<c[1], m>>, <<m, c[2]>>}
  /\ UNCHANGED <<phase, idx, red, top, frame, result>>

\* Mutant of TakeChunk: the chunk starts from the neutral element instead of
\* the entry.
TakeChunkFresh(t, c) ==
  /\ phase = "run"
  /\ top[t] = 0
  /\ pool' = pool \ {c}
  /\ top' = [top EXCEPT ![t] = @ + 1]
  /\ frame' = [frame EXCEPT ![t][top[t] + 1] =
                 [cur |-> c[1], hi |-> c[2], acc |-> Neutral, at |-> "iter"]]
  /\ UNCHANGED <<phase, idx, red, result>>

\* A thread that is idle, or waiting for a nested loop, gets a chunk: loopBody
\* calls the outlined function, which loads the entry of its slot.
TakeChunk(t, c) ==
  /\ phase = "run"
  /\ \/ top[t] = 0
     \/ top[t] \in 1 .. (MaxDepth - 1) /\ TopFrame(t).at = "wait"
  /\ pool' = pool \ {c}
  /\ top' = [top EXCEPT ![t] = @ + 1]
  /\ frame' = [frame EXCEPT ![t][top[t] + 1] =
                 [cur |-> c[1], hi |-> c[2], acc |-> red[t], at |-> "iter"]]
  /\ UNCHANGED <<phase, idx, red, result>>

\* One iteration of the cloned sequential loop, when the body does not wait.
Iterate(t) ==
  /\ phase = "run"
  /\ top[t] > 0
  /\ TopFrame(t).at = "iter"
  /\ TopFrame(t).cur < TopFrame(t).hi
  /\ frame' = [frame EXCEPT ![t][top[t]] = Advanced(TopFrame(t))]
  /\ UNCHANGED <<phase, idx, red, pool, top, result>>

\* The body reaches its own dpcomp_parallel_for and waits for it ...
EnterNested(t) ==
  /\ phase = "run"
  /\ top[t] > 0
  /\ TopFrame(t).at = "iter"
  /\ TopFrame(t).cur < TopFrame(t).hi
  /\ frame' = [frame EXCEPT ![t][top[t]] = Waiting(TopFrame(t))]
  /\ UNCHANGED <<phase, idx, red, pool, top, result>>

\* ... and the iteration ends once the nested loop has returned.
LeaveNested(t) ==
  /\ phase = "run"
  /\ top[t] > 0
  /\ TopFrame(t).at = "wait"
  /\ frame' = [frame EXCEPT ![t][top[t]] = Advanced(TopFrame(t))]
  /\ UNCHANGED <<phase, idx, red, pool, top, result>>

\* The end of the outlined function: the chunk's result goes to the entry of
\* the slot.
StoreChunk(t) ==
  /\ phase = "run"
  /\ top[t] > 0
  /\ TopFrame(t).at = "iter"
  /\ TopFrame(t).cur = TopFrame(t).hi
  /\ red' = [red EXCEPT ![t] = TopFrame(t).acc]
  /\ top' = [top EXCEPT ![t] = @ - 1]
  /\ UNCHANGED <<phase, idx, pool, frame, result>>

\* Mutant of Join: the loop returns while chunks are still open.
JoinEarly ==
  /\ phase = "run"
  /\ pool = {}
  /\ phase' = "combine"
  /\ idx' = 0
  /\ UNCHANGED <<red, pool, top, frame, result>>

\* tbb::parallel_for returns when every chunk has been processed.
Join ==
  /\ phase = "run"
  /\ pool = {}
  /\ \A t \in Slots : top[t] = 0
  /\ phase' = "combine"
  /\ idx' = 0
  /\ UNCHANGED <<red, pool, top, frame, result>>

\* Mutant of CombineEntry: the induction variable stays.
CombineEntryStays ==
  /\ phase = "combine"
  /\ idx < MaxConcurrency
  /\ result' = Combine(result, red[idx])
  /\ UNCHANGED <<phase, idx, red, pool, top, frame>>

\* scf.for 0 .. max_concurrency: fold one entry into the carried value.
CombineEntry ==
  /\ phase = "combine"
  /\ idx < MaxConcurrency
  /\ result' = Combine(result, red[idx])
  /\ idx' = idx + 1
  /\ UNCHANGED <<phase, red, pool, top, frame>>

\* The results of the combine loop replace those of the original loop.
Return ==
  /\ phase = "combine"
  /\ idx = MaxConcurrency
  /\ phase' = "done"
  /\ UNCHANGED <<idx, red, pool, top, frame, result>>

Returned == phase = "done" /\ UNCHANGED vars

ThreadStep(t) ==
  \/ \E c \in pool : TakeChunk(t, c)
  \/ Iterate(t)
  \/ EnterNested(t)
  \/ LeaveNested(t)
  \/ StoreChunk(t)

CallerStep == InitEntry \/ StartLoop \/ Join \/ CombineEntry \/ Return

Next ==
  \/ CallerStep
  \/ \E c \in pool : SplitChunk(c)
  \/ \E t \in Slots : ThreadStep(t)
  \/ Returned

Spec == Init /\ [][Next]_vars

\* The caller and the worker threads keep running: TBB gives every chunk to
\* some thread, and no step of the generated code blocks.
Fairness == WF_vars(CallerStep) /\ \A t \in Slots : WF_vars(ThreadStep(t))

FairSpec == Spec /\ Fairness
-----------------------------------------------------------------------------
TypeOK ==
  /\ phase \in {"init", "run", "combine", "done"}
  /\ idx \in 0 .. MaxConcurrency
  /\ red \in [Entries -> Values]
  /\ pool \subseteq Chunks
  /\ top \in [Slots -> 0 .. MaxDepth]
  /\ frame \in [Slots -> [Depths -> Frames]]
  /\ result \in Values

\* The iterations an unfinished chunk still has to perform.
InChunk(c, i)    == c[1] <= i /\ i < c[2]
InFrame(t, d, i) == IsOpen(t, d) /\ frame[t][d].cur <= i /\ i < frame[t][d].hi

Pending(i) ==
  \/ \E c \in pool : InChunk(c, i)
  \/ \E t \in Slots, d \in Depths : InFrame(t, d, i)

\* The value slot t would leave behind if it stored now: that of its open
\* chunk, or its entry.
Partial(t) == IF top[t] = 0 THEN red[t] ELSE frame[t][top[t]].acc

\* While the loop runs, every iteration is either still to be performed or
\* held, with its sign, by exactly one slot: the chunks that TBB hands out and
\* the load and store of the entry around each chunk lose and repeat nothing.
EachIterationHeldOnce ==
  phase = "run" =>
    \A i \in Iterations :
      IF Pending(i)
      THEN \A t \in Slots : Partial(t)[i] = 0
      ELSE \E t \in Slots :
             /\ Partial(t)[i] = Unit
             /\ \A u \in Slots \ {t} : Partial(u)[i] = 0

\* The value the loop returns is the one the sequential Python loop computes,
\* as the prange tests require (test_basic.py:426-476).
ResultCorrect == phase = "done" => result = Full

\* The loop ends.
Termination == <>(phase = "done")

Executed == {i \in Iterations : phase # "init" /\ ~Pending(i)}
Value    == IF phase = "done" THEN result ELSE << >>
Once     == INSTANCE LoopOnce WITH executed <- Executed, value <- Value

\* The generated code with its threads, chunks and partial values implements
\* the loop that performs every iteration once and then has its result.
ImplementsLoopOnce == Once!Spec
=============================================================================
