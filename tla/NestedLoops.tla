----------------------------- MODULE NestedLoops -----------------------------
(***************************************************************************)
(* dpcomp_parallel_for (tbb_parallel.cpp): the iteration space of one to   *)
(* any number of loops is handed to TBB as blocked ranges of iteration     *)
(* counts, up to three loops at a time; TBB cuts them into chunks, and the *)
(* outlined function is called once per chunk with the bounds of every     *)
(* loop, which are collected from a chain of Dim records, the innermost    *)
(* first. All the arithmetic is that of size_t; the bounds are signed      *)
(* index values of the generated code.                                     *)
(*                                                                         *)
(* A task is a range TBB has been given and has not run yet. The thread    *)
(* that runs an outer task waits for the nested call; only which tasks are *)
(* left matters here, so the wait itself is not modelled (ParallelFor      *)
(* models it).                                                             *)
(***************************************************************************)
EXTENDS Integers, Sequences, FiniteSets, FiniteSetsExt, Bags

CONSTANTS
  NumThreads,  \* TBBContext::numThreads
  MaxGrain,    \* 64 in getRange
  Word,        \* number of size_t values, 2^64
  Inputs       \* the InputRange arrays: sequences of [lower, upper, step]

ASSUME WordAssumption == Word \in Nat /\ Word > 1 /\ Word % 2 = 0
ASSUME GrainAssumption == NumThreads \in Nat \ {0} /\ MaxGrain \in Nat \ {0}
ASSUME InputsAssumption ==
  \A nest \in Inputs :
    /\ nest \in Seq([lower : 0 .. Word - 1, upper : 0 .. Word - 1, step : 1 .. Word - 1])
    /\ Len(nest) > 0

VARIABLES
  input,  \* input_ranges
  phase,  \* "call", "run", "done", or "fault" after reading past the chain
  tasks,  \* [depth, box, prev]: box[i] is the range of counts of loop depth + i
  calls   \* bag of the ranges the outlined function was called with

vars == <<input, phase, tasks, calls>>

Wrap(n)   == n % Word
Signed(n) == IF n < Word \div 2 THEN n ELSE n - Word
NumLoops  == Len(input)

\* A loop that does not end before it begins and whose last chunk, which may reach
\* past the upper bound, ends within the signed range.
BoundsFit(r) ==
  /\ Signed(r.lower) <= Signed(r.upper)
  /\ Signed(r.upper) + r.step <= Word \div 2

InputsFit == \A nest \in Inputs : \A i \in DOMAIN nest : BoundsFit(nest[i])

\* Mutant of Iterations: the count is rounded down.
IterationsFloor(r) == Wrap(r.upper - r.lower) \div r.step

\* Mutant of Iterations: one step too many when the length is a multiple of it.
IterationsPlusOne(r) == (Wrap(r.upper - r.lower) + r.step) \div r.step

\* getRange: the number of iterations of a loop, and the grain of its range.
Iterations(r) == Wrap(r.upper - r.lower + r.step - 1) \div r.step
Grain(r) == Max({1, Min({(Iterations(r) \div NumThreads) \div 2, MaxGrain})})

\* parallel_for_nested: how many loops run at this depth, and whether they are
\* the last ones (the template arguments N and Term).
Rem(depth)   == NumLoops - depth
LoopsAt(depth) == IF Rem(depth) <= 3 THEN Rem(depth) ELSE 3
Term(depth)  == Rem(depth) <= 3

\* Mutant of Whole: every level copies the first ranges of the array.
WholeFromFirst(depth, prev) ==
  [depth |-> depth,
   box   |-> [i \in 1 .. LoopsAt(depth) |-> <<0, Iterations(input[i])>>],
   prev  |-> prev]

\* The range run_parallel_for gives to TBB.
Whole(depth, prev) ==
  [depth |-> depth,
   box   |-> [i \in 1 .. LoopsAt(depth) |-> <<0, Iterations(input[depth + i])>>],
   prev  |-> prev]

\* A nest that run_parallel_for hands to TBB as one range.
FitsOneRange == NumLoops <= 3

Size(b) == b[2] - b[1]
EmptyRange(t) == \E i \in DOMAIN t.box : Size(t.box[i]) = 0

\* The chain of loopBody, outermost loop first.
Dims(t) ==
  t.prev \o [i \in DOMAIN t.box |->
    LET r == input[t.depth + i]
    IN  [lower |-> Wrap(r.lower + t.box[i][1] * r.step),
         upper |-> Wrap(r.lower + t.box[i][2] * r.step)]]
-----------------------------------------------------------------------------
Init ==
  /\ input \in Inputs
  /\ phase = "call"
  /\ tasks = {}
  /\ calls = EmptyBag

Running == phase = "run"

\* dpcomp_parallel_for enters the arena.
Call ==
  /\ phase = "call"
  /\ phase' = "run"
  /\ tasks' = {Whole(0, <<>>)}
  /\ UNCHANGED <<input, calls>>

\* TBB: a range that is larger than its grain in some dimension may be cut in
\* the middle of that dimension.
Split ==
  /\ Running
  /\ \E t \in tasks : \E i \in DOMAIN t.box :
       /\ ~EmptyRange(t)
       /\ Size(t.box[i]) > Grain(input[t.depth + i])
       /\ LET mid == t.box[i][1] + Size(t.box[i]) \div 2
          IN  tasks' = (tasks \ {t}) \cup {[t EXCEPT !.box[i][2] = mid],
                                           [t EXCEPT !.box[i][1] = mid]}
  /\ UNCHANGED <<input, phase, calls>>

\* TBB: nothing is run for an empty range.
SkipEmpty ==
  /\ Running
  /\ \E t \in tasks : EmptyRange(t) /\ tasks' = tasks \ {t}
  /\ UNCHANGED <<input, phase, calls>>

\* loopBody of the last loops: runFunc walks NumLoops records up the chain.
RunFunc ==
  /\ Running
  /\ \E t \in tasks :
       /\ ~EmptyRange(t)
       /\ Term(t.depth)
       /\ tasks' = tasks \ {t}
       /\ LET chain == Dims(t)
          IN  IF Len(chain) < NumLoops
              THEN phase' = "fault" /\ UNCHANGED calls
              ELSE /\ calls' = calls (+) SetToBag({SubSeq(chain, Len(chain) - NumLoops + 1, Len(chain))})
                   /\ UNCHANGED phase
  /\ UNCHANGED input

\* Mutant of RunNested: the nested call starts at the same depth.
RunNestedSameDepth ==
  /\ Running
  /\ \E t \in tasks :
       /\ ~EmptyRange(t)
       /\ ~Term(t.depth)
       /\ tasks' = (tasks \ {t}) \cup {Whole(t.depth, t.prev)}
  /\ UNCHANGED <<input, phase, calls>>

\* loopBody of outer loops: the nested call gets prev_dim, the chain this call
\* was given, without the records of its own loops.
RunNested ==
  /\ Running
  /\ \E t \in tasks :
       /\ ~EmptyRange(t)
       /\ ~Term(t.depth)
       /\ tasks' = (tasks \ {t}) \cup {Whole(t.depth + LoopsAt(t.depth), t.prev)}
  /\ UNCHANGED <<input, phase, calls>>

Return ==
  /\ Running
  /\ tasks = {}
  /\ phase' = "done"
  /\ UNCHANGED <<input, tasks, calls>>

Ended == phase \in {"done", "fault"} /\ UNCHANGED vars

Step == Call \/ Split \/ SkipEmpty \/ RunFunc \/ RunNested \/ Return

Next == Step \/ Ended

Spec == Init /\ [][Next]_vars

\* tbb::parallel_for returns only after every chunk has run, and its workers
\* never stop while there is one.
FairSpec == Spec /\ WF_vars(Step)
-----------------------------------------------------------------------------
\* The iterations of a loop with these (signed) bounds, as range() has them.
Points(lower, upper, step) ==
  {v \in Signed(lower) .. Signed(upper) - 1 : (v - Signed(lower)) % step = 0}

Space == [i \in 1 .. NumLoops |-> Points(input[i].lower, input[i].upper, input[i].step)]

\* The iterations that the outlined function executes in a call.
Within(v, ranges) ==
  \A i \in 1 .. NumLoops : v[i] \in Points(ranges[i].lower, ranges[i].upper, input[i].step)

Tuples == {v \in [1 .. NumLoops -> UNION {Space[i] : i \in 1 .. NumLoops}] :
             \A i \in 1 .. NumLoops : v[i] \in Space[i]}

TypeOK ==
  /\ input \in Inputs
  /\ phase \in {"call", "run", "done", "fault"}
  /\ \A t \in tasks :
       /\ t.depth \in 0 .. NumLoops - 1
       /\ \A i \in DOMAIN t.box :
            /\ t.box[i][1] \in 0 .. t.box[i][2]
            /\ t.box[i][2] <= Iterations(input[t.depth + i])
  /\ IsABag(calls)

\* The ranges and the calls an iteration is in.
Holding(v) == {t \in tasks : Within(v, Dims(t))}
Calling(v) == {c \in DOMAIN calls : Within(v, c)}

\* Every iteration of the loop nest is in exactly one chunk that is still to
\* run or in exactly one call of the outlined function, whatever way TBB cuts
\* the range (getRange, loopBody and runFunc together), and in the latter when
\* the call returns, for nests of up to three loops; ChainLongEnough fails for
\* deeper ones.
ExactlyOnce ==
  phase \in {"run", "done"} /\ FitsOneRange =>
    \A v \in Tuples :
      /\ Cardinality(Holding(v)) + Cardinality(Calling(v)) = 1
      /\ \A c \in Calling(v) : calls[c] = 1

\* No call is for an iteration outside the loops' bounds.
NothingOutside ==
  \A c \in DOMAIN calls : \A i \in 1 .. NumLoops :
    Points(c[i].lower, c[i].upper, input[i].step) \subseteq Space[i]

\* runFunc finds a record for every loop. Holds for up to three.
ChainLongEnough == phase # "fault"

\* The call returns; it may only not do so for a nest of more than three loops,
\* where runFunc follows a null pointer.
Termination == <>(phase = "done" \/ (phase = "fault" /\ ~FitsOneRange))
=============================================================================
