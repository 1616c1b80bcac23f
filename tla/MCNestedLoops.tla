---------------------------- MODULE MCNestedLoops ----------------------------
(***************************************************************************)
(* Small loop nests for NestedLoops. Word = 32 stands for 2^64: most bounds  *)
(* are far from the ends of the signed range, as real ones are.            *)
(***************************************************************************)
EXTENDS NestedLoops

Loop(l, u, s) == [lower |-> Wrap(l), upper |-> Wrap(u), step |-> s]

\* One loop: bounds of either sign, empty ranges, steps that do and do not
\* divide the length.
OneLoop == {<<Loop(l, u, s)>> : l \in {-5, -1, 0, 2}, u \in {2, 3, 7}, s \in 1 .. 3}

\* Loops at either end of the signed range.
AtTheEnds == {<<Loop(-16, -12, 3)>>, <<Loop(8, 13, 3)>>}

\* Two and three loops of different extents, an empty one among them.
TwoLoops ==
  {<<Loop(0, u, 1), Loop(-2, v, 2)>> : u \in {0, 2, 3}, v \in {-2, 1}}

ThreeLoops ==
  {<<Loop(0, 2, 1), Loop(3, 6, 2), Loop(-4, w, 1)>> : w \in {-3, -2}}

\* The smallest nest that run_parallel_for splits over two levels; alone, it violates
\* ChainLongEnough.
FourLoops == {<<Loop(0, 2, 1), Loop(0, 1, 1), Loop(0, 1, 1), Loop(0, 1, 1)>>}

AllNests ==
  {nest \in OneLoop \cup AtTheEnds \cup TwoLoops \cup ThreeLoops \cup FourLoops :
     \A i \in DOMAIN nest : BoundsFit(nest[i])}

\* For another run: prange(5, 3), whose count wraps around (NothingOutside fails).
Reversed == {<<Loop(5, 3, 1)>>}
=============================================================================
