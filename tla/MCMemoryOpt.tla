----------------------------- MODULE MCMemoryOpt -----------------------------
(***************************************************************************)
(* Small instances of MemoryOpt. A and B are two arrays that may be the    *)
(* same (arguments of the function); C is allocated in the function and    *)
(* aliases neither.                                                        *)
(***************************************************************************)
EXTENDS MemoryOpt

CONSTANTS A, B, C, x, y

Aliases == {<<r, r>> : r \in {A, B, C}} \cup {<<A, B>>, <<B, A>>}

Family(len, accesses, indirect, markers) ==
  [len |-> len, accesses |-> accesses, indirect |-> indirect, markers |-> markers]
Structure == {"for", "if", "else", "while", "do", "end"}

\* Short bodies on all the arrays, long ones on one, and stores to A at an index
\* that was loaded from C.
SeveralArrays ==
  Family(4, {<<A, x>>, <<A, y>>, <<B, x>>, <<C, x>>}, {}, Structure \cup {"copy"})
OneArray == Family(7, {<<A, x>>}, {}, Structure)
IndexArray == Family(4, {<<C, x>>}, {A}, {})
AllBodies == {SeveralArrays, OneArray, IndexArray}

\* For another run: two loads and a call of another function (SameResults fails).
WithCall == {Family(3, {<<A, x>>}, {}, {"call"})}
=============================================================================
