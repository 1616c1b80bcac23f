---------------------------- MODULE ScalarLowering ----------------------------
(***************************************************************************)
(* A function on two scalar variables: each statement computes a new value *)
(* in the way of the lowered operations and in Python's.                   *)
(***************************************************************************)
EXTENDS ScalarOps

CONSTANTS
    Scalars,          \* the types of the variables
    Ops,              \* the operators used
    Faithful(_, _, _) \* which uses of an operator are looked at: op and the two values

ASSUME ScalarsAssumption ==
    /\ Scalars \subseteq Types
    /\ Ops \subseteq {"+", "-", "*", "**", "//", "%", "/"} \cup Relations

VARIABLES
    x, y,             \* two variables of the function: [t, v]
    px, py            \* their values in Python

vars == <<x, y, px, py>>

\* t has all numbers of u.
Includes(t, u) ==
    IF IsFloat(t) /\ IsInt(u) THEN t = Float64 \/ u.w <= t.w
    ELSE \A n \in Ranged(u) : n \in Ranged(t)
Inclusions == {p \in Types \X Types : Includes(p[1], p[2])}
ExactFloat(a, t) == IsFloat(t) => Round(Read(a), t.w) = Read(a)

\* What the lowering is meant for. Left out: operands that the common type cannot hold (of
\* mixed sign, or an integer with a small float); % of narrow or unsigned integers or of
\* large ones, and of a small float with an integer; powers, quotients and remainders
\* beyond the mantissa; unsigned numbers with the highest bit as an index, an index as a
\* bool; the comparison of a float with an integer beyond the mantissa.
Meant(op, a, b) ==
    LET final == FinalType(a.t, b.t)
    IN  IF op = "cast"
        THEN IF a.t = Index THEN b.t # Bool
             ELSE b.t = Index => (a.t.k = "si" \/ (IsInt(a.t) /\ a.v < 2^(a.t.w - 1)))
        ELSE /\ {<<final, a.t>>, <<final, b.t>>} \subseteq Inclusions
             /\ op = "%" => final \in {Int64, Bool} \cup Floats
                            /\ Abs(Read(b)) <= IF IsFloat(final) THEN 2^(final.w - 1) ELSE 2^(W - 2)
             /\ op = "%" /\ IsFloat(final) => final = ResultType(op, a.t, b.t)
             /\ op = "//" /\ IsFloat(final) => Abs(Read(a)) <= 2^(final.w - 1)
             /\ op \in {"**", "/"} =>
                  /\ ExactFloat(a, Float64) /\ ExactFloat(b, Float64)
                  /\ op = "**" => Round(Python(op, Read(a), Read(b)), P64) = Python(op, Read(a), Read(b))
             /\ op \in Relations => ExactFloat(a, final) /\ ExactFloat(b, final)

\* Python has a value, and it is one of numba's type for the result. For floats, no
\* quotients that are not integers.
Defined(op, a, b, t) ==
    /\ op \in {"//", "/", "%"} => b # 0
    /\ op = "**" => b \in 0..3
    /\ op = "/" => FloorDiv(a, b) * b = a
    /\ Fits(Python(op, a, b), t)

(***************************************************************************)
(* The function                                                            *)
(***************************************************************************)

Init ==
    \E t, u \in Scalars \ {Index} : \E n \in Ranged(t), m \in Ranged(u) :
      x = Number(n, t) /\ y = Number(m, u) /\ px = n /\ py = m

\* The constant is made signless (makeSignlessAttr), then cast to its type.
Literal(n, t) == SignCast(FromInt(n, MakeSignless(t)), t)

\* plier.const, and arguments and globals of a literal type.
ConstOp ==
    \E t \in {Int64, Bool} \cap Scalars : \E n \in Ranged(t) :
      x' = Literal(n, t) /\ px' = n /\ UNCHANGED <<y, py>>

BinOp ==
    \E op \in Ops :
      LET t == ResultType(op, x.t, y.t)
      IN  /\ Index \notin {x.t, y.t}
          /\ Defined(op, px, py, t)
          /\ Faithful(op, x, y)
          /\ x' = BinOpLowering(op, x, y, t)
          /\ px' = Result(op, px, py, t)
          /\ UNCHANGED <<y, py>>

UnaryOp ==
    LET t == IF IsFloat(x.t) THEN x.t ELSE ResultInt({x.t})
    IN  /\ x.t # Index
        /\ \/ x' = DoCast(x, t) /\ px' = px
           \/ Fits(-px, t) /\ x' = Negate(x, t) /\ px' = -px
        /\ UNCHANGED <<y, py>>

\* CastOp to t, of a number that is one of t; or to bool.
Kept(n, t) == t = Bool \/ (Fits(n, t) /\ Value(n, t) = n)
As(n, t) == IF t = Bool THEN (IF n = 0 THEN 0 ELSE 1) ELSE n
CastOp ==
    \E t \in Scalars :
      /\ HasCast(x.t, t)
      /\ Kept(px, t)
      /\ Faithful("cast", x, Zero(t))
      /\ x' = DoCast(x, t) /\ px' = As(px, t)
      /\ UNCHANGED <<y, py>>

\* x if y else y: the condition is cast to a bool and each value to the type of the block
\* argument (CondBrOpLowering).
CondBranch ==
    \E t \in Scalars \ {Index, Bool} :
      /\ Index \notin {x.t, y.t}
      /\ Kept(px, t) /\ Kept(py, t)
      /\ x' = IF DoCast(y, Bool).v = 1 THEN DoCast(x, t) ELSE DoCast(y, t)
      /\ px' = IF py # 0 THEN px ELSE py
      /\ UNCHANGED <<y, py>>

Next == ConstOp \/ BinOp \/ UnaryOp \/ CastOp \/ CondBranch
Spec == Init /\ [][Next]_vars

(***************************************************************************)
(* Properties                                                              *)
(***************************************************************************)

\* Whatever the operators, casts and branches before, the value computed in fixed width
\* is the one Python computes, as long as each value on the way is one of its type.
SameValue == Read(x) = px /\ Read(y) = py
=============================================================================
