------------------------------- MODULE ScalarOps -------------------------------
(***************************************************************************)
(* Operators and casts on scalars (plier_to_std.cpp): an operation on      *)
(* Python numbers becomes operations on integers of fixed width and        *)
(* floats, after its operands were cast to a common type; and what numba   *)
(* and Python make of the operation.                                       *)
(*                                                                         *)
(* A type is [k, w]: "si", "ui" and "i" (signless) of w bits, "index", and *)
(* "f" with w bits of mantissa. The value of an integer is its bits, as a  *)
(* number from 0 to 2^w - 1; floats are integral here.                     *)
(***************************************************************************)
EXTENDS Integers, FiniteSets

CONSTANTS
    W,                \* the width of int64 and index
    N,                \* the width of a narrower integer
    P64, P32,         \* the mantissas of the two float types
    MaxFloat          \* floats beyond are left out

ASSUME WidthsAssumption == {W, N, P64, P32} \subseteq Nat /\ 1 < N /\ N < W /\ P32 < P64

Type(k, w) == [k |-> k, w |-> w]
Bool == Type("i", 1)
Int64 == Type("si", W)
Index == Type("index", W)
Float64 == Type("f", P64)
Ints == {Bool} \cup {Type(k, w) : k \in {"si", "ui"}, w \in {N, W}}
Floats == {Float64, Type("f", P32)}
Types == Ints \cup Floats \cup {Index}

IsInt(t) == t.k \in {"si", "ui", "i"}
IsFloat(t) == t.k = "f"
MakeSignless(t) == IF IsInt(t) THEN Type("i", t.w) ELSE t

(***************************************************************************)
(* The operations of the target: bits, their reading as a signed number,   *)
(* and rounding to the nearest float, ties to even.                        *)
(***************************************************************************)

Bits(n, w) == n % 2^w
Signed(v, w) == IF v >= 2^(w - 1) THEN v - 2^w ELSE v
Abs(n) == IF n < 0 THEN -n ELSE n
Length(n) == CHOOSE k \in 0..(4 * W) : n < 2^k /\ (k = 0 \/ n >= 2^(k - 1))
UnitFor(length, p) == IF length <= p THEN 1 ELSE 2^(length - p)
RoundUp(down, rest, unit) == rest > unit \/ (rest = unit /\ down % 2 = 1)
Nearest(n, unit) ==
    unit * (n \div unit + IF RoundUp(n \div unit, 2 * (n % unit), unit) THEN 1 ELSE 0)
Round(n, p) == (IF n < 0 THEN -1 ELSE 1) * Nearest(Abs(n), UnitFor(Length(Abs(n)), p))

FloorDiv(a, b) == IF b > 0 THEN a \div b ELSE (-a) \div (-b)
Power(a, b) == IF b = 0 THEN 1 ELSE a ^ b
TruncDiv(a, b) == (IF (a < 0) = (b < 0) THEN 1 ELSE -1) * (Abs(a) \div Abs(b))

SignCast(a, t) == [t |-> t, v |-> a.v]
FromInt(n, t) == [t |-> t, v |-> IF IsFloat(t) THEN Round(n, t.w) ELSE Bits(n, t.w)]
AsSigned(a) == Signed(a.v, a.t.w)
Zero(t) == FromInt(0, t)

\* addi, subi, muli and the divisions of two signless integers of one type.
ArithI(op, a, b) ==
    LET s == AsSigned(a)
        r == AsSigned(b)
    IN  FromInt(CASE op = "+" -> a.v + b.v [] op = "-" -> a.v - b.v [] op = "*" -> a.v * b.v
                  [] op = "floordivi_signed" -> FloorDiv(s, r)
                  [] op = "divi_unsigned" -> a.v \div b.v
                  [] op = "remi_signed" -> s - r * TruncDiv(s, r), a.t)
\* addf, subf, mulf; divf for a quotient that is an integer.
ArithF(op, a, b) ==
    FromInt(CASE op = "+" -> a.v + b.v [] op = "-" -> a.v - b.v [] op = "*" -> a.v * b.v
              [] op = "/" -> FloorDiv(a.v, b.v) [] op = "**" -> Power(a.v, b.v)
              [] op = "rem" -> a.v - b.v * TruncDiv(a.v, b.v), a.t)
\* floorf of divf: the quotient of p bits, near / 2^e, is rounded before its floor is taken.
FloorOfQuotient(a, b, p) ==
    LET e == CHOOSE k \in 0..(2 * p) : a = 0 \/ (Abs(a) * 2^k >= Abs(b) * 2^(p - 1)
                                               /\ (k = 0 \/ Abs(a) * 2^(k - 1) < Abs(b) * 2^(p - 1)))
        near == Nearest(Abs(a) * 2^e, Abs(b)) \div Abs(b)
    IN  (IF (a < 0) = (b < 0) THEN near ELSE -near) \div 2^e
Relation(op, a, b) ==
    CASE op = "<" -> a < b [] op = "<=" -> a <= b [] op = ">" -> a > b
      [] op = ">=" -> a >= b [] op = "==" -> a = b [] op = "!=" -> a # b
Relations == {"<", "<=", ">", ">=", "==", "!="}
Truth(b) == [t |-> Bool, v |-> IF b THEN 1 ELSE 0]

(***************************************************************************)
(* Casts                                                                   *)
(***************************************************************************)

\* int_cast: the sign of the source decides how it is extended; a bool is "not zero".
IntCast(a, dst) ==
    [t |-> dst,
     v |-> IF dst.w > a.t.w THEN (IF a.t.k = "si" THEN Bits(AsSigned(a), dst.w) ELSE a.v)
           ELSE IF dst.w = 1 /\ a.t.w > 1 THEN (IF a.v = 0 THEN 0 ELSE 1)
           ELSE Bits(a.v, dst.w)]
IntFloatCast(a, dst) == FromInt(IF a.t.k = "si" THEN AsSigned(a) ELSE a.v, dst)
\* A float outside of the range of dst is undefined and not cast here.
FloatIntCast(a, dst) ==
    IF dst.w = 1 THEN SignCast(Truth(a.v # 0), dst) ELSE FromInt(a.v, dst)
\* index_cast: index_cast reads its operand as signed, also that of an unsigned type.
IndexCast(a, dst) == FromInt(AsSigned(a), dst)

\* There is no cast between index and the floats: the plier.cast stays.
HasCast(t, dst) == ~(t = Index /\ IsFloat(dst)) /\ ~(IsFloat(t) /\ dst = Index)
DoCast(a, dst) ==
    CASE a.t = dst -> a
      [] a.t # dst /\ IsInt(a.t) /\ IsInt(dst) -> IntCast(a, dst)
      [] IsInt(a.t) /\ IsFloat(dst) -> IntFloatCast(a, dst)
      [] IsFloat(a.t) /\ IsInt(dst) -> FloatIntCast(a, dst)
      [] IsFloat(a.t) /\ IsFloat(dst) /\ a.t # dst -> FromInt(a.v, dst)
      [] OTHER -> IndexCast(a, dst)

(***************************************************************************)
(* BinOpLowering, UnaryOpLowering                                          *)
(***************************************************************************)

Coerce(t0, t1) ==
    IF IsFloat(t0) /\ ~IsFloat(t1) THEN t0
    ELSE IF ~IsFloat(t0) /\ IsFloat(t1) THEN t1
    ELSE IF t0.w < t1.w THEN t1 ELSE t0
FinalType(t0, t1) == IF t0 = t1 THEN t0 ELSE Coerce(t0, t1)

ReplaceOp(op, a, b, newType) ==
    LET t == MakeSignless(newType)
    IN  DoCast(IF IsFloat(t) THEN ArithF(op, DoCast(a, t), DoCast(b, t))
               ELSE ArithI(op, DoCast(a, t), DoCast(b, t)), newType)
ReplaceIpow(a, b, newType) ==
    DoCast(ArithF("**", DoCast(a, Float64), DoCast(b, Float64)), newType)
ReplaceItruediv(a, b, newType) == ArithF("/", DoCast(a, newType), DoCast(b, newType))

\* Mutant of ReplaceIfloordiv: a signed division rounds towards zero.
ReplaceIfloordivTrunc(a, b, newType) ==
    LET t == MakeSignless(newType)
        s == AsSigned(DoCast(a, t))
        r == AsSigned(DoCast(b, t))
    IN  DoCast(FromInt(TruncDiv(s, r), t), newType)

ReplaceIfloordiv(a, b, newType) ==
    LET t == MakeSignless(newType)
        op == IF newType.k = "si" THEN "floordivi_signed" ELSE "divi_unsigned"
    IN  DoCast(ArithI(op, DoCast(a, t), DoCast(b, t)), newType)
\* ((a rem b) + b) rem b, in the type of the operands.
ReplaceImod(a, b, newType) ==
    LET t == MakeSignless(a.t)
        m == DoCast(a, t)
        n == DoCast(b, t)
        rem(c) == ArithI("remi_signed", c, n)
    IN  DoCast(rem(ArithI("+", rem(m), n)), newType)
ReplaceFfloordiv(a, b, newType) ==
    FromInt(FloorOfQuotient(DoCast(a, newType).v, DoCast(b, newType).v, newType.w), newType)
ReplaceFmod(a, b) == ArithF("rem", ArithF("+", ArithF("rem", a, b), b), b)
ReplaceCmpi(op, a, b) ==
    Truth(IF a.t.k = "si" THEN Relation(op, AsSigned(a), AsSigned(b)) ELSE Relation(op, a.v, b.v))

Iop(op, a, b, newType) ==
    CASE op \in {"+", "-", "*"} -> ReplaceOp(op, a, b, newType)
      [] op = "**" -> ReplaceIpow(a, b, newType)
      [] op = "/" -> ReplaceItruediv(a, b, newType)
      [] op = "//" -> ReplaceIfloordiv(a, b, newType)
      [] op = "%" -> ReplaceImod(a, b, newType)
      [] OTHER -> ReplaceCmpi(op, a, b)
Fop(op, a, b, newType) ==
    CASE op \in Relations -> Truth(Relation(op, a.v, b.v))
      [] op = "//" -> ReplaceFfloordiv(a, b, newType)
      [] op = "%" -> ReplaceFmod(a, b)
      [] OTHER -> ReplaceOp(op, a, b, newType)

\* On operands of the common type, and its result in the type asked for.
LowerTyped(op, c, d, resType) ==
    IF IsInt(c.t) THEN Iop(op, c, d, resType) ELSE Fop(op, c, d, resType)
\* A plier.sign_cast to another float type (replace_fmod_op computes in the type of its
\* operands) converts nothing, and no pass lowers it: no float is the value of it.
Unlowered == 2^(2 * W)
WithType(res, resType) ==
    IF res.t = resType THEN res
    ELSE IF IsFloat(res.t) THEN [t |-> resType, v |-> Unlowered]
    ELSE SignCast(res, resType)
BinOpLowering(op, a, b, resType) ==
    WithType(LowerTyped(op, DoCast(a, FinalType(a.t, b.t)), DoCast(b, FinalType(a.t, b.t)), resType),
             resType)

Negate(a, resType) ==
    LET c == DoCast(a, resType)
    IN  IF IsFloat(resType) THEN FromInt(-c.v, resType)
        ELSE SignCast(ArithI("-", Zero(MakeSignless(resType)), SignCast(c, MakeSignless(resType))),
                      resType)

(***************************************************************************)
(* Numba's types and Python's values                                       *)
(***************************************************************************)

ResultInt(ts) ==
    Type(IF (\E t \in ts : t.k = "ui") /\ ~(\E t \in ts : t.k = "si") THEN "ui" ELSE "si", W)
ResultType(op, t0, t1) ==
    CASE op \in Relations -> Bool
      [] op \notin Relations /\ t0 = t1 /\ IsFloat(t0) -> t0
      [] op \notin Relations /\ t0 # t1 /\ (IsFloat(t0) \/ IsFloat(t1)) -> Float64
      [] op = "/" /\ ~IsFloat(t0) /\ ~IsFloat(t1) -> Float64
      [] OTHER -> ResultInt({t0, t1})

Fits(n, t) ==
    IF IsFloat(t) THEN Abs(n) <= MaxFloat
    ELSE IF t.k \in {"si", "index"} THEN n \in -(2^(t.w - 1)) .. 2^(t.w - 1) - 1
    ELSE n \in 0 .. 2^t.w - 1
Python(op, a, b) ==
    CASE op = "+" -> a + b [] op = "-" -> a - b [] op = "*" -> a * b
      [] op = "**" -> Power(a, b)
      [] op \in {"//", "/"} -> FloorDiv(a, b)
      [] op = "%" -> a - b * FloorDiv(a, b)
      [] OTHER -> IF Relation(op, a, b) THEN 1 ELSE 0

\* Python converts the operands of a float operation.
Value(n, t) == IF IsFloat(t) THEN Round(n, t.w) ELSE n
Result(op, a, b, t) == Value(Python(op, Value(a, t), Value(b, t)), t)
Read(a) == IF a.t.k \in {"si", "index"} THEN AsSigned(a) ELSE a.v

Number(n, t) == FromInt(n, t)
Ranged(t) == {n \in -(2^W) .. 2^W : Fits(n, t) /\ Value(n, t) = n}
=============================================================================
