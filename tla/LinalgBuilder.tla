---------------------------- MODULE LinalgBuilder ----------------------------
(***************************************************************************)
(* NumPy's functions as Python functions that build linalg operations      *)
(* (numpy/funcs.py, linalg_builder.py), and the builder they call          *)
(* (py_linalg_resolver.cpp).                                               *)
(*                                                                         *)
(* A tensor is [t, shape, el]: the type of its elements, its dimensions    *)
(* and the bits of its elements in row-major order. A scalar has the shape *)
(* <<>>. An index is a sequence with one number from 0 on per dimension.   *)
(***************************************************************************)
EXTENDS ScalarOps, Sequences
LOCAL INSTANCE SequencesExt

Garbage == -100           \* an element that is not there, or was never written

Tensor(t, shape, el) == [t |-> t, shape |-> shape, el |-> el]
Rank(a) == Len(a.shape)
Dims(shape) == [d \in 1..Len(shape) |-> d]
SizeOf(shape) == FoldLeft(LAMBDA size, n : size * n, 1, shape)
Position(shape, idx) == FoldLeft(LAMBDA at, d : at * shape[d] + idx[d], 0, Dims(shape)) + 1
IndexOf(shape, k) ==
    [d \in 1..Len(shape) |-> ((k - 1) \div SizeOf(SubSeq(shape, d + 1, Len(shape)))) % shape[d]]
Within(shape, idx) == \A d \in 1..Len(shape) : idx[d] \in 0..(shape[d] - 1)

\* Element idx of a, and the sequence of elements F(idx).
Elem(a, idx) ==
    [t |-> a.t, v |-> IF Within(a.shape, idx) THEN a.el[Position(a.shape, idx)] ELSE Garbage]
Elements(shape, F(_)) == [k \in 1..SizeOf(shape) |-> F(IndexOf(shape, k))]
Generate(t, shape, F(_)) == Tensor(t, shape, Elements(shape, F))
Scalar(a) == Tensor(a.t, <<>>, <<a.v>>)
DoSignCast(a) == [a EXCEPT !.t = MakeSignless(@)]

(***************************************************************************)
(* broadcast                                                               *)
(***************************************************************************)

BroadcastType(t1, t2) ==
    CASE t1 = t2 -> t1
      [] t1 # t2 /\ IsInt(t1) /\ IsInt(t2) ->
           Type(IF "si" \in {t1.k, t2.k} THEN "si" ELSE "ui", IF t1.w > t2.w THEN t1.w ELSE t2.w)
      [] IsFloat(t1) /\ IsFloat(t2) /\ t1 # t2 -> IF t1.w > t2.w THEN t1 ELSE t2
      [] OTHER -> IF IsFloat(t1) THEN t1 ELSE t2

BroadcastDim(v1, v2) == IF v1 = 1 THEN v2 ELSE v1
BroadcastShape(old, new) ==
    LET n == IF Len(old) > Len(new) THEN Len(old) ELSE Len(new)
        skipOld == n - Len(old)
        skipNew == n - Len(new)
    IN  [d \in 1..n |-> IF d <= skipOld THEN new[d - skipNew]
                        ELSE IF d <= skipNew THEN old[d - skipOld]
                        ELSE BroadcastDim(old[d - skipOld], new[d - skipNew])]

\* Mutant of ExpandDim: the size of the argument is looked up in the wrong dimension.
ExpandDimFirst(initial, src, dim, target) ==
    IF initial.shape[1] # 1 THEN src
    ELSE Generate(src.t, [src.shape EXCEPT ![dim] = target[dim]],
                  LAMBDA idx : Elem(src, [idx EXCEPT ![dim] = 0]).v)

ExpandDim(initial, src, dim, target) ==
    IF initial.shape[dim] # 1 THEN src
    ELSE Generate(src.t, [src.shape EXCEPT ![dim] = target[dim]],
                  LAMBDA idx : Elem(src, [idx EXCEPT ![dim] = 0]).v)
ExpandDims(val, shape) ==
    LET target == SubSeq(shape, Len(shape) - Rank(val) + 1, Len(shape))
    IN  FoldLeft(LAMBDA current, dim : ExpandDim(val, current, dim, target), val, Dims(target))

\* linalg.generic with the minor identity map; the elements are cast without their sign.
Spread(val, shape, t) ==
    LET skip == Len(shape) - Rank(val)
    IN  Generate(t, shape, LAMBDA idx : DoCast(Elem(val, SubSeq(idx, skip + 1, Len(idx))), t).v)

\* One argument: without its sign, its dimensions expanded, spread where that does not give
\* the result's type.
SpreadUnless(v, shape, t) == IF v.t = t /\ Rank(v) = Len(shape) THEN v ELSE Spread(v, shape, t)
BroadcastArg(val, shape, resType) ==
    IF shape = <<>> THEN Scalar(DoCast(Elem(val, <<>>), resType))
    ELSE [SpreadUnless(ExpandDims(DoSignCast(val), shape), shape, MakeSignless(resType))
            EXCEPT !.t = resType]
Broadcast(a, b) ==
    LET arg(val) == BroadcastArg(val, BroadcastShape(a.shape, b.shape), BroadcastType(a.t, b.t))
    IN  <<arg(a), arg(b)>>

(***************************************************************************)
(* linalg.generic: the body is compiled for the types of the elements, its *)
(* result is cast to the type of the output.                               *)
(***************************************************************************)

Body(op, a, b) == BinOpLowering(op, a, b, ResultType(op, a.t, b.t))
BodyTo(op, a, b, t) == DoCast(Body(op, a, b), t)

InitTensor(shape, t, n) == Generate(t, shape, LAMBDA idx : n)
FromElements(n, t) == Number(n, t)

\* eltwise of two arguments; the elements have the common type where the function asks for
\* none.
GenericOf(op, a, b, t) ==
    IF Rank(a) = 0 THEN Scalar(Body(op, Elem(a, <<>>), Elem(b, <<>>)))
    ELSE Generate(t, a.shape, LAMBDA idx : BodyTo(op, Elem(a, idx), Elem(b, idx), t).v)
EltwiseOf(op, args) ==
    GenericOf(op, args[1], args[2], IF op = "/" THEN Float64 ELSE args[1].t)
Eltwise(op, a, b) == EltwiseOf(op, Broadcast(a, b))
Square(a) == GenericOf("*", a, a, a.t)

PromoteInt(t) == IF IsInt(t) /\ t # Bool THEN Int64 ELSE t

\* The elements of a at the indexes, added up.
Reduce(a, indexes, t) ==
    FoldLeft(LAMBDA acc, idx : BodyTo("+", Elem(a, idx), acc, t), FromElements(0, t), indexes)
Sum(a) == Scalar(Reduce(a, Elements(a.shape, LAMBDA idx : idx), PromoteInt(a.t)))
\* Mutant of SumAxis: the elements are added up along the other dimension.
SumAxisOther(a, axis) ==
    LET at(i, k) == IF axis = 1 THEN <<i[1], k - 1>> ELSE <<k - 1, i[1]>>
        t == PromoteInt(a.t)
    IN  Generate(t, <<a.shape[3 - axis]>>,
                 LAMBDA i : Reduce(a, [k \in 1..a.shape[axis] |-> at(i, k)], t).v)

\* Of two dimensions; axis is 1 or 2 here.
SumAxis(a, axis) ==
    LET at(i, k) == IF axis = 1 THEN <<k - 1, i[1]>> ELSE <<i[1], k - 1>>
        t == PromoteInt(a.t)
    IN  Generate(t, <<a.shape[3 - axis]>>,
                 LAMBDA i : Reduce(a, [k \in 1..a.shape[axis] |-> at(i, k)], t).v)

Size(a) == Scalar(Number(SizeOf(a.shape), Int64))
\* The sum divided by the size: of integers as floats.
Mean(a) ==
    LET t == IF IsFloat(a.t) THEN a.t ELSE Float64
    IN  Scalar(ArithF("/", DoCast(Elem(Sum(a), <<>>), t), DoCast(Elem(Size(a), <<>>), t)))

\* A product of rows of a and columns of b; of vectors a scalar.
DotAt(a, b, n, rowOf(_), columnOf(_)) ==
    FoldLeft(LAMBDA acc, k : BodyTo("+", Body("*", Elem(a, rowOf(k - 1)), Elem(b, columnOf(k - 1))),
                                    acc, a.t),
             FromElements(0, a.t), [k \in 1..n |-> k])
Dot(a, b) ==
    IF Rank(a) = 1
    THEN Scalar(DotAt(a, b, a.shape[1], LAMBDA k : <<k>>, LAMBDA k : <<k>>))
    ELSE Generate(a.t, <<a.shape[1], b.shape[2]>>,
                  LAMBDA idx : DotAt(a, b, a.shape[2], LAMBDA k : <<idx[1], k>>,
                                     LAMBDA k : <<k, idx[2]>>).v)

Transpose(a) ==
    IF Rank(a) = 1 THEN a
    ELSE Generate(a.t, <<a.shape[2], a.shape[1]>>, LAMBDA idx : Elem(a, <<idx[2], idx[1]>>).v)
Atleast2d(a) ==
    CASE Rank(a) = 0 -> Tensor(a.t, <<1, 1>>, a.el)
      [] Rank(a) = 1 -> Generate(a.t, <<1, a.shape[1]>>, LAMBDA idx : Elem(a, <<idx[2]>>).v)
      [] OTHER -> a

\* tensor.insert_slice with strides of one.
Insert(src, dst, offsets) ==
    LET from(idx) == [d \in DOMAIN idx |-> idx[d] - offsets[d]]
    IN  Generate(dst.t, dst.shape,
                 LAMBDA idx : IF Within(src.shape, from(idx)) THEN Elem(src, from(idx)).v
                              ELSE Elem(dst, idx).v)
\* Mutant of Concatenate: the offset does not move on.
ConcatenateOver(a, b, axis) ==
    LET none == [d \in 1..Rank(a) |-> 0]
        shape == [a.shape EXCEPT ![axis] = @ + b.shape[axis]]
    IN  Insert(b, Insert(a, InitTensor(shape, a.t, Garbage), none), none)

\* The type is that of the first array.
Concatenate(a, b, axis) ==
    LET none == [d \in 1..Rank(a) |-> 0]
        shape == [a.shape EXCEPT ![axis] = @ + b.shape[axis]]
    IN  Insert(b, Insert(a, InitTensor(shape, a.t, Garbage), none),
               [none EXCEPT ![axis] = a.shape[axis]])
=============================================================================
