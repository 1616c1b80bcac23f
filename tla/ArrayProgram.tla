----------------------------- MODULE ArrayProgram -----------------------------
(***************************************************************************)
(* A function on two variables that hold arrays or numbers: each statement *)
(* calls a function of NumPy, takes or assigns elements. It is run as      *)
(* plier_to_linalg.cpp lowers it, on buffers, and as NumPy runs it, where  *)
(* an array may be a view of another one.                                  *)
(*                                                                         *)
(* A value of the lowered function is [t, shape, id, strided]: id is the   *)
(* buffer of its elements, the caller's buffers have a strided layout. A   *)
(* value of NumPy is [shape, id, cells]: the cells of the base array id    *)
(* that are its elements, in row-major order.                              *)
(***************************************************************************)
EXTENDS LinalgBuilder
LOCAL INSTANCE SequencesExt
LOCAL INSTANCE FiniteSetsExt

CONSTANTS
    Inputs,           \* the pairs of arguments: [t, shape, el], the elements as numbers
    Indices,          \* the indexes used: a sequence of integers and slices
    NewShapes,        \* the shapes used for reshape
    Supported(_, _, _),  \* which uses of a function are looked at: op and the two tensors
    MaxSteps          \* bound on the number of statements

VARIABLES
    heap,             \* the elements of each buffer
    x, y,             \* the variables of the lowered function
    base,             \* NumPy's arrays that own their elements
    px, py,           \* the variables in Python
    args, pargs,      \* what the caller passed
    steps             \* statements so far

vars == <<heap, x, y, base, px, py, args, pargs, steps>>
Ids == 1..4


Contents(r) == Tensor(r.t, r.shape, heap[r.id])
NumPy(p) == [shape |-> p.shape, el |-> [k \in DOMAIN p.cells |-> base[p.id][p.cells[k]]]]
X == Contents(x)
Y == Contents(y)
PX == NumPy(px)
PY == NumPy(py)

(***************************************************************************)
(* NumPy                                                                   *)
(***************************************************************************)

NArray(shape, el) == [shape |-> shape, el |-> el]
NNumber(n) == NArray(<<>>, <<n>>)
NAt(p, idx) == p.el[Position(p.shape, idx)]
Total(s) == FoldLeft(LAMBDA sum, n : sum + n, 0, s)

\* Dimension d of n, of a shape with ones put in front.
NDim(shape, n, d) == IF d <= n - Len(shape) THEN 1 ELSE shape[d - (n - Len(shape))]
NRank(p, q) == Max({Len(p.shape), Len(q.shape)})
Broadcastable(p, q) ==
    \A d \in 1..NRank(p, q) :
      LET dims == {NDim(p.shape, NRank(p, q), d), NDim(q.shape, NRank(p, q), d)}
      IN  Cardinality(dims \ {1}) <= 1
NShape(p, q) ==
    [d \in 1..NRank(p, q) |->
      LET n == NDim(p.shape, NRank(p, q), d)
      IN  IF n = 1 THEN NDim(q.shape, NRank(p, q), d) ELSE n]
\* The elements of p, repeated along the dimensions of size one.
NSpread(p, shape) ==
    LET skip == Len(shape) - Len(p.shape)
        clip(idx) == [d \in 1..Len(p.shape) |-> IF p.shape[d] = 1 THEN 0 ELSE idx[skip + d]]
    IN  Elements(shape, LAMBDA idx : NAt(p, clip(idx)))
OperandsDefined(op, p, q) ==
    /\ Broadcastable(p, q)
    /\ LET a == NSpread(p, NShape(p, q))
           b == NSpread(q, NShape(p, q))
       IN  \A k \in DOMAIN a : /\ op = "/" => b[k] # 0 /\ FloorDiv(a[k], b[k]) * b[k] = a[k]
                               /\ op = "**" => b[k] \in 0..2
NEltwise(op, p, q) ==
    LET shape == NShape(p, q)
        a == NSpread(p, shape)
        b == NSpread(q, shape)
    IN  NArray(shape, [k \in DOMAIN a |-> Python(op, a[k], b[k])])

NSum(p) == NNumber(Total(p.el))
NSumAxis(p, axis) ==
    LET at(i, k) == IF axis = 1 THEN <<k - 1, i[1]>> ELSE <<i[1], k - 1>>
    IN  NArray(<<p.shape[3 - axis]>>,
               Elements(<<p.shape[3 - axis]>>,
                        LAMBDA i : Total([k \in 1..p.shape[axis] |-> NAt(p, at(i, k))])))
NDot(p, q) ==
    IF Len(p.shape) = 1 THEN NNumber(Total([k \in DOMAIN p.el |-> p.el[k] * q.el[k]]))
    ELSE LET shape == <<p.shape[1], q.shape[2]>>
         IN  NArray(shape, Elements(shape, LAMBDA idx :
               Total([k \in 1..p.shape[2] |-> NAt(p, <<idx[1], k - 1>>) * NAt(q, <<k - 1, idx[2]>>)])))
NConcatenate(p, q, axis) ==
    LET shape == [p.shape EXCEPT ![axis] = @ + q.shape[axis]]
        part(idx) == IF idx[axis] < p.shape[axis] THEN NAt(p, idx)
                     ELSE NAt(q, [idx EXCEPT ![axis] = @ - p.shape[axis]])
    IN  NArray(shape, Elements(shape, part))

\* The covariance of the rows, of two columns: the sum of the products of the deviations.
NCov(p) ==
    LET rows == IF Len(p.shape) = 1 THEN 1 ELSE p.shape[1]
        row(i) == SubSeq(p.el, 2 * i - 1, 2 * i)
        dev(i) == [k \in 1..2 |-> row(i)[k] - Total(row(i)) \div 2]
        shape == IF Len(p.shape) = 1 THEN <<>> ELSE <<rows, rows>>
        at(idx) == IF shape = <<>> THEN Total([k \in 1..2 |-> dev(1)[k] * dev(1)[k]])
                   ELSE Total([k \in 1..2 |-> dev(idx[1] + 1)[k] * dev(idx[2] + 1)[k]])
    IN  NArray(shape, Elements(shape, at))

\* Views: element idx is the one of p at F(idx).
View(p, shape, F(_)) ==
    [p EXCEPT !.shape = shape, !.cells = Elements(shape, LAMBDA idx : p.cells[Position(p.shape, F(idx))])]
Contiguous(p) == \A k \in DOMAIN p.cells : p.cells[k] = p.cells[1] + k - 1
NTranspose(p) ==
    IF Len(p.shape) # 2 THEN p ELSE View(p, <<p.shape[2], p.shape[1]>>, LAMBDA idx : <<idx[2], idx[1]>>)
NAtleast2d(p) ==
    [p EXCEPT !.shape = CASE Len(@) = 0 -> <<1, 1>> [] Len(@) = 1 -> <<1, @[1]>> [] OTHER -> @]

(***************************************************************************)
(* Elements and slices of arrays: an entry of an index is an integer or a  *)
(* slice <<begin, end, stride>>.                                           *)
(***************************************************************************)

None == -100
IntEntry(n) == [k |-> "int", at |-> <<n>>]
SliceEntry(b, e, s) == [k |-> "slice", at |-> <<b, e, s>>]

\* Item i of a slice as an index: an item that is None has its default.
SliceItem(size, at, i) ==
    IF at[i] # None THEN at[i] ELSE CASE i = 1 -> 0 [] i = 2 -> size [] i = 3 -> 1
\* Offset, size and stride of a dimension. The end minus the begin is the size, whatever
\* the stride is.
GetPos(size, entry) ==
    IF entry.k = "slice"
    THEN LET item(i) == SliceItem(size, entry.at, i)
         IN  [offset |-> item(1), size |-> item(2) - item(1), stride |-> item(3), isSlice |-> TRUE]
    ELSE [offset |-> entry.at[1], size |-> 1, stride |-> 1, isSlice |-> FALSE]
FullSlice(size) == [offset |-> 0, size |-> size, stride |-> 1, isSlice |-> TRUE]

ExtractSlice(a, pos) ==
    Generate(a.t, [d \in DOMAIN pos |-> pos[d].size],
             LAMBDA idx : Elem(a, [d \in DOMAIN pos |-> pos[d].offset + idx[d] * pos[d].stride]).v)
Reshaped(a, shape) ==
    Tensor(a.t, shape, [k \in 1..SizeOf(shape) |-> IF k <= Len(a.el) THEN a.el[k] ELSE Garbage])
\* The dimensions that stay after a reshape are those of the whole array.
GetItemLowering(a, index) ==
    LET pos == [d \in 1..Rank(a) |->
                 IF d <= Len(index) THEN GetPos(a.shape[d], index[d]) ELSE FullSlice(a.shape[d])]
        dims == SelectSeq(Dims(a.shape), LAMBDA d : pos[d].isSlice)
    IN  CASE dims = <<>> -> Scalar(Elem(a, [d \in DOMAIN pos |-> pos[d].offset]))
          [] Len(dims) = Rank(a) -> ExtractSlice(a, pos)
          [] OTHER -> Reshaped(ExtractSlice(a, pos), [d \in DOMAIN dims |-> a.shape[dims[d]]])
SetItemLowering(a, index, value) ==
    LET idx == [d \in DOMAIN index |-> index[d].at[1]]
    IN  [a.el EXCEPT ![Position(a.shape, idx)] = DoCast(value, a.t).v]

\* The indexes an entry stands for in Python.
Selected(size, entry) ==
    IF entry.k = "int" THEN <<entry.at[1]>>
    ELSE SelectSeq([n \in 1..size |-> n - 1],
                   LAMBDA n : LET item(i) == SliceItem(size, entry.at, i)
                              IN  item(1) <= n /\ n < item(2) /\ (n - item(1)) % item(3) = 0)
NGetItem(p, index) ==
    LET entry(d) == IF d <= Len(index) THEN index[d] ELSE SliceEntry(None, None, None)
        select == [d \in 1..Len(p.shape) |-> Selected(p.shape[d], entry(d))]
        dims == SelectSeq(Dims(p.shape), LAMBDA d : entry(d).k = "slice")
        source(idx) ==
          [d \in DOMAIN select |->
            IF entry(d).k = "int" THEN select[d][1]
            ELSE select[d][idx[CHOOSE i \in DOMAIN dims : dims[i] = d] + 1]]
    IN  View(p, [i \in DOMAIN dims |-> Len(select[dims[i]])], source)
\* The indexes looked at: there is no check of the bounds, negative ones do not count from
\* the end.
IndexDefined(shape, index) ==
    /\ Len(index) <= Len(shape)
    /\ \A d \in DOMAIN index :
         LET item(i) == SliceItem(shape[d], index[d].at, i)
         IN  IF index[d].k = "int" THEN index[d].at[1] \in 0..(shape[d] - 1)
             ELSE 0 <= item(1) /\ item(1) <= item(2) /\ item(2) <= shape[d] /\ item(3) > 0

(***************************************************************************)
(* numpy.cov: the deviations from the means of the rows, multiplied.       *)
(***************************************************************************)

ConvertArray(a, t) ==
    IF a.t = t THEN a ELSE Generate(t, a.shape, LAMBDA idx : DoCast(Elem(a, idx), t).v)
CovInput(m) == ConvertArray(Atleast2d(m), IF IsInt(m.t) THEN Float64 ELSE m.t)
\* The mean of a row.
MeanOf(row) == BinOpLowering("/", Elem(Sum(row), <<>>), Number(row.shape[1], Int64), row.t)
RowMeans(a) ==
    LET row(i) == GetItemLowering(a, <<IntEntry(i), SliceEntry(None, None, None)>>)
    IN  Generate(a.t, <<a.shape[1], 1>>, LAMBDA idx : MeanOf(row(idx[1])).v)
CovOf(deviation, fact) ==
    Eltwise("*", Dot(deviation, Transpose(deviation)),
            Eltwise("/", Scalar(Number(1, Int64)), Scalar(Number(fact, Float64))))
CovInner(a) == CovOf(Eltwise("-", a, RowMeans(a)), a.shape[2] - 1)
Cov(m) ==
    IF Rank(m) = 1 THEN Scalar(Elem(CovInner(CovInput(m)), <<0, 0>>)) ELSE CovInner(CovInput(m))

(***************************************************************************)
(* The function                                                            *)
(***************************************************************************)

\* A value is kept while a variable or the caller refers to it. A statement that binds x says
\* what y is before.
FreeId(used) == Min(Ids \ used)
Keep(h, used, id, el) == [i \in Ids |-> IF i = id THEN el ELSE IF i \in used THEN h[i] ELSE <<>>]
LiveIds(other, passed) == {other.id, passed[1].id, passed[2].id}

\* The new value of x: a tensor with a buffer of its own, or one that has a buffer.
Store(a) ==
    LET id == FreeId(LiveIds(y', args))
    IN  /\ x' = [t |-> a.t, shape |-> a.shape, id |-> id, strided |-> FALSE]
        /\ heap' = Keep(heap, LiveIds(y', args), id, a.el)
Refer(r) ==
    /\ x' = r
    /\ heap' = Keep(heap, LiveIds(y', args) \cup {r.id}, 0, <<>>)
NStore(p) ==
    LET id == FreeId(LiveIds(py', pargs))
    IN  /\ px' = [shape |-> p.shape, id |-> id, cells |-> [k \in DOMAIN p.el |-> k]]
        /\ base' = Keep(base, LiveIds(py', pargs), id, p.el)
NRefer(v) ==
    /\ px' = v
    /\ base' = Keep(base, LiveIds(py', pargs) \cup {v.id}, 0, <<>>)

Statement == steps < MaxSteps /\ steps' = steps + 1
Unchanged == UNCHANGED <<y, py, args, pargs>>
KeepInY == y' = x /\ py' = px /\ UNCHANGED <<args, pargs>>
IsArray(r) == r.shape # <<>>

\* x = f(...) where f is a function of the builder that makes a new tensor.
Call(op, a, p) ==
    /\ Statement
    /\ Supported(op, X, Y)
    /\ \A k \in DOMAIN p.el : Fits(p.el[k], a.t)
    /\ Unchanged /\ Store(a) /\ NStore(p)

EltwiseCall ==
    \E op \in {"+", "-", "*", "/", "**"} :
      OperandsDefined(op, PX, PY) /\ Call(op, Eltwise(op, X, Y), NEltwise(op, PX, PY))
SquareCall == Call("square", Square(X), NEltwise("*", PX, PX))
SumCall == IsArray(x) /\ Call("sum", Sum(X), NSum(PX))
SumAxisCall ==
    \E axis \in {1, 2} : Rank(x) = 2 /\ Call("sum", SumAxis(X, axis), NSumAxis(PX, axis))
MeanCall ==
    LET size == Len(PX.el)
        sum == Total(PX.el)
    IN  /\ IsArray(x) /\ size # 0 /\ sum % size = 0 /\ Fits(sum, PromoteInt(x.t))
        /\ Call("mean", Mean(X), NNumber(sum \div size))
DotCall ==
    /\ Rank(x) \in {1, 2} /\ Rank(y) = Rank(x)
    /\ x.shape[Rank(x)] = y.shape[1]
    /\ Call("dot", Dot(X, Y), NDot(PX, PY))
ConcatenateCall ==
    \E axis \in 1..Rank(x) :
      /\ Rank(y) = Rank(x) /\ \A d \in 1..Rank(x) : d # axis => x.shape[d] = y.shape[d]
      /\ Call("concatenate", Concatenate(X, Y, axis), NConcatenate(PX, PY, axis))
CovCall ==
    /\ Rank(x) \in {1, 2} /\ x.shape[Rank(x)] = 2
    /\ \A i \in 1..(Len(PX.el) \div 2) : (PX.el[2 * i - 1] + PX.el[2 * i]) % 2 = 0
    /\ Call("cov", Cov(X), NCov(PX))
\* numpy.zeros(x.shape, x.dtype)
ZerosCall == Call("zeros", InitTensor(x.shape, x.t, 0), NArray(px.shape, [k \in DOMAIN PX.el |-> 0]))
\* len(x), x.size and the members of x.shape
DimsCall ==
    /\ IsArray(x)
    /\ \/ Call("len", Scalar(Number(x.shape[1], Int64)), NNumber(px.shape[1]))
       \/ Call("size", Size(X), NNumber(Len(PX.el)))
       \/ \E d \in 1..Rank(x) : Call("shape", Scalar(Number(x.shape[d], Int64)), NNumber(px.shape[d]))

\* Of rank one the argument itself; otherwise new here, and a view in NumPy.
TransposeCall ==
    /\ IsArray(x) /\ Statement /\ Unchanged
    /\ IF Rank(x) = 1 THEN Refer(x) ELSE Store(Transpose(X))
    /\ NRefer(NTranspose(px))
Atleast2dCall ==
    /\ Statement /\ Unchanged
    /\ IF Rank(x) = 2 THEN Refer(x) ELSE Store(Atleast2d(X))
    /\ NRefer(NAtleast2d(px))

\* x = x.reshape(shape), perhaps after y = x. A reshape of a buffer refers to it; one with the
\* caller's layout is copied before, unless it stays a row. NumPy copies only where there is no
\* view.
ReshapeTo(shape) ==
    /\ IsArray(x) /\ SizeOf(shape) = SizeOf(x.shape) /\ Statement
    /\ IF ~x.strided \/ (Rank(x) = 1 /\ Len(shape) = 1) THEN Refer([x EXCEPT !.shape = shape])
       ELSE Store(Reshaped(X, shape))
Reshape ==
    \E shape \in NewShapes :
      /\ Unchanged \/ KeepInY
      /\ ReshapeTo(shape)
      /\ IF Contiguous(px) THEN NRefer([px EXCEPT !.shape = shape]) ELSE NStore(NArray(shape, PX.el))
Flatten ==
    LET shape == <<SizeOf(x.shape)>>
    IN  Unchanged /\ ReshapeTo(shape) /\ NStore(NArray(shape, PX.el))

GetItem ==
    \E index \in Indices :
      /\ IsArray(x) /\ IndexDefined(x.shape, index) /\ Statement /\ Unchanged
      /\ Supported("getitem", X, Y)
      /\ Store(GetItemLowering(X, index))
      /\ NRefer(NGetItem(px, index))

\* The writes looked at: the arrays that share their elements are the same ones as in NumPy.
SharedAlike ==
    LET refs == <<y, args[1], args[2]>>
        prefs == <<py, pargs[1], pargs[2]>>
    IN  \A i \in 1..3 : (x.id = refs[i].id) <=> (px.id = prefs[i].id)
AssignedValues ==
    {[a |-> Number(1, Int64), n |-> 1]} \cup
      (IF IsArray(y) THEN {} ELSE {[a |-> Elem(Y, <<>>), n |-> PY.el[1]]})
SetItem ==
    \E index \in Indices, value \in AssignedValues :
      /\ IsArray(x) /\ Len(index) = Rank(x) /\ IndexDefined(x.shape, index)
      /\ \A d \in DOMAIN index : index[d].k = "int"
      /\ Fits(value.n, x.t) /\ SharedAlike
      /\ Statement
      /\ heap' = [heap EXCEPT ![x.id] = SetItemLowering(X, index, value.a)]
      /\ base' = [base EXCEPT ![px.id][NGetItem(px, index).cells[1]] = value.n]
      /\ UNCHANGED <<x, y, px, py, args, pargs>>

\* y = x
Alias ==
    /\ Statement
    /\ y' = x /\ py' = px
    /\ heap' = Keep(heap, {x.id, args[1].id, args[2].id}, 0, <<>>)
    /\ base' = Keep(base, {px.id, pargs[1].id, pargs[2].id}, 0, <<>>)
    /\ UNCHANGED <<x, px, args, pargs>>
\* x, y = y, x
Swap ==
    /\ Statement
    /\ x' = y /\ y' = x /\ px' = py /\ py' = px
    /\ UNCHANGED <<heap, base, args, pargs>>

Init ==
    \E in \in Inputs :
      LET low(i) == [t |-> in[i].t, shape |-> in[i].shape, id |-> i, strided |-> IsArray(in[i])]
          num(i) == [shape |-> in[i].shape, id |-> i, cells |-> [k \in DOMAIN in[i].el |-> k]]
      IN  /\ heap = [i \in Ids |-> IF i <= 2 THEN [k \in DOMAIN in[i].el |-> Number(in[i].el[k], in[i].t).v]
                                   ELSE <<>>]
          /\ base = [i \in Ids |-> IF i <= 2 THEN in[i].el ELSE <<>>]
          /\ x = low(1) /\ y = low(2) /\ args = <<low(1), low(2)>>
          /\ px = num(1) /\ py = num(2) /\ pargs = <<num(1), num(2)>>
          /\ steps = 0

Next ==
    \/ EltwiseCall \/ SquareCall \/ SumCall \/ SumAxisCall \/ MeanCall \/ DotCall \/ ConcatenateCall
    \/ CovCall \/ ZerosCall \/ DimsCall \/ TransposeCall \/ Atleast2dCall \/ Reshape \/ Flatten
    \/ GetItem \/ SetItem \/ Alias \/ Swap

Spec == Init /\ [][Next]_vars

(***************************************************************************)
(* Properties                                                              *)
(***************************************************************************)

\* Type invariant: every buffer in use has the elements of its shape, each written and in the
\* range of its type.
TypeOK ==
    \A r \in {x, y, args[1], args[2]} :
      /\ Len(heap[r.id]) = SizeOf(r.shape)
      /\ ~IsFloat(r.t) => \A k \in DOMAIN heap[r.id] : heap[r.id][k] \in 0 .. 2^r.t.w - 1

\* Whatever functions were called and elements assigned, the variables of the lowered function
\* and the caller's arrays have the shapes and elements they have in NumPy: those an assignment
\* reaches through another name too, and no others.
Same(r, p) ==
    /\ r.shape = p.shape
    /\ \A k \in 1..SizeOf(r.shape) : Read([t |-> r.t, v |-> heap[r.id][k]]) = base[p.id][p.cells[k]]
SameElements == Same(x, px) /\ Same(y, py) /\ \A i \in {1, 2} : Same(args[i], pargs[i])
=============================================================================
