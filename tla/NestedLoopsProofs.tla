-------------------------- MODULE NestedLoopsProofs --------------------------
(***************************************************************************)
(* Theorems about NestedLoops, for every word size, any number of threads  *)
(* and every loop nest.                                                    *)
(***************************************************************************)
EXTENDS NestedLoops, FiniteSetTheorems, TLAPS

(***************************************************************************)
(* Arithmetic of size_t.                                                   *)
(***************************************************************************)

LEMMA DivMod ==
  ASSUME NEW a \in Int, NEW n \in Nat, n > 0
  PROVE  /\ a \div n \in Int /\ a % n \in Int
         /\ a = n * (a \div n) + (a % n) /\ 0 <= a % n /\ a % n < n
BY SMT

LEMMA MulMono ==
  ASSUME NEW a \in Int, NEW b \in Int, NEW s \in Nat, a <= b
  PROVE  a * s <= b * s
BY SMT

LEMMA MulStrict ==
  ASSUME NEW a \in Int, NEW b \in Int, NEW s \in Nat, s > 0, a * s < b * s
  PROVE  a < b
<1>1. b <= a => b * s <= a * s
  BY MulMono
<1> QED BY <1>1

LEMMA Distribute ==
  ASSUME NEW a \in Int, NEW b \in Int, NEW s \in Int
  PROVE  /\ a * s \in Int /\ s * a = a * s
         /\ (a + b) * s = a * s + b * s /\ (a - b) * s = a * s - b * s
         /\ (a + 1) * s = a * s + s
BY SMT

LEMMA Multiple ==
  ASSUME NEW a \in Int, NEW s \in Nat, s > 0, a >= 0, a % s = 0
  PROVE  \E q \in Nat : a = q * s
<1>1. a \div s \in Int /\ a = s * (a \div s)
  BY DivMod
<1>2. a \div s \in Nat
  BY <1>1, SMT
<1> QED BY <1>1, <1>2, Distribute

LEMMA ModUnique ==
  ASSUME NEW a \in Int, NEW n \in Nat, n > 0, NEW q \in Int, NEW m \in 0 .. n - 1, a = q * n + m
  PROVE  a % n = m /\ a \div n = q
BY SMT

RangeType == [lower : 0 .. Word - 1, upper : 0 .. Word - 1, step : 1 .. Word - 1]
Half == Word \div 2

LEMMA HalfWord == Word \in Nat /\ Half \in Nat /\ Half > 0 /\ Word = 2 * Half
<1>1. Word \in Nat /\ Word > 1 /\ Word % 2 = 0
  BY WordAssumption
<1> QED BY <1>1, SMT DEF Half

LEMMA SignedRange ==
  ASSUME NEW n \in 0 .. Word - 1
  PROVE  /\ Signed(n) \in - Half .. Half - 1
         /\ n = Signed(n) \/ n = Signed(n) + Word
BY HalfWord DEF Signed, Half

\* Adding to a size_t value that stands for a signed number.
LEMMA SignedWrap ==
  ASSUME NEW n \in 0 .. Word - 1, NEW d \in Int, Signed(n) + d \in - Half .. Half - 1
  PROVE  Wrap(n + d) \in 0 .. Word - 1 /\ Signed(Wrap(n + d)) = Signed(n) + d
<1> DEFINE x == Signed(n) + d
<1>1. Signed(n) \in Int /\ x \in - Half .. Half - 1 /\ (n + d = x \/ n + d = x + Word)
  BY SignedRange, HalfWord
<1>2. CASE x >= 0
  <2>1. n + d = 0 * Word + x \/ n + d = 1 * Word + x
    BY <1>1, HalfWord
  <2>2. x \in 0 .. Word - 1
    BY <1>1, <1>2, HalfWord
  <2>3. (n + d) % Word = x
    BY <2>1, <2>2, ModUnique, HalfWord
  <2>4. x < Half
    BY <1>1, HalfWord
  <2> QED BY <2>2, <2>3, <2>4 DEF Wrap, Signed, Half
<1>3. CASE x < 0
  <2>1. n + d = (-1) * Word + (x + Word) \/ n + d = 0 * Word + (x + Word)
    BY <1>1, HalfWord
  <2>2. x + Word \in 0 .. Word - 1
    BY <1>1, <1>3, HalfWord
  <2>3. (n + d) % Word = x + Word
    BY <2>1, <2>2, ModUnique, HalfWord
  <2>4. ~(x + Word < Half)
    BY <1>1, HalfWord
  <2> QED BY <1>1, <2>2, <2>3, <2>4, HalfWord DEF Wrap, Signed, Half
<1> QED BY <1>1, <1>2, <1>3, HalfWord

LEMMA IterationsNat ==
  ASSUME NEW r \in RangeType
  PROVE  Iterations(r) \in Nat
<1>1. r.upper - r.lower + r.step - 1 \in Int /\ r.step \in Nat /\ r.step > 0
  BY HalfWord DEF RangeType
<1>2. Wrap(r.upper - r.lower + r.step - 1) \in Nat
  BY <1>1, HalfWord, DivMod DEF Wrap
<1> HIDE DEF Wrap
<1>3. \A a \in Nat, s \in Nat : s > 0 => a \div s \in Nat
  BY SMT
<1> QED BY <1>1, <1>2, <1>3 DEF Iterations

\* The count is that of the loop: k iterations are possible exactly when the k-th
\* one begins before the upper bound.
LEMMA IterationsCount ==
  ASSUME NEW r \in RangeType, BoundsFit(r), NEW k \in Int
  PROVE  k < Iterations(r) <=> Signed(r.lower) + k * r.step < Signed(r.upper)
<1> DEFINE L == Signed(r.lower)  U == Signed(r.upper)  s == r.step  C == Iterations(r)
           len == U - L + s - 1
<1>1. /\ r.lower \in 0 .. Word - 1 /\ r.upper \in 0 .. Word - 1
      /\ s \in Nat /\ s > 0
  BY HalfWord DEF RangeType
<1>2. /\ L \in - Half .. Half - 1 /\ U \in - Half .. Half - 1
      /\ (r.lower = L \/ r.lower = L + Word) /\ (r.upper = U \/ r.upper = U + Word)
  BY <1>1, SignedRange
<1>3. L <= U /\ U + s <= Half
  BY DEF BoundsFit, Half
<1> HIDE DEF L, U, s
<1>4. len \in 0 .. Word - 1
  BY <1>1, <1>2, <1>3, HalfWord
<1>5. r.upper - r.lower + s - 1 = 0 * Word + len
      \/ r.upper - r.lower + s - 1 = 1 * Word + len
      \/ r.upper - r.lower + s - 1 = (-1) * Word + len
  BY <1>1, <1>2, HalfWord
<1>6. Wrap(r.upper - r.lower + s - 1) = len
  <2>1. r.upper - r.lower + s - 1 \in Int
    BY <1>1, HalfWord
  <2> QED BY <1>4, <1>5, <2>1, ModUnique, HalfWord DEF Wrap
<1>7. C = len \div s
  BY <1>6 DEF Iterations, s
<1>8. len \in Int
  BY <1>4
<1> HIDE DEF C
<1>9. C \in Int /\ C * s <= len /\ len < (C + 1) * s
  <2>1. C \in Int /\ len = s * C + (len % s) /\ 0 <= len % s /\ len % s < s /\ len % s \in Int
    BY <1>1, <1>7, <1>8, DivMod
  <2> HIDE DEF len
  <2>2. s * C = C * s /\ (C + 1) * s = C * s + s
    BY <1>1, <2>1, SMT
  <2>3. C * s \in Int
    BY <1>1, <2>1, SMT
  <2> QED BY <1>1, <1>8, <2>1, <2>2, <2>3
<1>10. k * s \in Int /\ (k + 1) * s = k * s + s /\ C * s \in Int /\ (C + 1) * s = C * s + s
  BY <1>1, <1>9, SMT
<1>11. ASSUME k < C PROVE L + k * s < U
  <2>1. k + 1 <= C
    BY <1>9, <1>11
  <2>2. (k + 1) * s <= C * s
    BY <1>1, <1>9, <2>1, MulMono
  <2> QED BY <1>1, <1>2, <1>9, <1>10, <2>2, HalfWord
<1>12. ASSUME ~(k < C) PROVE ~(L + k * s < U)
  <2>1. C * s <= k * s
    BY <1>1, <1>9, <1>12, MulMono
  <2> QED BY <1>1, <1>2, <1>9, <1>10, <2>1, HalfWord
<1> QED BY <1>11, <1>12 DEF L, U, s, C

\* The bounds that loopBody computes do not leave the signed range.
LEMMA ChunkBounds ==
  ASSUME NEW r \in RangeType, BoundsFit(r), NEW b \in 0 .. Iterations(r)
  PROVE  Signed(Wrap(r.lower + b * r.step)) = Signed(r.lower) + b * r.step
<1>1. /\ r.lower \in 0 .. Word - 1 /\ r.upper \in 0 .. Word - 1
      /\ r.step \in Nat /\ r.step > 0
  BY HalfWord DEF RangeType
<1>2. Signed(r.lower) \in - Half .. Half - 1 /\ Signed(r.upper) \in - Half .. Half - 1
  BY <1>1, SignedRange
<1>3. Signed(r.upper) + r.step <= Half
  BY DEF BoundsFit, Half
<1>4. b \in Nat /\ b <= Iterations(r) /\ b - 1 < Iterations(r) /\ b - 1 \in Int
  BY IterationsNat
<1>5. Signed(r.lower) + (b - 1) * r.step < Signed(r.upper)
  BY <1>4, IterationsCount
<1>6. b * r.step \in Nat /\ (b - 1) * r.step = b * r.step - r.step
  BY <1>1, <1>4, SMT
<1>7. Signed(r.lower) + b * r.step \in - Half .. Half - 1
  BY <1>1, <1>2, <1>3, <1>5, <1>6, HalfWord
<1> QED BY <1>1, <1>6, <1>7, SignedWrap

\* Which iteration of the loop a value of its variable belongs to.
Index(r, x) == (x - Signed(r.lower)) \div r.step

LEMMA PointsIndex ==
  ASSUME NEW r \in RangeType, BoundsFit(r), NEW x \in Points(r.lower, r.upper, r.step)
  PROVE  /\ x \in Int /\ Index(r, x) \in 0 .. Iterations(r) - 1
         /\ x = Signed(r.lower) + Index(r, x) * r.step
<1>1. /\ r.lower \in 0 .. Word - 1 /\ r.upper \in 0 .. Word - 1
      /\ r.step \in Nat /\ r.step > 0
  BY HalfWord DEF RangeType
<1>2. Signed(r.lower) \in Int /\ Signed(r.upper) \in Int
  BY <1>1, SignedRange, HalfWord
<1>3. /\ x \in Int /\ Signed(r.lower) <= x /\ x < Signed(r.upper)
      /\ (x - Signed(r.lower)) % r.step = 0
  BY <1>2 DEF Points
<1> DEFINE d == x - Signed(r.lower)
<1>4. d \in Int /\ d >= 0
  BY <1>2, <1>3
<1>5. d \div r.step \in Int /\ d = r.step * (d \div r.step)
  BY <1>1, <1>3, <1>4, DivMod
<1>6. Index(r, x) = d \div r.step
  BY DEF Index
<1>7. Index(r, x) \in Int /\ d = Index(r, x) * r.step
  BY <1>1, <1>5, <1>6, SMT
<1>8. Index(r, x) >= 0
  BY <1>1, <1>4, <1>5, <1>6, SMT
<1>9. x = Signed(r.lower) + Index(r, x) * r.step
  BY <1>2, <1>3, <1>7
<1>10. Index(r, x) < Iterations(r)
  BY <1>3, <1>7, <1>9, IterationsCount
<1> QED BY <1>3, <1>7, <1>8, <1>9, <1>10, IterationsNat

\* A chunk of counts is called for the iterations with these counts and for no other.
LEMMA ChunkPoints ==
  ASSUME NEW r \in RangeType, BoundsFit(r),
         NEW b \in 0 .. Iterations(r), NEW e \in 0 .. Iterations(r),
         NEW x
  PROVE  x \in Points(Wrap(r.lower + b * r.step), Wrap(r.lower + e * r.step), r.step)
           <=> /\ x \in Points(r.lower, r.upper, r.step)
               /\ b <= Index(r, x) /\ Index(r, x) < e
<1> DEFINE L == Signed(r.lower)  U == Signed(r.upper)  s == r.step
           lo == Wrap(r.lower + b * r.step)  hi == Wrap(r.lower + e * r.step)
<1>1. Signed(lo) = L + b * s /\ Signed(hi) = L + e * s
  BY ChunkBounds
<1>2. /\ r.lower \in 0 .. Word - 1 /\ r.upper \in 0 .. Word - 1
      /\ s \in Nat /\ s > 0
  BY HalfWord DEF RangeType
<1>3. L \in Int /\ U \in Int /\ b \in Nat /\ e \in Nat
  BY <1>2, SignedRange, HalfWord, IterationsNat
<1>4. b * s \in Nat /\ e * s \in Int
  BY <1>2, <1>3, SMT
<1>5. ASSUME x \in Points(lo, hi, s)
      PROVE  x \in Points(r.lower, r.upper, s) /\ b <= Index(r, x) /\ Index(r, x) < e
  <2>1. Signed(lo) \in Int /\ Signed(hi) \in Int
    BY <1>1, <1>3, <1>4
  <2>2. x \in Int /\ Signed(lo) <= x /\ x < Signed(hi) /\ (x - Signed(lo)) % s = 0
    BY <1>5, <2>1 DEF Points
  <2>3. x - Signed(lo) \in Int /\ x - Signed(lo) >= 0
    BY <2>1, <2>2
  <2>4. PICK q \in Nat : x - Signed(lo) = q * s
    BY <1>2, <2>2, <2>3, Multiple
  <2>5. x - L = (q + b) * s + 0
    <3>1. (q + b) * s = q * s + b * s
      BY <1>2, <1>3, <2>4, Distribute
    <3> QED BY <1>1, <1>3, <1>4, <2>2, <2>4, <3>1
  <2>6. x - L \in Int /\ q + b \in Int /\ 0 \in 0 .. s - 1
    BY <1>2, <1>3, <2>2, <2>4
  <2>7. (x - L) % s = 0 /\ Index(r, x) = q + b
    BY <1>2, <2>5, <2>6, ModUnique DEF Index
  <2>9. (q + b) * s < e * s /\ (q + b) * s = x - L
    <3> HIDE DEF lo, hi, L
    <3>1. (q + b) * s \in Int
      BY <1>2, <2>6, Distribute
    <3> QED BY <1>1, <1>3, <1>4, <2>2, <2>5, <3>1
  <2>10. q + b < e
    BY <1>2, <1>3, <2>6, <2>9, MulStrict
  <2>11. q + b < Iterations(r)
    BY <1>3, <2>6, <2>10, IterationsNat
  <2>12. L + (q + b) * s < U
    BY <2>6, <2>11, IterationsCount
  <2>13. L <= x /\ x < U
    BY <1>1, <1>3, <1>4, <2>2, <2>9, <2>12
  <2>14. x \in Points(r.lower, r.upper, s)
    BY <1>3, <2>2, <2>7, <2>13 DEF Points
  <2> QED BY <1>3, <2>4, <2>7, <2>10, <2>14
<1>6. ASSUME x \in Points(r.lower, r.upper, s), b <= Index(r, x), Index(r, x) < e
      PROVE  x \in Points(lo, hi, s)
  <2> DEFINE k == Index(r, x)
  <2>1. x \in Int /\ k \in Int /\ x = L + k * s
    BY <1>6, PointsIndex, IterationsNat
  <2>2. b * s <= k * s /\ k * s < e * s
    <3>1. b * s <= k * s
      BY <1>2, <1>3, <1>6, <2>1, MulMono
    <3>2. (k + 1) * s <= e * s
      <4>1. k + 1 <= e /\ k + 1 \in Int
        BY <1>3, <1>6, <2>1
      <4> HIDE DEF k
      <4> QED BY <1>2, <1>3, <4>1, MulMono
    <3>3. (k + 1) * s = k * s + s /\ k * s \in Int
      BY <1>2, <2>1, SMT
    <3> QED BY <1>2, <1>4, <3>1, <3>2, <3>3
  <2>3. k * s \in Int
    BY <1>2, <2>1, SMT
  <2>4. Signed(lo) <= x /\ x < Signed(hi) /\ Signed(lo) \in Int /\ Signed(hi) \in Int
    BY <1>1, <1>3, <1>4, <2>1, <2>2, <2>3
  <2>5. x - Signed(lo) = (k - b) * s + 0
    <3>1. (k - b) * s = k * s - b * s
      BY <1>2, <1>3, <2>1, Distribute
    <3> QED BY <1>1, <1>3, <1>4, <2>1, <2>3, <3>1
  <2>6. x - Signed(lo) \in Int /\ k - b \in Int /\ 0 \in 0 .. s - 1
    BY <1>2, <1>3, <2>1, <2>4
  <2>7. (x - Signed(lo)) % s = 0
    BY <1>2, <2>5, <2>6, ModUnique
  <2> QED BY <2>1, <2>4, <2>7 DEF Points
<1> QED BY <1>5, <1>6

(***************************************************************************)
(* The inductive invariant.                                                *)
(***************************************************************************)

\* A task is a part of the ranges of its loops. The chain it was given is always
\* empty: the nested call does not get the records of the loops around.
TaskOK(t) ==
  /\ t = [depth |-> t.depth, box |-> t.box, prev |-> << >>]
  /\ t.depth \in 0 .. NumLoops - 1
  /\ t.box \in [1 .. LoopsAt(t.depth) -> Int \X Int]
  /\ \A i \in 1 .. LoopsAt(t.depth) :
       /\ 0 <= t.box[i][1] /\ t.box[i][1] <= t.box[i][2]
       /\ t.box[i][2] <= Iterations(input[t.depth + i])
  /\ FitsOneRange => t.depth = 0

\* A deep nest never gets as far as a call of the outlined function.
DeepNests ==
  /\ phase = "fault" => ~FitsOneRange
  /\ ~FitsOneRange => DOMAIN calls = {}

NestInv ==
  /\ input \in Inputs
  /\ phase \in {"call", "run", "done", "fault"}
  /\ \A t \in tasks : TaskOK(t)
  /\ IsABag(calls)
  /\ phase = "call" => tasks = {} /\ DOMAIN calls = {}
  /\ phase = "done" => tasks = {}
  /\ DeepNests

LEMMA InputTyped ==
  ASSUME input \in Inputs
  PROVE  /\ NumLoops \in Nat /\ NumLoops > 0 /\ DOMAIN input = 1 .. NumLoops
         /\ \A i \in 1 .. NumLoops : input[i] \in RangeType
<1>1. input \in Seq(RangeType) /\ Len(input) > 0
  BY InputsAssumption DEF RangeType
<1> HIDE DEF RangeType
<1> QED BY <1>1, SMT DEF NumLoops

LEMMA LoopsAtRange ==
  ASSUME input \in Inputs, NEW d \in 0 .. NumLoops - 1
  PROVE  /\ LoopsAt(d) \in Nat /\ LoopsAt(d) > 0 /\ d + LoopsAt(d) <= NumLoops
         /\ d + LoopsAt(d) = NumLoops <=> Term(d)
         /\ d = 0 => (LoopsAt(d) = NumLoops <=> FitsOneRange)
         /\ \A i \in 1 .. LoopsAt(d) : d + i \in 1 .. NumLoops
BY InputTyped DEF LoopsAt, Term, Rem, FitsOneRange

\* A whole range is a task, at any depth where there are loops left.
LEMMA WholeOK ==
  ASSUME input \in Inputs, NEW d \in 0 .. NumLoops - 1, FitsOneRange => d = 0
  PROVE  /\ TaskOK(Whole(d, << >>)) /\ Whole(d, << >>).depth = d
         /\ Whole(d, << >>).box = [i \in 1 .. LoopsAt(d) |-> <<0, Iterations(input[d + i])>>]
<1> DEFINE t == Whole(d, << >>)  box == [i \in 1 .. LoopsAt(d) |-> <<0, Iterations(input[d + i])>>]
<1>1. \A i \in 1 .. LoopsAt(d) : Iterations(input[d + i]) \in Nat
  BY LoopsAtRange, InputTyped, IterationsNat
<1>2. t = [depth |-> d, box |-> box, prev |-> << >>] /\ t.depth = d /\ t.box = box /\ t.prev = << >>
  BY DEF Whole
<1> HIDE DEF t
<1>3. box \in [1 .. LoopsAt(d) -> Int \X Int]
  BY <1>1
<1>4. \A i \in 1 .. LoopsAt(d) : box[i][1] = 0 /\ box[i][2] = Iterations(input[d + i])
  OBVIOUS
<1> HIDE DEF box
<1>5. TaskOK(t)
  BY <1>1, <1>2, <1>3, <1>4 DEF TaskOK
<1> QED BY <1>2, <1>5 DEF t, box

\* Cutting a task in one dimension.
LEMMA CutOK ==
  ASSUME input \in Inputs, NEW t, TaskOK(t), NEW i \in DOMAIN t.box, NEW k \in {1, 2},
         NEW m \in Int, t.box[i][1] <= m, m <= t.box[i][2]
  PROVE  LET u == [t EXCEPT !.box[i][k] = m]
         IN  /\ TaskOK(u) /\ u.depth = t.depth /\ DOMAIN u.box = DOMAIN t.box
             /\ \A j \in DOMAIN t.box : j # i => u.box[j] = t.box[j]
             /\ u.box[i][k] = m /\ u.box[i][3 - k] = t.box[i][3 - k]
<1> DEFINE pair == [t.box[i] EXCEPT ![k] = m]  box == [t.box EXCEPT ![i] = pair]
           u == [t EXCEPT !.box[i][k] = m]
<1>1. /\ t = [depth |-> t.depth, box |-> t.box, prev |-> << >>]
      /\ t.depth \in 0 .. NumLoops - 1
      /\ t.box \in [1 .. LoopsAt(t.depth) -> Int \X Int]
      /\ \A j \in 1 .. LoopsAt(t.depth) :
           /\ 0 <= t.box[j][1] /\ t.box[j][1] <= t.box[j][2]
           /\ t.box[j][2] <= Iterations(input[t.depth + j])
      /\ FitsOneRange => t.depth = 0
  BY DEF TaskOK
<1>2. u = [depth |-> t.depth, box |-> box, prev |-> << >>]
  BY <1>1
<1>3. u.depth = t.depth /\ u.box = box /\ u.prev = << >>
  BY <1>2
<1>4. t.box[i] \in Int \X Int /\ i \in 1 .. LoopsAt(t.depth)
  BY <1>1
<1>5. pair \in Int \X Int /\ pair[k] = m /\ pair[3 - k] = t.box[i][3 - k]
  BY <1>4
<1> HIDE DEF pair
<1>6. /\ box \in [1 .. LoopsAt(t.depth) -> Int \X Int] /\ DOMAIN box = DOMAIN t.box
      /\ box[i] = pair /\ \A j \in DOMAIN t.box : j # i => box[j] = t.box[j]
  BY <1>1, <1>4, <1>5
<1> HIDE DEF box, u
<1>7. \A j \in 1 .. LoopsAt(t.depth) :
        /\ 0 <= box[j][1] /\ box[j][1] <= box[j][2]
        /\ box[j][2] <= Iterations(input[t.depth + j])
  <2> TAKE j \in 1 .. LoopsAt(t.depth)
  <2>1. input[t.depth + j] \in RangeType
    BY <1>1, LoopsAtRange, InputTyped
  <2>2. Iterations(input[t.depth + j]) \in Nat
    BY <2>1, IterationsNat
  <2>3. CASE j = i
    BY <1>1, <1>4, <1>5, <1>6, <2>2, <2>3
  <2>4. CASE j # i
    BY <1>1, <1>6, <2>4
  <2> QED BY <2>3, <2>4
<1>8. TaskOK(u)
  BY <1>1, <1>2, <1>3, <1>6, <1>7, Zenon DEF TaskOK
<1> QED BY <1>3, <1>5, <1>6, <1>8, Zenon DEF u

\* The chain of a task has one record per loop of its range.
LEMMA DimsOf ==
  ASSUME input \in Inputs, NEW t, TaskOK(t)
  PROVE  /\ Dims(t) = [i \in 1 .. LoopsAt(t.depth) |->
                         [lower |-> Wrap(input[t.depth + i].lower + t.box[i][1] * input[t.depth + i].step),
                          upper |-> Wrap(input[t.depth + i].lower + t.box[i][2] * input[t.depth + i].step)]]
         /\ Len(Dims(t)) = LoopsAt(t.depth)
         /\ SubSeq(Dims(t), 1, Len(Dims(t))) = Dims(t)
<1> DEFINE dims == [i \in 1 .. LoopsAt(t.depth) |->
                     [lower |-> Wrap(input[t.depth + i].lower + t.box[i][1] * input[t.depth + i].step),
                      upper |-> Wrap(input[t.depth + i].lower + t.box[i][2] * input[t.depth + i].step)]]
<1>1. t = [depth |-> t.depth, box |-> t.box, prev |-> << >>]
      /\ t.box \in [1 .. LoopsAt(t.depth) -> Int \X Int]
      /\ t.depth \in 0 .. NumLoops - 1
  BY DEF TaskOK
<1>2. t.prev = << >> /\ DOMAIN t.box = 1 .. LoopsAt(t.depth)
  BY <1>1
<1>3. Dims(t) = << >> \o dims
  BY <1>2, Zenon DEF Dims
<1>4. LoopsAt(t.depth) \in Nat
  BY <1>1, LoopsAtRange
<1>5. DOMAIN dims = 1 .. LoopsAt(t.depth)
  OBVIOUS
<1>6. dims \in Seq({dims[i] : i \in 1 .. LoopsAt(t.depth)})
  <2> HIDE DEF dims
  <2>1. dims = [i \in 1 .. LoopsAt(t.depth) |-> dims[i]]
    BY DEF dims
  <2> QED BY <1>4, <1>5, <2>1
<1>7. dims = << >> \o dims /\ Len(dims) = LoopsAt(t.depth) /\ SubSeq(dims, 1, Len(dims)) = dims
  <2> HIDE DEF dims
  <2> QED BY <1>4, <1>5, <1>6
<1> QED BY <1>3, <1>7

\* A chain that is long enough is that of a nest of up to three loops.
LEMMA LongChain ==
  ASSUME input \in Inputs, NEW t, TaskOK(t), ~(Len(Dims(t)) < NumLoops)
  PROVE  /\ FitsOneRange /\ t.depth = 0 /\ LoopsAt(0) = NumLoops
         /\ SubSeq(Dims(t), Len(Dims(t)) - NumLoops + 1, Len(Dims(t))) = Dims(t)
<1>1. t.depth \in 0 .. NumLoops - 1
  BY DEF TaskOK
<1>2. Len(Dims(t)) = LoopsAt(t.depth) /\ SubSeq(Dims(t), 1, Len(Dims(t))) = Dims(t)
  BY DimsOf
<1>3. LoopsAt(t.depth) \in Nat /\ t.depth + LoopsAt(t.depth) <= NumLoops /\ NumLoops \in Nat
  BY <1>1, LoopsAtRange, InputTyped
<1>4. LoopsAt(t.depth) = NumLoops /\ t.depth = 0
  BY <1>1, <1>2, <1>3
<1>5. FitsOneRange
  BY <1>1, <1>4, LoopsAtRange
<1>6. Len(Dims(t)) - NumLoops + 1 = 1
  BY <1>2, <1>3, <1>4
<1> QED BY <1>2, <1>4, <1>5, <1>6

LEMMA FitIsTerm ==
  ASSUME input \in Inputs, FitsOneRange
  PROVE  Term(0) /\ LoopsAt(0) = NumLoops
BY InputTyped DEF FitsOneRange, Term, Rem, LoopsAt

LEMMA OneMoreCall ==
  ASSUME NEW B, IsABag(B), NEW c
  PROVE  /\ IsABag((B (+) SetToBag({c}))) /\ DOMAIN (B (+) SetToBag({c})) = DOMAIN B \cup {c}
         /\ \A d \in DOMAIN B : d # c => (B (+) SetToBag({c}))[d] = B[d]
         /\ c \notin DOMAIN B => (B (+) SetToBag({c}))[c] = 1
BY DEF IsABag, SetToBag, (+)

(***************************************************************************)
(* Every step keeps it.                                                    *)
(***************************************************************************)

LEMMA InputKept ==
  ASSUME input' = input
  PROVE  /\ FitsOneRange' <=> FitsOneRange
         /\ \A t : TaskOK(t)' <=> TaskOK(t)
         /\ \A t : Dims(t)' = Dims(t)
         /\ NumLoops' = NumLoops
<1>1. NumLoops' = NumLoops
  BY DEF NumLoops
<1>2. \A d : LoopsAt(d)' = LoopsAt(d)
  BY <1>1, Zenon DEF LoopsAt, Rem
<1>3. FitsOneRange' <=> FitsOneRange
  BY <1>1, Zenon DEF FitsOneRange
<1>4. \A t : TaskOK(t)' <=> TaskOK(t)
  <2> TAKE t
  <2> QED BY <1>1, <1>2, <1>3, Zenon DEF TaskOK
<1>5. \A t : Dims(t)' = Dims(t)
  <2> TAKE t
  <2> QED BY Zenon DEF Dims
<1> QED BY <1>1, <1>3, <1>4, <1>5

LEMMA InitNest == Init => NestInv
BY DEF Init, NestInv, DeepNests, EmptyBag, SetToBag, IsABag

\* The tasks a step takes away and puts in their place.
Replaced(t, S) == t \in tasks /\ tasks' = (tasks \ {t}) \cup S

LEMMA SplitParts ==
  ASSUME NestInv, Split
  PROVE  \E t \in tasks : \E i \in DOMAIN t.box : \E m \in Int :
           /\ t.box[i][1] <= m /\ m <= t.box[i][2]
           /\ Replaced(t, {[t EXCEPT !.box[i][2] = m], [t EXCEPT !.box[i][1] = m]})
<1>1. PICK t \in tasks : \E i \in DOMAIN t.box :
        LET m == t.box[i][1] + Size(t.box[i]) \div 2
        IN  tasks' = (tasks \ {t}) \cup {[t EXCEPT !.box[i][2] = m], [t EXCEPT !.box[i][1] = m]}
  BY Zenon DEF Split
<1>2. PICK i \in DOMAIN t.box :
        LET m == t.box[i][1] + Size(t.box[i]) \div 2
        IN  tasks' = (tasks \ {t}) \cup {[t EXCEPT !.box[i][2] = m], [t EXCEPT !.box[i][1] = m]}
  BY <1>1
<1> DEFINE m == t.box[i][1] + Size(t.box[i]) \div 2
<1>3. /\ t.box \in [1 .. LoopsAt(t.depth) -> Int \X Int]
      /\ \A j \in 1 .. LoopsAt(t.depth) : t.box[j][1] <= t.box[j][2]
  BY DEF NestInv, TaskOK
<1>4. t.box[i] \in Int \X Int /\ t.box[i][1] <= t.box[i][2]
  BY <1>3
<1>5. m \in Int /\ t.box[i][1] <= m /\ m <= t.box[i][2]
  BY <1>4 DEF Size
<1>6. Replaced(t, {[t EXCEPT !.box[i][2] = m], [t EXCEPT !.box[i][1] = m]})
  BY <1>2 DEF Replaced
<1> HIDE DEF m
<1> QED BY <1>5, <1>6

LEMMA NestStep == NestInv /\ [Next]_vars => NestInv'
<1> SUFFICES ASSUME NestInv, [Next]_vars PROVE NestInv'
  OBVIOUS
<1> USE DEF NestInv
<1>1. CASE Call
  <2>1. input' = input /\ calls' = calls /\ phase' = "run" /\ phase = "call"
        /\ tasks' = {Whole(0, << >>)}
    BY <1>1 DEF Call
  <2>2. 0 \in 0 .. NumLoops - 1
    BY InputTyped
  <2>3. \A t \in tasks' : TaskOK(t)'
    BY <2>1, <2>2, WholeOK, InputKept
  <2> QED BY <2>1, <2>3 DEF DeepNests
<1>2. CASE Split
  <2>1. input' = input /\ calls' = calls /\ phase' = phase /\ phase = "run"
    BY <1>2 DEF Split, Running
  <2>2. PICK t \in tasks : \E i \in DOMAIN t.box : \E m \in Int :
          /\ t.box[i][1] <= m /\ m <= t.box[i][2]
          /\ Replaced(t, {[t EXCEPT !.box[i][2] = m], [t EXCEPT !.box[i][1] = m]})
    BY <1>2, SplitParts
  <2>3. PICK i \in DOMAIN t.box, m \in Int :
          /\ t.box[i][1] <= m /\ m <= t.box[i][2]
          /\ Replaced(t, {[t EXCEPT !.box[i][2] = m], [t EXCEPT !.box[i][1] = m]})
    BY <2>2
  <2>4. TaskOK([t EXCEPT !.box[i][2] = m]) /\ TaskOK([t EXCEPT !.box[i][1] = m])
    BY <2>3, CutOK
  <2>5. \A u \in tasks' : TaskOK(u)'
    BY <2>1, <2>3, <2>4, InputKept DEF Replaced
  <2> QED BY <2>1, <2>5, InputKept DEF DeepNests
<1>3. CASE SkipEmpty
  <2>1. input' = input /\ calls' = calls /\ phase' = phase /\ phase = "run" /\ tasks' \subseteq tasks
    BY <1>3 DEF SkipEmpty, Running
  <2> QED BY <2>1, InputKept DEF DeepNests
<1>4. CASE RunFunc
  <2>1. input' = input /\ phase = "run"
    BY <1>4 DEF RunFunc, Running
  <2>2. PICK t \in tasks :
          /\ tasks' = tasks \ {t}
          /\ IF Len(Dims(t)) < NumLoops
             THEN phase' = "fault" /\ UNCHANGED calls
             ELSE calls' = calls (+) SetToBag({SubSeq(Dims(t), Len(Dims(t)) - NumLoops + 1, Len(Dims(t)))})
                  /\ UNCHANGED phase
          /\ Term(t.depth)
    BY <1>4, Zenon DEF RunFunc
  <2>3. \A u \in tasks' : TaskOK(u)'
    BY <2>1, <2>2, InputKept
  <2>4. CASE Len(Dims(t)) < NumLoops
    <3>1. ~FitsOneRange
      <4> SUFFICES ASSUME FitsOneRange PROVE FALSE
        OBVIOUS
      <4>1. t.depth = 0 /\ TaskOK(t)
        BY DEF TaskOK
      <4>2. Len(Dims(t)) = NumLoops
        BY <4>1, DimsOf, FitIsTerm
      <4> QED BY <2>4, <4>2, InputTyped
    <3> QED BY <2>1, <2>2, <2>3, <2>4, <3>1, InputKept DEF DeepNests
  <2>5. CASE ~(Len(Dims(t)) < NumLoops)
    <3>1. FitsOneRange
      BY <2>5, LongChain
    <3>2. IsABag(calls')
      <4> DEFINE c == SubSeq(Dims(t), Len(Dims(t)) - NumLoops + 1, Len(Dims(t)))
      <4>1. calls' = calls (+) SetToBag({c})
        BY <2>2, <2>5
      <4> HIDE DEF c
      <4>2. IsABag(calls (+) SetToBag({c}))
        BY OneMoreCall
      <4> QED BY <4>1, <4>2
    <3> QED BY <2>1, <2>2, <2>3, <2>5, <3>1, <3>2, InputKept DEF DeepNests
  <2> QED BY <2>4, <2>5
<1>5. CASE RunNested
  <2>1. input' = input /\ calls' = calls /\ phase' = phase /\ phase = "run"
    BY <1>5 DEF RunNested, Running
  <2>2. PICK t \in tasks :
          /\ ~Term(t.depth)
          /\ tasks' = (tasks \ {t}) \cup {Whole(t.depth + LoopsAt(t.depth), t.prev)}
    BY <1>5, Zenon DEF RunNested
  <2>3. TaskOK(t) /\ t.depth \in 0 .. NumLoops - 1 /\ t.prev = << >> /\ (FitsOneRange => t.depth = 0)
    BY DEF TaskOK
  <2>4. ~FitsOneRange
    BY <2>2, <2>3, FitIsTerm
  <2>5. t.depth + LoopsAt(t.depth) \in 0 .. NumLoops - 1
    BY <2>2, <2>3, LoopsAtRange, InputTyped
  <2>6. TaskOK(Whole(t.depth + LoopsAt(t.depth), t.prev))
    BY <2>3, <2>4, <2>5, WholeOK
  <2>7. \A u \in tasks' : TaskOK(u)'
    BY <2>1, <2>2, <2>6, InputKept
  <2> QED BY <2>1, <2>7, InputKept DEF DeepNests
<1>6. CASE Return
  BY <1>6, InputKept DEF Return, Running, DeepNests
<1>7. CASE UNCHANGED vars
  BY <1>7, InputKept DEF vars, DeepNests
<1> QED BY <1>1, <1>2, <1>3, <1>4, <1>5, <1>6, <1>7 DEF Next, Step, Ended

LEMMA NestInvariant == Spec => []NestInv
<1> QED BY InitNest, NestStep, PTL DEF Spec

\* The ranges TBB holds stay ranges of the loops they were made from, whatever the
\* bounds are and however many loops there are.
THEOREM NestTypeCorrect == Spec => []TypeOK
<1>1. NestInv => TypeOK
  <2> SUFFICES ASSUME NestInv PROVE TypeOK
    OBVIOUS
  <2>1. ASSUME NEW t \in tasks
        PROVE  /\ t.depth \in 0 .. NumLoops - 1
               /\ \A i \in DOMAIN t.box :
                    /\ t.box[i][1] \in 0 .. t.box[i][2]
                    /\ t.box[i][2] <= Iterations(input[t.depth + i])
    <3>1. /\ t.box \in [1 .. LoopsAt(t.depth) -> Int \X Int]
          /\ t.depth \in 0 .. NumLoops - 1
          /\ \A i \in 1 .. LoopsAt(t.depth) :
               /\ 0 <= t.box[i][1] /\ t.box[i][1] <= t.box[i][2]
               /\ t.box[i][2] <= Iterations(input[t.depth + i])
      BY DEF NestInv, TaskOK
    <3>2. \A i \in 1 .. LoopsAt(t.depth) : t.box[i][1] \in Int /\ t.box[i][2] \in Int
      BY <3>1
    <3>3. DOMAIN t.box = 1 .. LoopsAt(t.depth)
      BY <3>1
    <3> QED BY <3>1, <3>2, <3>3
  <2> QED BY <2>1 DEF NestInv, TypeOK
<1> QED BY <1>1, NestInvariant, PTL

\* Of a nest of more than three loops no iteration is ever executed: whatever TBB
\* does, runFunc runs past the end of the chain before the first call. It never does
\* so for up to three.
THEOREM DeepNestsNeverCall == Spec => []DeepNests
<1>1. NestInv => DeepNests
  BY DEF NestInv
<1> QED BY <1>1, NestInvariant, PTL

(***************************************************************************)
(* Which iterations a call is for.                                         *)
(***************************************************************************)

\* One dimension of a task: the points of its part of the range are those whose
\* counts are in it.
LEMMA TaskPoints ==
  ASSUME InputsFit, input \in Inputs, NEW t, TaskOK(t), FitsOneRange,
         NEW i \in 1 .. NumLoops, NEW x
  PROVE  x \in Points(Dims(t)[i].lower, Dims(t)[i].upper, input[i].step)
           <=> /\ x \in Space[i]
               /\ t.box[i][1] <= Index(input[i], x) /\ Index(input[i], x) < t.box[i][2]
<1> DEFINE r == input[i]
<1>1. r \in RangeType /\ BoundsFit(r)
  BY InputTyped DEF InputsFit
<1>2. /\ t.depth = 0 /\ LoopsAt(0) = NumLoops
      /\ t.box \in [1 .. NumLoops -> Int \X Int]
      /\ 0 <= t.box[i][1] /\ t.box[i][1] <= t.box[i][2] /\ t.box[i][2] <= Iterations(input[0 + i])
  BY FitIsTerm DEF TaskOK
<1>3. 0 + i = i
  BY InputTyped
<1>4. t.box[i][1] \in 0 .. Iterations(r) /\ t.box[i][2] \in 0 .. Iterations(r)
  <2>1. t.box[i][1] \in Int /\ t.box[i][2] \in Int /\ Iterations(r) \in Nat
    BY <1>1, <1>2, IterationsNat
  <2> QED BY <1>2, <1>3, <2>1
<1>5. Dims(t)[i] = [lower |-> Wrap(r.lower + t.box[i][1] * r.step),
                    upper |-> Wrap(r.lower + t.box[i][2] * r.step)]
  BY <1>2, <1>3, DimsOf
<1>6. /\ Dims(t)[i].lower = Wrap(r.lower + t.box[i][1] * r.step)
      /\ Dims(t)[i].upper = Wrap(r.lower + t.box[i][2] * r.step)
  BY <1>5
<1>7. Space[i] = Points(r.lower, r.upper, r.step)
  BY Zenon DEF Space
<1> HIDE DEF r
<1>8. \A b, e \in 0 .. Iterations(r) :
        x \in Points(Wrap(r.lower + b * r.step), Wrap(r.lower + e * r.step), r.step)
           <=> /\ x \in Points(r.lower, r.upper, r.step)
               /\ b <= Index(r, x) /\ Index(r, x) < e
  BY <1>1, ChunkPoints
<1> QED BY <1>4, <1>6, <1>7, <1>8, Zenon DEF r

InBox(t, v) ==
  \A i \in 1 .. NumLoops :
    t.box[i][1] <= Index(input[i], v[i]) /\ Index(input[i], v[i]) < t.box[i][2]

LEMMA WithinBox ==
  ASSUME InputsFit, input \in Inputs, NEW t, TaskOK(t), FitsOneRange, NEW v \in Tuples
  PROVE  Within(v, Dims(t)) <=> InBox(t, v)
<1>1. \A i \in 1 .. NumLoops : v[i] \in Space[i]
  BY Zenon DEF Tuples
<1>2. \A i \in 1 .. NumLoops :
        v[i] \in Points(Dims(t)[i].lower, Dims(t)[i].upper, input[i].step)
          <=> t.box[i][1] <= Index(input[i], v[i]) /\ Index(input[i], v[i]) < t.box[i][2]
  BY <1>1, TaskPoints
<1> QED BY <1>2, Zenon DEF Within, InBox

LEMMA CallInside ==
  ASSUME InputsFit, input \in Inputs, NEW t, TaskOK(t), FitsOneRange, NEW i \in 1 .. NumLoops
  PROVE  Points(Dims(t)[i].lower, Dims(t)[i].upper, input[i].step) \subseteq Space[i]
BY TaskPoints

\* What the calls and the tasks say does not change with the state of the run.
LEMMA SpaceKept ==
  ASSUME input' = input
  PROVE  /\ Tuples' = Tuples /\ Space' = Space
         /\ \A v, c : Within(v, c)' <=> Within(v, c)
<1>1. NumLoops' = NumLoops
  BY InputKept
<1>2. Space' = Space
  BY <1>1, Zenon DEF Space
<1>3. Tuples' = Tuples
  BY <1>1, <1>2, Zenon DEF Tuples
<1>4. \A v, c : Within(v, c)' <=> Within(v, c)
  <2> TAKE v, c
  <2> QED BY <1>1, Zenon DEF Within
<1> QED BY <1>2, <1>3, <1>4

\* For loops whose bounds fit into the word, no call is for an iteration outside of
\* them, however the ranges are cut.
THEOREM NothingOutsideBounds ==
  ASSUME InputsFit
  PROVE  Spec => []NothingOutside
<1>1. Init => NothingOutside
  BY DEF Init, NothingOutside, EmptyBag, SetToBag
<1>2. NestInv /\ NothingOutside /\ [Next]_vars => NothingOutside'
  <2> SUFFICES ASSUME NestInv, NothingOutside, [Next]_vars PROVE NothingOutside'
    OBVIOUS
  <2> DEFINE Inside(c) == \A i \in 1 .. NumLoops :
                            Points(c[i].lower, c[i].upper, input[i].step) \subseteq Space[i]
  <2>1. input' = input
    BY DEF Next, Step, Call, Split, SkipEmpty, RunFunc, RunNested, Return, Ended, vars
  <2>2. NothingOutside' <=> \A c \in DOMAIN calls' : Inside(c)
    BY <2>1, InputKept, SpaceKept, Zenon DEF NothingOutside
  <2>3. \A c \in DOMAIN calls : Inside(c)
    BY DEF NothingOutside
  <2>4. CASE calls' = calls
    BY <2>2, <2>3, <2>4
  <2>5. CASE RunFunc /\ calls' # calls
    <3>1. PICK t \in tasks :
            /\ ~(Len(Dims(t)) < NumLoops)
            /\ calls' = calls (+) SetToBag({SubSeq(Dims(t), Len(Dims(t)) - NumLoops + 1, Len(Dims(t)))})
      BY <2>5, Zenon DEF RunFunc
    <3>2. TaskOK(t) /\ input \in Inputs /\ IsABag(calls)
      BY DEF NestInv
    <3>3. FitsOneRange /\ calls' = calls (+) SetToBag({Dims(t)})
      BY <3>1, <3>2, LongChain
    <3>4. DOMAIN calls' = DOMAIN calls \cup {Dims(t)}
      BY <3>2, <3>3, OneMoreCall
    <3>5. Inside(Dims(t))
      BY <3>2, <3>3, CallInside
    <3> HIDE DEF Inside
    <3> QED BY <2>2, <2>3, <3>4, <3>5
  <2> QED BY <2>4, <2>5 DEF Next, Step, Call, Split, SkipEmpty, RunNested, Return, Ended, vars
<1> QED BY <1>1, <1>2, NestInvariant, PTL DEF Spec

(***************************************************************************)
(* Every iteration is somewhere, and in one place only.                    *)
(***************************************************************************)

OneHolder(v) ==
  \/ \E t \in tasks : Holding(v) = {t} /\ Calling(v) = {}
  \/ \E c \in DOMAIN calls : Holding(v) = {} /\ Calling(v) = {c} /\ calls[c] = 1

Once == phase \in {"run", "done"} /\ FitsOneRange => \A v \in Tuples : OneHolder(v)

LEMMA HoldersKept ==
  ASSUME input' = input, NEW v
  PROVE  /\ Holding(v)' = {t \in tasks' : Within(v, Dims(t))}
         /\ Calling(v)' = {c \in DOMAIN calls' : Within(v, c)}
<1>1. \A t : Dims(t)' = Dims(t)
  BY InputKept
<1>2. \A c : Within(v, c)' <=> Within(v, c)
  BY SpaceKept
<1>3. \A t : Within(v, Dims(t))' <=> Within(v, Dims(t))
  <2> TAKE t
  <2> QED BY <1>1, InputKept, Zenon DEF Within
<1> QED BY <1>2, <1>3, Zenon DEF Holding, Calling

\* A task is replaced by parts of which one has the iteration if it did.
LEMMA ReplacedKeeps ==
  ASSUME input' = input, calls' = calls, NEW t, NEW S, Replaced(t, S), NEW v, OneHolder(v),
         Within(v, Dims(t)) =>
           \E s \in S : Within(v, Dims(s)) /\ \A u \in S : Within(v, Dims(u)) => u = s,
         ~Within(v, Dims(t)) => \A s \in S : ~Within(v, Dims(s))
  PROVE  OneHolder(v)'
<1>1. Holding(v)' = {u \in tasks' : Within(v, Dims(u))} /\ Calling(v)' = Calling(v)
  BY HoldersKept DEF Calling
<1>2. Holding(v) = {u \in tasks : Within(v, Dims(u))}
  BY DEF Holding
<1>3. t \in tasks /\ tasks' = (tasks \ {t}) \cup S
  BY DEF Replaced
<1>4. CASE Within(v, Dims(t))
  <2>1. t \in Holding(v)
    BY <1>2, <1>3, <1>4
  <2>2. Holding(v) = {t} /\ Calling(v) = {}
    BY <2>1 DEF OneHolder
  <2>3. PICK s \in S : Within(v, Dims(s)) /\ \A u \in S : Within(v, Dims(u)) => u = s
    BY <1>4
  <2>4. Holding(v)' = {s}
    BY <1>1, <1>2, <1>3, <2>2, <2>3
  <2>5. s \in tasks' /\ Calling(v)' = {}
    BY <1>1, <1>3, <2>2, <2>3
  <2> QED BY <2>4, <2>5 DEF OneHolder
<1>5. CASE ~Within(v, Dims(t))
  <2>1. Holding(v)' = Holding(v)
    BY <1>1, <1>2, <1>3, <1>5
  <2>2. \A u \in Holding(v) : u \in tasks'
    BY <1>1, <2>1
  <2> QED BY <1>1, <2>1, <2>2 DEF OneHolder
<1> QED BY <1>4, <1>5

\* Cutting a range puts every iteration it has into one of the halves.
LEMMA HalvesHold ==
  ASSUME InputsFit, input \in Inputs, FitsOneRange, NEW t, TaskOK(t), NEW v \in Tuples,
         NEW i \in DOMAIN t.box, NEW m \in Int, t.box[i][1] <= m, m <= t.box[i][2]
  PROVE  LET lo == [t EXCEPT !.box[i][2] = m]
             hi == [t EXCEPT !.box[i][1] = m]
         IN  /\ Within(v, Dims(t)) <=> Within(v, Dims(lo)) \/ Within(v, Dims(hi))
             /\ ~(Within(v, Dims(lo)) /\ Within(v, Dims(hi)))
<1> DEFINE lo == [t EXCEPT !.box[i][2] = m]  hi == [t EXCEPT !.box[i][1] = m]
<1>1. /\ TaskOK(lo) /\ DOMAIN lo.box = DOMAIN t.box
      /\ \A j \in DOMAIN t.box : j # i => lo.box[j] = t.box[j]
      /\ lo.box[i][2] = m /\ lo.box[i][1] = t.box[i][1]
  <2>1. 3 - 2 = 1 /\ 2 \in {1, 2}
    OBVIOUS
  <2> QED BY <2>1, CutOK
<1>2. /\ TaskOK(hi) /\ DOMAIN hi.box = DOMAIN t.box
      /\ \A j \in DOMAIN t.box : j # i => hi.box[j] = t.box[j]
      /\ hi.box[i][1] = m /\ hi.box[i][2] = t.box[i][2]
  <2>1. 3 - 1 = 2 /\ 1 \in {1, 2}
    OBVIOUS
  <2> QED BY <2>1, CutOK
<1>3. DOMAIN t.box = 1 .. NumLoops /\ t.box[i][1] \in Int /\ t.box[i][2] \in Int
  BY FitIsTerm DEF TaskOK
<1>4. Index(input[i], v[i]) \in Int
  <2>1. v[i] \in Points(input[i].lower, input[i].upper, input[i].step)
    BY <1>3 DEF Tuples, Space
  <2>2. input[i] \in RangeType /\ BoundsFit(input[i])
    BY <1>3, InputTyped DEF InputsFit
  <2> QED BY <2>1, <2>2, PointsIndex
<1>5. (Within(v, Dims(t)) <=> InBox(t, v)) /\ (Within(v, Dims(lo)) <=> InBox(lo, v))
      /\ (Within(v, Dims(hi)) <=> InBox(hi, v))
  BY <1>1, <1>2, WithinBox
<1> HIDE DEF lo, hi
<1> DEFINE In(b, j) == b[1] <= Index(input[j], v[j]) /\ Index(input[j], v[j]) < b[2]
<1>6. /\ InBox(t, v) <=> \A j \in 1 .. NumLoops : In(t.box[j], j)
      /\ InBox(lo, v) <=> \A j \in 1 .. NumLoops : In(lo.box[j], j)
      /\ InBox(hi, v) <=> \A j \in 1 .. NumLoops : In(hi.box[j], j)
  BY Zenon DEF InBox
<1>7. /\ In(t.box[i], i) <=> In(lo.box[i], i) \/ In(hi.box[i], i)
      /\ ~(In(lo.box[i], i) /\ In(hi.box[i], i))
  BY <1>1, <1>2, <1>3, <1>4
<1> HIDE DEF In
<1>8. \A j \in 1 .. NumLoops : j # i => lo.box[j] = t.box[j] /\ hi.box[j] = t.box[j]
  BY <1>1, <1>2, <1>3
<1>9. i \in 1 .. NumLoops
  BY <1>3
<1>10. /\ InBox(t, v) <=> InBox(lo, v) \/ InBox(hi, v)
       /\ ~(InBox(lo, v) /\ InBox(hi, v))
  BY <1>6, <1>7, <1>8, <1>9, Zenon
<1> QED BY <1>5, <1>10 DEF lo, hi

\* The range TBB is given has every iteration.
LEMMA WholeHolds ==
  ASSUME InputsFit, input \in Inputs, FitsOneRange, NEW v \in Tuples
  PROVE  Within(v, Dims(Whole(0, << >>)))
<1>1. 0 \in 0 .. NumLoops - 1 /\ LoopsAt(0) = NumLoops
  BY InputTyped, FitIsTerm
<1>2. /\ TaskOK(Whole(0, << >>))
      /\ Whole(0, << >>).box = [i \in 1 .. NumLoops |-> <<0, Iterations(input[0 + i])>>]
  BY <1>1, WholeOK
<1>3. ASSUME NEW i \in 1 .. NumLoops
      PROVE  0 <= Index(input[i], v[i]) /\ Index(input[i], v[i]) < Iterations(input[i])
  <2>1. v[i] \in Points(input[i].lower, input[i].upper, input[i].step)
    BY DEF Tuples, Space
  <2>2. input[i] \in RangeType /\ BoundsFit(input[i])
    BY InputTyped DEF InputsFit
  <2>3. Iterations(input[i]) \in Nat
    BY <2>2, IterationsNat
  <2> QED BY <2>1, <2>2, <2>3, PointsIndex
<1>4. \A i \in 1 .. NumLoops : 0 + i = i
  BY InputTyped
<1>5. \A i \in 1 .. NumLoops :
        Whole(0, << >>).box[i][1] = 0 /\ Whole(0, << >>).box[i][2] = Iterations(input[i])
  <2> TAKE i \in 1 .. NumLoops
  <2>1. Whole(0, << >>).box[i] = <<0, Iterations(input[0 + i])>>
    BY <1>2, Zenon
  <2>2. Whole(0, << >>).box[i] = <<0, Iterations(input[i])>>
    BY <1>4, <2>1, Zenon
  <2> QED BY <2>2
<1>6. InBox(Whole(0, << >>), v)
  BY <1>3, <1>5, Zenon DEF InBox
<1> QED BY <1>2, <1>6, WithinBox

LEMMA EmptyHolds ==
  ASSUME InputsFit, input \in Inputs, FitsOneRange, NEW v \in Tuples, NEW t, TaskOK(t), EmptyRange(t)
  PROVE  ~Within(v, Dims(t))
<1>1. DOMAIN t.box = 1 .. NumLoops /\ t.box \in [1 .. NumLoops -> Int \X Int]
  BY FitIsTerm DEF TaskOK
<1>2. PICK i \in 1 .. NumLoops : t.box[i][2] - t.box[i][1] = 0
  BY <1>1 DEF EmptyRange, Size
<1>3. Index(input[i], v[i]) \in Int
  <2>1. v[i] \in Points(input[i].lower, input[i].upper, input[i].step)
    BY DEF Tuples, Space
  <2>2. input[i] \in RangeType /\ BoundsFit(input[i])
    BY InputTyped DEF InputsFit
  <2> QED BY <2>1, <2>2, PointsIndex
<1>4. t.box[i][1] \in Int /\ t.box[i][2] \in Int
  BY <1>1
<1>5. ~InBox(t, v)
  BY <1>2, <1>3, <1>4 DEF InBox
<1> QED BY <1>5, WithinBox

LEMMA OnceStep == InputsFit /\ NestInv /\ Once /\ [Next]_vars => Once'
<1> SUFFICES ASSUME InputsFit, NestInv, Once, [Next]_vars,
                    phase' \in {"run", "done"}, FitsOneRange', NEW v \in Tuples'
             PROVE  OneHolder(v)'
  BY Zenon DEF Once
<1>1. input' = input
  BY DEF Next, Step, Call, Split, SkipEmpty, RunFunc, RunNested, Return, Ended, vars
<1>2. FitsOneRange /\ v \in Tuples /\ input \in Inputs /\ \A t \in tasks : TaskOK(t)
  BY <1>1, InputKept, SpaceKept DEF NestInv
<1>3. phase \in {"run", "done"} => OneHolder(v)
  BY <1>2 DEF Once
<1>4. CASE Call
  <2>1. tasks' = {Whole(0, << >>)} /\ calls' = calls /\ phase = "call"
    BY <1>4 DEF Call
  <2>2. DOMAIN calls = {}
    BY <2>1 DEF NestInv
  <2>3. Within(v, Dims(Whole(0, << >>)))
    BY <1>2, WholeHolds
  <2>4. Holding(v)' = {Whole(0, << >>)} /\ Calling(v)' = {}
    BY <1>1, <2>1, <2>2, <2>3, HoldersKept
  <2> QED BY <2>1, <2>4 DEF OneHolder
<1>5. CASE Split
  <2>1. calls' = calls /\ OneHolder(v)
    BY <1>3, <1>5 DEF Split, Running
  <2>2. PICK t \in tasks : \E i \in DOMAIN t.box : \E m \in Int :
          /\ t.box[i][1] <= m /\ m <= t.box[i][2]
          /\ Replaced(t, {[t EXCEPT !.box[i][2] = m], [t EXCEPT !.box[i][1] = m]})
    BY <1>5, SplitParts
  <2>3. PICK i \in DOMAIN t.box, m \in Int :
          /\ t.box[i][1] <= m /\ m <= t.box[i][2]
          /\ Replaced(t, {[t EXCEPT !.box[i][2] = m], [t EXCEPT !.box[i][1] = m]})
    BY <2>2
  <2> DEFINE lo == [t EXCEPT !.box[i][2] = m]  hi == [t EXCEPT !.box[i][1] = m]
  <2>4. /\ Within(v, Dims(t)) <=> Within(v, Dims(lo)) \/ Within(v, Dims(hi))
        /\ ~(Within(v, Dims(lo)) /\ Within(v, Dims(hi)))
    BY <1>2, <2>3, HalvesHold
  <2>5. Replaced(t, {lo, hi})
    BY <2>3
  <2> HIDE DEF lo, hi
  <2>6. Within(v, Dims(t)) =>
          \E s \in {lo, hi} : Within(v, Dims(s)) /\ \A u \in {lo, hi} : Within(v, Dims(u)) => u = s
    BY <2>4
  <2>7. ~Within(v, Dims(t)) => \A s \in {lo, hi} : ~Within(v, Dims(s))
    BY <2>4
  <2> QED BY <1>1, <2>1, <2>5, <2>6, <2>7, ReplacedKeeps
<1>6. CASE SkipEmpty
  <2>1. calls' = calls /\ OneHolder(v)
    BY <1>3, <1>6 DEF SkipEmpty, Running
  <2>2. PICK t \in tasks : EmptyRange(t) /\ tasks' = tasks \ {t}
    BY <1>6 DEF SkipEmpty
  <2>3. ~Within(v, Dims(t))
    BY <1>2, <2>2, EmptyHolds
  <2>4. Replaced(t, {})
    BY <2>2 DEF Replaced
  <2> QED BY <1>1, <2>1, <2>3, <2>4, ReplacedKeeps
<1>7. CASE RunFunc
  <2>1. OneHolder(v) /\ phase = "run"
    BY <1>3, <1>7 DEF RunFunc, Running
  <2>2. PICK t \in tasks :
          /\ tasks' = tasks \ {t}
          /\ IF Len(Dims(t)) < NumLoops
             THEN phase' = "fault" /\ UNCHANGED calls
             ELSE calls' = calls (+) SetToBag({SubSeq(Dims(t), Len(Dims(t)) - NumLoops + 1, Len(Dims(t)))})
                  /\ UNCHANGED phase
    BY <1>7, Zenon DEF RunFunc
  <2>3. ~(Len(Dims(t)) < NumLoops)
    BY <2>2
  <2>4. calls' = calls (+) SetToBag({Dims(t)})
    BY <1>2, <2>2, <2>3, LongChain
  <2>5. IsABag(calls)
    BY DEF NestInv
  <2> DEFINE c == Dims(t)
  <2>6. /\ DOMAIN calls' = DOMAIN calls \cup {c}
        /\ \A d \in DOMAIN calls : d # c => calls'[d] = calls[d]
        /\ c \notin DOMAIN calls => calls'[c] = 1
    BY <2>4, <2>5, OneMoreCall
  <2>7. /\ Holding(v)' = {u \in tasks' : Within(v, Dims(u))}
        /\ Calling(v)' = {d \in DOMAIN calls' : Within(v, d)}
    BY <1>1, HoldersKept
  <2>8. /\ Holding(v) = {u \in tasks : Within(v, Dims(u))}
        /\ Calling(v) = {d \in DOMAIN calls : Within(v, d)}
    BY DEF Holding, Calling
  <2>9. CASE Within(v, c)
    <3>1. t \in Holding(v)
      BY <2>8, <2>9
    <3>2. Holding(v) = {t} /\ Calling(v) = {}
      BY <2>1, <3>1 DEF OneHolder
    <3> HIDE DEF c
    <3>3. c \notin DOMAIN calls
      BY <2>8, <2>9, <3>2
    <3>4. Holding(v)' = {}
      BY <2>2, <2>7, <2>8, <3>2
    <3>5. Calling(v)' = {c} /\ calls'[c] = 1 /\ c \in DOMAIN calls'
      BY <2>6, <2>7, <2>8, <2>9, <3>2, <3>3
    <3> QED BY <3>4, <3>5 DEF OneHolder
  <2>10. CASE ~Within(v, c)
    <3>1. t \notin Holding(v) /\ c \notin Calling(v)
      BY <2>8, <2>10
    <3> HIDE DEF c
    <3>2. Holding(v)' = Holding(v) /\ Calling(v)' = Calling(v)
      BY <2>2, <2>6, <2>7, <2>8, <2>10, <3>1
    <3>3. \A u \in Holding(v) : u \in tasks'
      BY <2>7, <3>2
    <3>4. \A d \in Calling(v) : d \in DOMAIN calls' /\ calls'[d] = calls[d]
      BY <2>6, <2>8, <3>1
    <3> QED BY <2>1, <3>2, <3>3, <3>4 DEF OneHolder
  <2> QED BY <2>9, <2>10
<1>8. CASE RunNested
  <2>1. PICK t \in tasks : ~Term(t.depth)
    BY <1>8 DEF RunNested
  <2> QED BY <1>2, <2>1, FitIsTerm DEF TaskOK
<1>9. CASE Return \/ UNCHANGED vars
  <2>1. tasks' = tasks /\ calls' = calls /\ phase \in {"run", "done"}
    BY <1>9 DEF Return, Running, vars
  <2>2. Holding(v)' = Holding(v) /\ Calling(v)' = Calling(v)
    BY <1>1, <2>1, HoldersKept, Zenon DEF Holding, Calling
  <2> QED BY <1>3, <2>1, <2>2 DEF OneHolder
<1> QED BY <1>4, <1>5, <1>6, <1>7, <1>8, <1>9 DEF Next, Step, Ended

\* For loops whose bounds fit into the word, and nests of up to three of them: every
\* iteration is in one range that TBB still has or in one call, and in a call of the
\* outlined function, once, when dpcomp_parallel_for returns.
THEOREM IterationsOnce ==
  ASSUME InputsFit
  PROVE  Spec => []ExactlyOnce
<1>1. Init => Once
  BY DEF Init, Once
<1>2. NestInv /\ Once /\ [Next]_vars => Once'
  BY OnceStep
<1>3. Spec => []Once
  BY <1>1, <1>2, NestInvariant, PTL DEF Spec
<1>4. Once => ExactlyOnce
  <2> SUFFICES ASSUME Once, phase \in {"run", "done"}, FitsOneRange, NEW v \in Tuples
               PROVE  /\ Cardinality(Holding(v)) + Cardinality(Calling(v)) = 1
                      /\ \A c \in Calling(v) : calls[c] = 1
    BY DEF ExactlyOnce
  <2>1. Cardinality({}) = 0
    BY FS_EmptySet
  <2>2. \A x : Cardinality({x}) = 1
    BY FS_Singleton, Zenon
  <2>3. OneHolder(v)
    BY DEF Once
  <2>4. CASE \E t \in tasks : Holding(v) = {t} /\ Calling(v) = {}
    <3>1. Cardinality(Holding(v)) = 1 /\ Cardinality(Calling(v)) = 0
      BY <2>1, <2>2, <2>4, Zenon
    <3> QED BY <2>4, <3>1
  <2>5. CASE \E c \in DOMAIN calls : Holding(v) = {} /\ Calling(v) = {c} /\ calls[c] = 1
    <3>1. Cardinality(Holding(v)) = 0 /\ Cardinality(Calling(v)) = 1
      BY <2>1, <2>2, <2>5, Zenon
    <3> QED BY <2>5, <3>1
  <2> QED BY <2>3, <2>4, <2>5 DEF OneHolder
<1> QED BY <1>3, <1>4, PTL
=============================================================================
