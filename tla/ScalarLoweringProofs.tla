------------------------- MODULE ScalarLoweringProofs -------------------------
(***************************************************************************)
(* Theorems about ScalarLowering, for integers of all widths.              *)
(***************************************************************************)
EXTENDS ScalarLowering, FiniteSetTheorems, FunctionTheorems, TLAPS

(***************************************************************************)
(* Powers of two. The provers know nothing of them, but the library knows  *)
(* how many subsets a finite set has.                                      *)
(***************************************************************************)

LEMMA PowerCounts ==
  ASSUME NEW a \in Nat, NEW b \in Nat
  PROVE  /\ IsFiniteSet(SUBSET (a + 1 .. a + b))
         /\ Cardinality(SUBSET (a + 1 .. a + b)) = 2 ^ b /\ 2 ^ b \in Nat /\ 2 ^ b > 0
<1> DEFINE S == a + 1 .. a + b
<1>1. IsFiniteSet(S) /\ Cardinality(S) = b
  BY FS_Interval
<1> HIDE DEF S
<1>2. IsFiniteSet(SUBSET S) /\ Cardinality(SUBSET S) = 2 ^ b
  BY <1>1, FS_SUBSET
<1>3. Cardinality(SUBSET S) \in Nat
  BY <1>2, FS_CardinalityType
<1>4. SUBSET S # {}
  OBVIOUS
<1>5. Cardinality(SUBSET S) # 0
  BY <1>2, <1>4, FS_EmptySet
<1> QED BY <1>2, <1>3, <1>5 DEF S

LEMMA PowerNat ==
  ASSUME NEW n \in Nat
  PROVE  2 ^ n \in Nat /\ 2 ^ n > 0
BY PowerCounts

LEMMA PowerAdd ==
  ASSUME NEW a \in Nat, NEW b \in Nat
  PROVE  2 ^ (a + b) = 2 ^ a * 2 ^ b
<1> DEFINE S == 1 .. a  T == a + 1 .. a + b  U == 1 .. a + b
           split == [A \in SUBSET U |-> <<A \cap S, A \cap T>>]
<1>1. IsFiniteSet(SUBSET S) /\ Cardinality(SUBSET S) = 2 ^ a
  <2>1. 0 + 1 .. 0 + a = S
    OBVIOUS
  <2> HIDE DEF S
  <2> QED BY <2>1, PowerCounts
<1>2. IsFiniteSet(SUBSET T) /\ Cardinality(SUBSET T) = 2 ^ b
  BY PowerCounts
<1>3. IsFiniteSet(SUBSET U) /\ Cardinality(SUBSET U) = 2 ^ (a + b)
  <2>1. 0 + 1 .. 0 + (a + b) = U /\ a + b \in Nat
    OBVIOUS
  <2> HIDE DEF U
  <2> QED BY <2>1, PowerCounts
<1>4. U = S \cup T /\ S \cap T = {}
  OBVIOUS
<1> HIDE DEF S, T, U
<1>5. split \in Bijection(SUBSET U, (SUBSET S) \X (SUBSET T))
  <2>1. split \in [SUBSET U -> (SUBSET S) \X (SUBSET T)]
    OBVIOUS
  <2>2. \A A, B \in SUBSET U : split[A] = split[B] => A = B
    <3> SUFFICES ASSUME NEW A \in SUBSET U, NEW B \in SUBSET U, split[A] = split[B]
                 PROVE  A = B
      OBVIOUS
    <3>1. split[A] = <<A \cap S, A \cap T>> /\ split[B] = <<B \cap S, B \cap T>>
      OBVIOUS
    <3>2. <<A \cap S, A \cap T>> = <<B \cap S, B \cap T>>
      BY <3>1, Zenon
    <3>3. A \cap S = B \cap S /\ A \cap T = B \cap T
      BY <3>2
    <3>4. A = (A \cap S) \cup (A \cap T) /\ B = (B \cap S) \cup (B \cap T)
      BY <1>4
    <3> QED BY <3>3, <3>4
  <2>3. \A z \in (SUBSET S) \X (SUBSET T) : \E A \in SUBSET U : split[A] = z
    <3> TAKE z \in (SUBSET S) \X (SUBSET T)
    <3>1. z[1] \in SUBSET S /\ z[2] \in SUBSET T /\ z = <<z[1], z[2]>>
      OBVIOUS
    <3>2. /\ z[1] \cup z[2] \in SUBSET U
          /\ (z[1] \cup z[2]) \cap S = z[1] /\ (z[1] \cup z[2]) \cap T = z[2]
      BY <1>4, <3>1
    <3>3. split[z[1] \cup z[2]] = z
      BY <3>1, <3>2
    <3> QED BY <3>2, <3>3
  <2> HIDE DEF split
  <2> QED BY <2>1, <2>2, <2>3, Fun_IsBij
<1>6. ExistsBijection(SUBSET U, (SUBSET S) \X (SUBSET T))
  BY <1>5, Zenon DEF ExistsBijection
<1>7. Cardinality((SUBSET S) \X (SUBSET T)) = Cardinality(SUBSET U)
  BY <1>3, <1>6, FS_Bijection
<1>8. Cardinality((SUBSET S) \X (SUBSET T)) = 2 ^ a * 2 ^ b
  BY <1>1, <1>2, FS_Product
<1> QED BY <1>3, <1>7, <1>8, Zenon

(***************************************************************************)
(* Division.                                                               *)
(***************************************************************************)

LEMMA DivMod ==
  ASSUME NEW a \in Int, NEW n \in Nat, n > 0
  PROVE  /\ a \div n \in Int /\ a % n \in Int
         /\ a = n * (a \div n) + (a % n) /\ 0 <= a % n /\ a % n < n
BY SMT

LEMMA ModUnique ==
  ASSUME NEW a \in Int, NEW n \in Nat, n > 0, NEW q \in Int, NEW m \in 0 .. n - 1, a = q * n + m
  PROVE  a % n = m /\ a \div n = q
BY SMT

LEMMA Distribute ==
  ASSUME NEW a \in Int, NEW b \in Int, NEW s \in Int
  PROVE  /\ a * s \in Int /\ s * a = a * s
         /\ (a + b) * s = a * s + b * s /\ (a - b) * s = a * s - b * s
BY SMT

LEMMA Expand ==
  ASSUME NEW c \in Int, NEW d \in Int, NEW q \in Int, NEW r \in Int, NEW p \in Int
  PROVE  (c + q * p) * (d + r * p) = c * d + (q * d + c * r + q * r * p) * p
BY SMT

\* Numbers that differ by a multiple have the same remainder.
LEMMA ModShift ==
  ASSUME NEW a \in Int, NEW b \in Int, NEW q \in Int, NEW n \in Nat, n > 0, a = b + q * n
  PROVE  a % n = b % n
<1>1. b \div n \in Int /\ b % n \in 0 .. n - 1 /\ b = n * (b \div n) + (b % n)
  BY DivMod
<1> DEFINE d == b \div n  m == b % n
<1> HIDE DEF d, m
<1>2. d \in Int /\ m \in 0 .. n - 1 /\ b = n * d + m
  BY <1>1 DEF d, m
<1>3. (d + q) * n = d * n + q * n /\ d * n = n * d /\ d + q \in Int /\ d * n \in Int /\ q * n \in Int
  BY <1>2, Distribute
<1>4. a = (d + q) * n + m
  BY <1>2, <1>3
<1>5. a % n = m
  BY <1>2, <1>3, <1>4, ModUnique
<1> QED BY <1>5 DEF m

LEMMA ModOf ==
  ASSUME NEW a \in Int, NEW n \in Nat, n > 0
  PROVE  \E q \in Int : a = (a % n) + q * n
<1>1. a \div n \in Int /\ a % n \in Int /\ a = n * (a \div n) + (a % n)
  BY DivMod
<1>2. n * (a \div n) = (a \div n) * n /\ (a \div n) * n \in Int
  BY <1>1, Distribute
<1>3. a = (a % n) + (a \div n) * n
  BY <1>1, <1>2
<1> QED BY <1>1, <1>3

(***************************************************************************)
(* Integers of w bits.                                                     *)
(***************************************************************************)

LEMMA BitsRange ==
  ASSUME NEW n \in Int, NEW w \in Nat
  PROVE  Bits(n, w) \in 0 .. 2 ^ w - 1 /\ Bits(n, w) \in Int
BY PowerNat, DivMod DEF Bits

LEMMA BitsOfSmall ==
  ASSUME NEW w \in Nat, NEW n \in 0 .. 2 ^ w - 1
  PROVE  Bits(n, w) = n
<1>1. 2 ^ w \in Nat /\ 2 ^ w > 0 /\ n \in Int /\ n = 0 * 2 ^ w + n
  BY PowerNat
<1> QED BY <1>1, ModUnique DEF Bits

\* a and b differ by a multiple of 2^w.
SameBits(a, b, w) == \E q \in Int : a = b + q * 2 ^ w

LEMMA BitsShift ==
  ASSUME NEW a \in Int, NEW b \in Int, NEW w \in Nat, SameBits(a, b, w)
  PROVE  Bits(a, w) = Bits(b, w)
<1>1. PICK q \in Int : a = b + q * 2 ^ w
  BY DEF SameBits
<1> DEFINE P == 2 ^ w
<1>2. P \in Nat /\ P > 0 /\ a = b + q * P
  BY <1>1, PowerNat
<1> HIDE DEF P
<1>3. a % P = b % P
  BY <1>2, ModShift
<1> QED BY <1>3 DEF Bits, P

\* The lower bits of a sum, a difference and a product are those of the operands' bits.
LEMMA BitsArith ==
  ASSUME NEW a \in Int, NEW b \in Int, NEW w \in Nat
  PROVE  /\ Bits(Bits(a, w) + Bits(b, w), w) = Bits(a + b, w)
         /\ Bits(Bits(a, w) - Bits(b, w), w) = Bits(a - b, w)
         /\ Bits(Bits(a, w) * Bits(b, w), w) = Bits(a * b, w)
<1> DEFINE P == 2 ^ w  c == Bits(a, w)  d == Bits(b, w)
<1>1. P \in Nat /\ P > 0 /\ c \in Int /\ d \in Int
  BY PowerNat, BitsRange
<1>2. PICK q \in Int : a = c + q * P
  BY PowerNat, ModOf DEF Bits
<1>3. PICK r \in Int : b = d + r * P
  BY PowerNat, ModOf DEF Bits
<1> HIDE DEF P, c, d
<1>4. a + b = (c + d) + (q + r) * P /\ a - b = (c - d) + (q - r) * P
  <2>1. (q + r) * P = q * P + r * P /\ (q - r) * P = q * P - r * P /\ q * P \in Int /\ r * P \in Int
    BY <1>1, Distribute
  <2> QED BY <1>1, <1>2, <1>3, <2>1
<1>5. a * b = c * d + (q * d + c * r + q * r * P) * P
  <2>1. (c + q * P) * (d + r * P) = c * d + (q * d + c * r + q * r * P) * P
    BY <1>1, Expand
  <2> QED BY <1>2, <1>3, <2>1, Zenon
<1>6. /\ c + d \in Int /\ c - d \in Int /\ c * d \in Int /\ a * b \in Int /\ a + b \in Int /\ a - b \in Int
      /\ q + r \in Int /\ q - r \in Int /\ q * d + c * r + q * r * P \in Int
  BY <1>1, SMT
<1>7. SameBits(a + b, c + d, w) /\ SameBits(a - b, c - d, w) /\ SameBits(a * b, c * d, w)
  <2>1. \A k \in Int : \A m, n : n = m + k * P => SameBits(n, m, w)
    BY DEF SameBits, P
  <2> QED BY <1>4, <1>5, <1>6, <2>1
<1>8. /\ Bits(a + b, w) = Bits(c + d, w) /\ Bits(a - b, w) = Bits(c - d, w)
      /\ Bits(a * b, w) = Bits(c * d, w)
  BY <1>6, <1>7, BitsShift
<1> QED BY <1>8 DEF c, d

LEMMA BitsNarrow ==
  ASSUME NEW n \in Int, NEW d \in Nat, NEW w \in Nat, d <= w
  PROVE  Bits(Bits(n, w), d) = Bits(n, d)
<1>1. w - d \in Nat /\ w = (w - d) + d
  OBVIOUS
<1>2. 2 ^ w = 2 ^ (w - d) * 2 ^ d
  <2>1. 2 ^ ((w - d) + d) = 2 ^ (w - d) * 2 ^ d
    BY <1>1, PowerAdd
  <2> QED BY <1>1, <2>1
<1>3. 2 ^ w \in Nat /\ 2 ^ w > 0 /\ 2 ^ d \in Nat /\ 2 ^ (w - d) \in Nat
  BY <1>1, PowerNat
<1>4. PICK q \in Int : n = Bits(n, w) + q * 2 ^ w
  BY <1>3, ModOf DEF Bits
<1>5. q * 2 ^ w = (q * 2 ^ (w - d)) * 2 ^ d /\ q * 2 ^ (w - d) \in Int
  BY <1>2, <1>3, SMT
<1>6. Bits(n, w) \in Int /\ n = Bits(n, w) + (q * 2 ^ (w - d)) * 2 ^ d
  BY <1>4, <1>5, BitsRange
<1>7. SameBits(n, Bits(n, w), d)
  BY <1>5, <1>6, Zenon DEF SameBits
<1> QED BY <1>6, <1>7, BitsShift

LEMMA PowerHalf ==
  ASSUME NEW w \in Nat, w > 0
  PROVE  2 ^ w = 2 * 2 ^ (w - 1) /\ 2 ^ (w - 1) \in Nat /\ 2 ^ (w - 1) > 0 /\ 2 ^ w \in Nat
<1>1. w - 1 \in Nat /\ w = 1 + (w - 1) /\ 2 ^ 1 = 2
  BY SMT
<1>2. 2 ^ (1 + (w - 1)) = 2 ^ 1 * 2 ^ (w - 1)
  BY <1>1, PowerAdd
<1> QED BY <1>1, <1>2, PowerNat

\* Two's complement.
LEMMA SignedBits ==
  ASSUME NEW w \in Nat, w > 0, NEW n \in -(2 ^ (w - 1)) .. 2 ^ (w - 1) - 1
  PROVE  Signed(Bits(n, w), w) = n
<1> DEFINE H == 2 ^ (w - 1)
<1>1. 2 ^ w = 2 * H /\ H \in Nat /\ H > 0 /\ n \in Int /\ - H <= n /\ n < H
  BY PowerHalf
<1>2. CASE n >= 0
  <2>1. n \in 0 .. 2 ^ w - 1
    BY <1>1, <1>2
  <2>2. Bits(n, w) = n
    BY <2>1, BitsOfSmall
  <2> QED BY <1>1, <2>2 DEF Signed
<1>3. CASE n < 0
  <2>1. n + 2 ^ w \in 0 .. 2 ^ w - 1 /\ n + 2 ^ w = n + 1 * 2 ^ w /\ n + 2 ^ w \in Int
    BY <1>1, <1>3
  <2>2. Bits(n, w) = n + 2 ^ w
    <3>1. Bits(n + 2 ^ w, w) = Bits(n, w)
      <4>1. SameBits(n + 2 ^ w, n, w)
        BY <2>1 DEF SameBits
      <4> QED BY <1>1, <2>1, <4>1, BitsShift
    <3> QED BY <2>1, <3>1, BitsOfSmall
  <2>3. n + 2 ^ w >= H
    BY <1>1
  <2> QED BY <1>1, <2>2, <2>3 DEF Signed
<1> QED BY <1>1, <1>2, <1>3

LEMMA PowerGrows ==
  ASSUME NEW a \in Nat, NEW b \in Nat, a <= b
  PROVE  2 ^ a <= 2 ^ b
<1>1. b - a \in Nat /\ b = a + (b - a)
  OBVIOUS
<1>2. 2 ^ (a + (b - a)) = 2 ^ a * 2 ^ (b - a)
  BY <1>1, PowerAdd
<1>3. 2 ^ a \in Nat /\ 2 ^ (b - a) \in Nat /\ 2 ^ (b - a) > 0
  BY <1>1, PowerNat
<1>4. \A p, q \in Nat : q > 0 => p <= p * q
  BY SMT
<1> QED BY <1>1, <1>2, <1>3, <1>4

(***************************************************************************)
(* Numbers of the integer types and of index.                              *)
(***************************************************************************)

IntTypes == Ints \cup {Index}

\* The value a, of type t, stands for the number n.
Holds(a, t, n) ==
    /\ t \in IntTypes
    /\ n \in Int
    /\ Fits(n, t)
    /\ a = [t |-> t, v |-> Bits(n, t.w)]

LEMMA TypeCases ==
  ASSUME NEW t \in IntTypes
  PROVE  /\ t.w \in Nat /\ t.w > 0 /\ t.w <= W /\ ~ IsFloat(t)
         /\ t = Type(t.k, t.w)
         /\ \/ t = Bool /\ t.k = "i" /\ t.w = 1
            \/ t \in Ints /\ t.k \in {"si", "ui"} /\ t.w \in {N, W} /\ t.w > 1
            \/ t = Index /\ t.k = "index" /\ t.w = W
         /\ W \in Nat /\ N \in Nat /\ 1 < N /\ N < W
BY WidthsAssumption DEF IntTypes, Ints, Index, Bool, Type, IsFloat

LEMMA FitsRange ==
  ASSUME NEW t \in IntTypes, NEW n \in Int
  PROVE  /\ 2 ^ t.w = 2 * 2 ^ (t.w - 1) /\ 2 ^ (t.w - 1) \in Nat /\ 2 ^ (t.w - 1) > 0 /\ 2 ^ t.w \in Nat
         /\ t.k \in {"si", "index"} =>
              (Fits(n, t) <=> - (2 ^ (t.w - 1)) <= n /\ n < 2 ^ (t.w - 1))
         /\ t.k \notin {"si", "index"} => (Fits(n, t) <=> 0 <= n /\ n < 2 ^ t.w)
<1> DEFINE H == 2 ^ (t.w - 1)  P == 2 ^ t.w
<1>1. P = 2 * H /\ H \in Nat /\ H > 0 /\ P \in Nat /\ ~ IsFloat(t)
  BY TypeCases, PowerHalf
<1>2. t.k \in {"si", "index"} => (Fits(n, t) <=> n \in -H .. H - 1)
  BY <1>1 DEF Fits
<1>3. t.k \notin {"si", "index"} => (Fits(n, t) <=> n \in 0 .. P - 1)
  BY <1>1 DEF Fits
<1> HIDE DEF H, P
<1>4. /\ n \in -H .. H - 1 <=> - H <= n /\ n < H
      /\ n \in 0 .. P - 1 <=> 0 <= n /\ n < P
  BY <1>1
<1>5. /\ P = 2 * H /\ H \in Nat /\ H > 0 /\ P \in Nat
      /\ t.k \in {"si", "index"} => (Fits(n, t) <=> - H <= n /\ n < H)
      /\ t.k \notin {"si", "index"} => (Fits(n, t) <=> 0 <= n /\ n < P)
  BY <1>1, <1>2, <1>3, <1>4
<1> QED BY <1>5 DEF H, P

\* The types are the ranges of Ranged.
LEMMA RangedFits ==
  ASSUME NEW t \in IntTypes
  PROVE  \A n : n \in Ranged(t) <=> n \in Int /\ Fits(n, t)
<1> SUFFICES ASSUME NEW n
             PROVE  n \in Ranged(t) <=> n \in Int /\ Fits(n, t)
  OBVIOUS
<1>1. t.w \in Nat /\ W \in Nat /\ 2 ^ t.w <= 2 ^ W /\ 2 ^ W \in Nat /\ Value(n, t) = n
  BY TypeCases, PowerGrows, PowerNat DEF Value
<1>2. n \in Ranged(t) <=> n \in -(2 ^ W) .. 2 ^ W /\ Fits(n, t)
  BY <1>1, Zenon DEF Ranged
<1>3. ASSUME n \in Int, Fits(n, t)
      PROVE  - (2 ^ W) <= n /\ n <= 2 ^ W
  BY <1>1, <1>3, FitsRange
<1>4. n \in -(2 ^ W) .. 2 ^ W <=> n \in Int /\ - (2 ^ W) <= n /\ n <= 2 ^ W
  BY <1>1
<1> QED BY <1>2, <1>3, <1>4

\* What is read from the bits.
LEMMA ReadHolds ==
  ASSUME NEW a, NEW t, NEW n, Holds(a, t, n)
  PROVE  /\ t \in IntTypes /\ n \in Int /\ Fits(n, t) /\ a.t = t /\ a.v = Bits(n, t.w) /\ a.v \in Int
         /\ t.k \in {"si", "index"} => AsSigned(a) = n
         /\ t.k \notin {"si", "index"} => a.v = n
         /\ Read(a) = n
<1>1. t \in IntTypes /\ n \in Int /\ Fits(n, t) /\ a.t = t /\ a.v = Bits(n, t.w)
  BY DEF Holds
<1>2. a.v \in Int
  BY <1>1, BitsRange, TypeCases
<1>3. ASSUME t.k \in {"si", "index"} PROVE AsSigned(a) = n
  <2>1. n \in -(2 ^ (t.w - 1)) .. 2 ^ (t.w - 1) - 1
    BY <1>1, <1>3, FitsRange
  <2>2. Signed(Bits(n, t.w), t.w) = n
    BY <1>1, <2>1, TypeCases, SignedBits
  <2> QED BY <1>1, <2>2 DEF AsSigned
<1>4. ASSUME t.k \notin {"si", "index"} PROVE a.v = n
  <2>1. n \in 0 .. 2 ^ t.w - 1
    BY <1>1, <1>4, FitsRange
  <2> QED BY <1>1, <2>1, TypeCases, BitsOfSmall
<1> QED BY <1>1, <1>2, <1>3, <1>4 DEF Read

(***************************************************************************)
(* Casts.                                                                  *)
(***************************************************************************)

LEMMA CastCases ==
  ASSUME NEW a, NEW u, NEW t \in IntTypes, u \in IntTypes \/ u = Type("i", W), a.t = u
  PROVE  /\ u = t => DoCast(a, t) = a
         /\ u # t /\ u # Index /\ t # Index => DoCast(a, t) = IntCast(a, t)
         /\ u # t /\ (u = Index \/ t = Index) => DoCast(a, t) = IndexCast(a, t)
<1>1. IsInt(t) <=> t # Index
  BY DEF IntTypes, Ints, Index, Bool, Type, IsInt
<1>2. IsInt(u) <=> u # Index
  BY DEF IntTypes, Ints, Index, Bool, Type, IsInt
<1>3. ~ IsFloat(t) /\ ~ IsFloat(u)
  BY DEF IntTypes, Ints, Index, Bool, Type, IsFloat
<1> QED BY <1>1, <1>2, <1>3, Zenon DEF DoCast

\* A number that the new type has, too, keeps its value; a bool is whether it is zero.
LEMMA CastHolds ==
  ASSUME NEW a, NEW u, NEW n, Holds(a, u, n),
         NEW t \in IntTypes, t = Bool \/ Fits(n, t),
         u = Index => t # Bool,
         t = Index /\ u # Index => u.k = "si" \/ n < 2 ^ (u.w - 1)
  PROVE  Holds(DoCast(a, t), t, As(n, t))
<1>1. /\ u \in IntTypes /\ n \in Int /\ Fits(n, u) /\ a.t = u /\ a.v = Bits(n, u.w) /\ a.v \in Int
      /\ u.k \in {"si", "index"} => AsSigned(a) = n
      /\ u.k \notin {"si", "index"} => a.v = n
  BY ReadHolds
<1>2. /\ t.w \in Nat /\ t.w > 0 /\ u.w \in Nat /\ u.w > 0
      /\ t = Bool <=> t.w = 1
      /\ u = Bool <=> u.w = 1
  BY <1>1, WidthsAssumption DEF IntTypes, Ints, Index, Bool, Type
<1>3. As(n, t) \in Int /\ Fits(As(n, t), t)
  <2>1. CASE t = Bool
    <3>1. t.k = "i" /\ 2 ^ (t.w - 1) > 0 /\ 2 ^ t.w = 2 * 2 ^ (t.w - 1) /\ 2 ^ (t.w - 1) \in Nat
      BY <1>1, <2>1, FitsRange DEF Bool, Type
    <3>2. As(n, t) \in Int /\ 0 <= As(n, t) /\ As(n, t) < 2 ^ t.w
      BY <2>1, <3>1 DEF As
    <3> QED BY <3>1, <3>2, FitsRange
  <2>2. CASE t # Bool
    BY <1>1, <2>2 DEF As
  <2> QED BY <2>1, <2>2
<1>4. CASE u = t
  <2>1. DoCast(a, t) = a
    BY <1>1, <1>4, CastCases
  <2>2. As(n, t) = n
    <3>1. CASE t = Bool
      <4>1. t.w = 1 /\ 2 ^ 1 = 2 /\ t.k = "i"
        BY <3>1, SMT DEF Bool, Type
      <4>2. 0 <= n /\ n < 2
        BY <1>1, <1>4, <4>1, FitsRange
      <4> QED BY <1>1, <3>1, <4>2 DEF As
    <3>2. CASE t # Bool
      BY <3>2 DEF As
    <3> QED BY <3>1, <3>2
  <2> QED BY <1>4, <2>1, <2>2
<1>5. CASE u # t /\ (u = Index \/ t = Index)
  <2>1. t # Bool /\ As(n, t) = n
    BY <1>5 DEF As, Index, Bool, Type
  <2>2. AsSigned(a) = n
    <3>1. CASE u.k \in {"si", "index"}
      BY <1>1, <3>1
    <3>2. CASE u.k \notin {"si", "index"}
      <4>1. u # Index /\ t = Index /\ n < 2 ^ (u.w - 1) /\ 0 <= n /\ 2 ^ (u.w - 1) \in Nat
        BY <1>1, <1>5, <3>2, FitsRange DEF Index, Type
      <4>2. n \in -(2 ^ (u.w - 1)) .. 2 ^ (u.w - 1) - 1
        BY <1>1, <4>1
      <4>3. Signed(Bits(n, u.w), u.w) = n
        BY <1>2, <4>2, SignedBits
      <4> QED BY <1>1, <4>3 DEF AsSigned
    <3> QED BY <3>1, <3>2
  <2>3. DoCast(a, t) = FromInt(n, t)
    BY <1>1, <1>5, <2>2, CastCases DEF IndexCast
  <2>4. FromInt(n, t) = [t |-> t, v |-> Bits(n, t.w)]
    BY TypeCases DEF FromInt
  <2> QED BY <1>3, <2>1, <2>3, <2>4 DEF Holds
<1>6. CASE u # t /\ u # Index /\ t # Index
  <2>1. DoCast(a, t) = IntCast(a, t)
    BY <1>1, <1>6, CastCases
  <2>2. CASE t.w > u.w
    <3>1. t # Bool /\ As(n, t) = n
      BY <1>2, <2>2 DEF As
    <3>2. (IF a.t.k = "si" THEN Bits(AsSigned(a), t.w) ELSE a.v) = Bits(n, t.w)
      <4>1. CASE u.k = "si"
        BY <1>1, <4>1
      <4>2. CASE u.k # "si"
        <5>1. u.k \notin {"si", "index"}
          BY <1>1, <1>6, <4>2, TypeCases
        <5>2. 0 <= n /\ n < 2 ^ u.w /\ 2 ^ u.w <= 2 ^ t.w /\ 2 ^ u.w \in Nat /\ 2 ^ t.w \in Nat
          BY <1>1, <1>2, <2>2, <5>1, FitsRange, PowerGrows
        <5>3. n \in 0 .. 2 ^ t.w - 1
          BY <1>1, <5>2
        <5> QED BY <1>1, <1>2, <4>2, <5>1, <5>3, BitsOfSmall
      <4> QED BY <4>1, <4>2
    <3>3. IntCast(a, t) = [t |-> t, v |-> Bits(n, t.w)]
      BY <1>1, <2>2, <3>2 DEF IntCast
    <3> QED BY <1>3, <2>1, <3>1, <3>3 DEF Holds
  <2>3. CASE ~ (t.w > u.w) /\ t = Bool
    <3>1. u.w > 1 /\ t.w = 1
      BY <1>2, <1>6, <2>3
    <3>2. IntCast(a, t) = [t |-> t, v |-> IF a.v = 0 THEN 0 ELSE 1]
      BY <1>1, <1>2, <2>3, <3>1 DEF IntCast
    <3>3. a.v = 0 <=> n = 0
      <4>1. CASE u.k \notin {"si", "index"}
        BY <1>1, <4>1
      <4>2. CASE u.k \in {"si", "index"}
        <5>1. 2 ^ (u.w - 1) \in Nat /\ 2 ^ (u.w - 1) > 0 /\ 0 \in -(2 ^ (u.w - 1)) .. 2 ^ (u.w - 1) - 1
          BY <1>1, FitsRange
        <5>2. Signed(0, u.w) = 0
          BY <5>1 DEF Signed
        <5>3. 0 \in 0 .. 2 ^ u.w - 1
          BY <1>1, FitsRange
        <5>4. Bits(0, u.w) = 0
          BY <1>2, <5>3, BitsOfSmall
        <5> QED BY <1>1, <4>2, <5>2, <5>4 DEF AsSigned
      <4> QED BY <4>1, <4>2
    <3>4. As(n, t) \in {0, 1} /\ (IF a.v = 0 THEN 0 ELSE 1) = As(n, t)
      BY <2>3, <3>3 DEF As
    <3>5. Bits(As(n, t), t.w) = As(n, t)
      <4>1. As(n, t) \in 0 .. 2 ^ t.w - 1
        <5>1. 2 ^ 1 = 2
          BY SMT
        <5> QED BY <3>1, <3>4, <5>1
      <4> QED BY <1>2, <4>1, BitsOfSmall
    <3> QED BY <1>3, <2>1, <3>2, <3>4, <3>5 DEF Holds
  <2>4. CASE ~ (t.w > u.w) /\ t # Bool
    <3>1. IntCast(a, t) = [t |-> t, v |-> Bits(a.v, t.w)] /\ As(n, t) = n
      BY <1>1, <1>2, <2>4 DEF IntCast, As
    <3>2. Bits(Bits(n, u.w), t.w) = Bits(n, t.w)
      BY <1>1, <1>2, <2>4, BitsNarrow
    <3> QED BY <1>1, <1>3, <2>1, <3>1, <3>2 DEF Holds
  <2> QED BY <2>2, <2>3, <2>4
<1> QED BY <1>4, <1>5, <1>6

\* The signless type the operations work in, and numba's two types for the result.
Wide == Type("i", W)
Results == {Type("si", W), Type("ui", W)}

LEMMA ResultTypes ==
  ASSUME NEW t \in Results
  PROVE  /\ t \in Ints /\ t \in IntTypes /\ t.w = W /\ t.k \in {"si", "ui"} /\ t # Wide /\ t # Bool /\ t # Index
         /\ MakeSignless(t) = Wide /\ ~ IsFloat(t) /\ IsInt(t)
         /\ Wide.k = "i" /\ Wide.w = W /\ ~ IsFloat(Wide) /\ IsInt(Wide) /\ Wide \notin IntTypes
         /\ W \in Nat /\ W > 1
BY WidthsAssumption
   DEF Results, Wide, IntTypes, Ints, Index, Bool, Type, MakeSignless, IsFloat, IsInt

LEMMA FitsInt ==
  ASSUME NEW t \in IntTypes, NEW n, Fits(n, t)
  PROVE  n \in Int
<1>1. 2 ^ t.w \in Nat /\ 2 ^ (t.w - 1) \in Nat /\ ~ IsFloat(t)
  BY 0 \in Int, FitsRange, TypeCases
<1>2. n \in -(2 ^ (t.w - 1)) .. 2 ^ (t.w - 1) - 1 \/ n \in 0 .. 2 ^ t.w - 1
  BY <1>1 DEF Fits
<1> QED BY <1>1, <1>2

LEMMA AsFits ==
  ASSUME NEW t \in IntTypes, NEW n, Fits(n, t)
  PROVE  As(n, t) = n
<1>1. CASE t = Bool
  <2>1. t.w = 1 /\ 2 ^ 1 = 2 /\ t.k = "i"
    BY <1>1, SMT DEF Bool, Type
  <2>2. n \in Int /\ 0 <= n /\ n < 2
    BY <1>1, <2>1, FitsInt, FitsRange
  <2> QED BY <1>1, <2>2 DEF As
<1>2. CASE t # Bool
  BY <1>2 DEF As
<1> QED BY <1>1, <1>2

LEMMA ToWide ==
  ASSUME NEW a, NEW u \in Ints, NEW n, Holds(a, u, n)
  PROVE  DoCast(a, Wide) = [t |-> Wide, v |-> Bits(n, W)]
<1>1. /\ u \in IntTypes /\ n \in Int /\ Fits(n, u) /\ a.t = u /\ a.v = Bits(n, u.w) /\ a.v \in Int
      /\ u.k \in {"si", "index"} => AsSigned(a) = n
      /\ u.k \notin {"si", "index"} => a.v = n
  BY ReadHolds
<1>2. /\ u.w \in Nat /\ u.w > 0 /\ u.w <= W /\ W \in Nat /\ W > 1 /\ Wide.w = W
      /\ u # Wide /\ IsInt(u) /\ IsInt(Wide) /\ u.k \in {"i", "si", "ui"}
  BY WidthsAssumption DEF Wide, Ints, Bool, Type, IsInt
<1>3. DoCast(a, Wide) = IntCast(a, Wide)
  <2>1. IsInt(a.t) /\ IsInt(Wide) /\ a.t # Wide /\ ~ IsFloat(a.t) /\ ~ IsFloat(Wide)
    BY <1>1, <1>2, TypeCases DEF Wide, Type, IsFloat
  <2> QED BY <2>1, Zenon DEF DoCast
<1>4. CASE W > u.w
  <2>1. CASE u.k = "si"
    BY <1>1, <1>2, <1>3, <1>4, <2>1 DEF IntCast
  <2>2. CASE u.k # "si"
    <3>1. a.v = n /\ u.k \notin {"si", "index"}
      BY <1>1, <1>2, <2>2
    <3>2. 0 <= n /\ n < 2 ^ u.w /\ 2 ^ u.w <= 2 ^ W /\ 2 ^ u.w \in Nat /\ 2 ^ W \in Nat
      BY <1>1, <1>2, <3>1, FitsRange, PowerGrows, PowerNat
    <3>3. n \in 0 .. 2 ^ W - 1
      BY <1>1, <3>2
    <3>4. Bits(n, W) = n
      BY <1>2, <3>3, BitsOfSmall
    <3> QED BY <1>1, <1>2, <1>3, <1>4, <2>2, <3>1, <3>4 DEF IntCast
  <2> QED BY <2>1, <2>2
<1>5. CASE ~ (W > u.w)
  <2>1. IntCast(a, Wide) = [t |-> Wide, v |-> Bits(a.v, W)]
    BY <1>1, <1>2, <1>5 DEF IntCast
  <2>2. Bits(Bits(n, u.w), W) = Bits(n, W)
    BY <1>1, <1>2, <1>5, BitsNarrow
  <2> QED BY <1>1, <1>3, <2>1, <2>2
<1> QED BY <1>4, <1>5

LEMMA FromWide ==
  ASSUME NEW t \in Results, NEW n \in Int
  PROVE  DoCast([t |-> Wide, v |-> Bits(n, W)], t) = [t |-> t, v |-> Bits(n, W)]
<1> DEFINE a == [t |-> Wide, v |-> Bits(n, W)]
<1>1. a.t = Wide /\ a.v = Bits(n, W)
  OBVIOUS
<1> HIDE DEF a
<1>2. DoCast(a, t) = IntCast(a, t)
  <2>1. IsInt(a.t) /\ IsInt(t) /\ a.t # t /\ ~ IsFloat(t) /\ ~ IsFloat(a.t)
    BY <1>1, ResultTypes
  <2> QED BY <2>1, Zenon DEF DoCast
<1>3. IntCast(a, t) = [t |-> t, v |-> Bits(a.v, W)]
  BY <1>1, ResultTypes DEF IntCast
<1>4. Bits(Bits(n, W), W) = Bits(n, W)
  BY ResultTypes, BitsNarrow
<1> QED BY <1>1, <1>2, <1>3, <1>4 DEF a

(***************************************************************************)
(* The operators on two operands of the common type.                       *)
(***************************************************************************)

LEMMA ArithHolds ==
  ASSUME NEW op \in {"+", "-", "*"}, NEW f \in Ints, NEW t \in Results,
         NEW c, NEW n, Holds(c, f, n), NEW d, NEW m, Holds(d, f, m)
  PROVE  ReplaceOp(op, c, d, t) = [t |-> t, v |-> Bits(Python(op, n, m), W)]
<1>1. DoCast(c, Wide) = [t |-> Wide, v |-> Bits(n, W)] /\ DoCast(d, Wide) = [t |-> Wide, v |-> Bits(m, W)]
  BY ToWide
<1>2. n \in Int /\ m \in Int /\ W \in Nat /\ W > 1
  BY ReadHolds, ResultTypes
<1> DEFINE p == Bits(n, W)  q == Bits(m, W)
           r == CASE op = "+" -> p + q [] op = "-" -> p - q [] op = "*" -> p * q
<1>3. ArithI(op, DoCast(c, Wide), DoCast(d, Wide)) = FromInt(r, Wide)
  BY <1>1 DEF ArithI
<1>4. Bits(r, W) = Bits(Python(op, n, m), W)
  BY <1>2, BitsArith DEF Python
<1>5. Python(op, n, m) \in Int
  BY <1>2 DEF Python
<1> HIDE DEF r
<1>6. FromInt(r, Wide) = [t |-> Wide, v |-> Bits(r, W)]
  BY ResultTypes DEF FromInt
<1>7. ReplaceOp(op, c, d, t) = DoCast([t |-> Wide, v |-> Bits(r, W)], t)
  BY <1>3, <1>6, ResultTypes DEF ReplaceOp
<1> QED BY <1>4, <1>5, <1>7, FromWide

LEMMA FloorDivInt ==
  ASSUME NEW n \in Int, NEW m \in Int, m # 0
  PROVE  FloorDiv(n, m) \in Int
<1>1. CASE m > 0
  BY <1>1, DivMod DEF FloorDiv
<1>2. CASE m < 0
  <2>1. -n \in Int /\ -m \in Nat /\ -m > 0
    BY <1>2
  <2> QED BY <1>2, <2>1, DivMod DEF FloorDiv
<1> QED BY <1>1, <1>2

\* The bits of a number of int64, read as the signed operations do.
LEMMA WideSigned ==
  ASSUME NEW n \in Int, Fits(n, Int64)
  PROVE  AsSigned([t |-> Wide, v |-> Bits(n, W)]) = n
<1>1. Int64 \in IntTypes /\ Int64.w = W /\ Int64.k = "si" /\ W \in Nat /\ W > 0
  BY WidthsAssumption DEF Int64, IntTypes, Ints, Type
<1>2. n \in -(2 ^ (W - 1)) .. 2 ^ (W - 1) - 1
  BY <1>1, FitsRange
<1>3. Signed(Bits(n, W), W) = n
  BY <1>1, <1>2, SignedBits
<1>4. Wide.w = W
  BY DEF Wide, Type
<1> QED BY <1>3, <1>4 DEF AsSigned

LEMMA FloorHolds ==
  ASSUME NEW f \in Ints, NEW t \in Results,
         NEW c, NEW n, Holds(c, f, n), NEW d, NEW m, Holds(d, f, m),
         m # 0, Fits(n, t), Fits(m, t)
  PROVE  ReplaceIfloordiv(c, d, t) = [t |-> t, v |-> Bits(Python("//", n, m), W)]
<1>1. DoCast(c, Wide) = [t |-> Wide, v |-> Bits(n, W)] /\ DoCast(d, Wide) = [t |-> Wide, v |-> Bits(m, W)]
  BY ToWide
<1>2. n \in Int /\ m \in Int /\ W \in Nat /\ W > 1 /\ MakeSignless(t) = Wide
  BY ReadHolds, ResultTypes
<1>3. FloorDiv(n, m) \in Int /\ Python("//", n, m) = FloorDiv(n, m)
  BY <1>2, FloorDivInt DEF Python
<1>4. FromInt(FloorDiv(n, m), Wide) = [t |-> Wide, v |-> Bits(FloorDiv(n, m), W)]
  BY ResultTypes DEF FromInt
<1>5. CASE t.k = "si"
  <2>1. t = Int64
    BY <1>5, ResultTypes, TypeCases DEF Int64
  <2>2. AsSigned(DoCast(c, Wide)) = n /\ AsSigned(DoCast(d, Wide)) = m
    BY <1>1, <1>2, <2>1, WideSigned
  <2>3. ArithI("floordivi_signed", DoCast(c, Wide), DoCast(d, Wide)) = FromInt(FloorDiv(n, m), Wide)
    BY <1>1, <2>2 DEF ArithI
  <2>4. ReplaceIfloordiv(c, d, t) = DoCast([t |-> Wide, v |-> Bits(FloorDiv(n, m), W)], t)
    BY <1>2, <1>4, <1>5, <2>3 DEF ReplaceIfloordiv
  <2> QED BY <1>3, <2>4, FromWide
<1>6. CASE t.k = "ui"
  <2>1. 0 <= n /\ n < 2 ^ W /\ 0 <= m /\ m < 2 ^ W /\ 2 ^ W \in Nat
    BY <1>2, <1>6, ResultTypes, FitsRange
  <2>2. n \in 0 .. 2 ^ W - 1 /\ m \in 0 .. 2 ^ W - 1
    BY <1>2, <2>1
  <2>3. Bits(n, W) = n /\ Bits(m, W) = m
    BY <1>2, <2>2, BitsOfSmall
  <2>4. n \div m = FloorDiv(n, m)
    BY <1>2, <2>1 DEF FloorDiv
  <2>5. ArithI("divi_unsigned", DoCast(c, Wide), DoCast(d, Wide)) = FromInt(FloorDiv(n, m), Wide)
    BY <1>1, <2>3, <2>4 DEF ArithI
  <2>6. ReplaceIfloordiv(c, d, t) = DoCast([t |-> Wide, v |-> Bits(FloorDiv(n, m), W)], t)
    BY <1>2, <1>4, <1>6, <2>5 DEF ReplaceIfloordiv
  <2> QED BY <1>3, <2>6, FromWide
<1> QED BY <1>5, <1>6, ResultTypes

\* The remainder of the division that rounds towards zero is smaller than the divisor, and
\* has the sign of the dividend.
LEMMA TruncRemainder ==
  ASSUME NEW n \in Int, NEW m \in Int, m # 0
  PROVE  /\ TruncDiv(n, m) \in Int
         /\ n - m * TruncDiv(n, m) \in Int
         /\ Abs(n - m * TruncDiv(n, m)) < Abs(m)
         /\ n >= 0 => n - m * TruncDiv(n, m) >= 0
         /\ n <= 0 => n - m * TruncDiv(n, m) <= 0
<1> DEFINE M == Abs(m)  A == Abs(n)  q == A \div M  s == A % M
<1>1. M \in Nat /\ M > 0 /\ A \in Nat
  BY DEF Abs
<1>2. q \in Int /\ s \in Int /\ A = M * q + s /\ 0 <= s /\ s < M
  <2> HIDE DEF M, A
  <2> QED BY <1>1, DivMod
<1>3. TruncDiv(n, m) = (IF (n < 0) = (m < 0) THEN 1 ELSE -1) * q
  BY DEF TruncDiv
<1>4. (m > 0 /\ M = m) \/ (m < 0 /\ M = -m)
  BY DEF Abs
<1>5. (n >= 0 /\ A = n) \/ (n < 0 /\ A = -n)
  BY DEF Abs
<1> HIDE DEF q, s, M, A
<1>6. CASE (n < 0) = (m < 0)
  <2>1. TruncDiv(n, m) = q
    BY <1>2, <1>3, <1>6
  <2>2. n - m * q \in Int /\ ((n >= 0 /\ n - m * q = s) \/ (n < 0 /\ n - m * q = -s))
    <3>1. m * q \in Int /\ (-m) * q = -(m * q)
      BY <1>2, SMT
    <3>2. A = (IF m > 0 THEN m * q ELSE -(m * q)) + s
      BY <1>2, <1>4, <3>1
    <3> QED BY <1>2, <1>4, <1>5, <1>6, <3>1, <3>2
  <2>3. Abs(n - m * q) < M /\ (n >= 0 => n - m * q >= 0) /\ (n <= 0 => n - m * q <= 0)
    BY <1>1, <1>2, <1>5, <2>2 DEF Abs
  <2> QED BY <1>2, <2>1, <2>2, <2>3 DEF M
<1>7. CASE (n < 0) # (m < 0)
  <2>1. TruncDiv(n, m) = -q
    BY <1>2, <1>3, <1>7
  <2>2. n - m * (-q) \in Int /\ ((n >= 0 /\ n - m * (-q) = s) \/ (n < 0 /\ n - m * (-q) = -s))
    <3>1. m * q \in Int /\ (-m) * q = -(m * q) /\ m * (-q) = -(m * q)
      BY <1>2, SMT
    <3>2. A = (IF m > 0 THEN m * q ELSE -(m * q)) + s
      BY <1>2, <1>4, <3>1
    <3> QED BY <1>2, <1>4, <1>5, <1>7, <3>1, <3>2
  <2>3. Abs(n - m * (-q)) < M /\ (n >= 0 => n - m * (-q) >= 0) /\ (n <= 0 => n - m * (-q) <= 0)
    BY <1>1, <1>2, <1>5, <2>2 DEF Abs
  <2> QED BY <1>2, <2>1, <2>2, <2>3 DEF M
<1> QED BY <1>6, <1>7

\* Python's remainder is the one with the sign of the divisor.
LEMMA FloorRemainder ==
  ASSUME NEW n \in Int, NEW m \in Int, m # 0, NEW k \in Int, NEW v \in Int, v = n - m * k,
         Abs(v) < Abs(m), m > 0 => v >= 0, m < 0 => v <= 0
  PROVE  v = n - m * FloorDiv(n, m)
<1>1. CASE m > 0
  <2>1. m \in Nat /\ v \in 0 .. m - 1 /\ n = k * m + v
    BY <1>1 DEF Abs
  <2>2. n \div m = k
    BY <1>1, <2>1, ModUnique
  <2> QED BY <1>1, <2>2 DEF FloorDiv
<1>2. CASE m < 0
  <2>1. -m \in Nat /\ -m > 0 /\ -v \in 0 .. (-m) - 1 /\ -n = k * (-m) + (-v) /\ -n \in Int
    BY <1>2 DEF Abs
  <2>2. (-n) \div (-m) = k
    BY <2>1, ModUnique
  <2> QED BY <1>2, <2>2 DEF FloorDiv
<1> QED BY <1>1, <1>2

\* remi_signed of two numbers of int64.
LEMMA WideRemainder ==
  ASSUME NEW n \in Int, NEW m \in Int, Fits(n, Int64), Fits(m, Int64), m # 0
  PROVE  ArithI("remi_signed", [t |-> Wide, v |-> Bits(n, W)], [t |-> Wide, v |-> Bits(m, W)])
           = [t |-> Wide, v |-> Bits(n - m * TruncDiv(n, m), W)]
<1> DEFINE a == [t |-> Wide, v |-> Bits(n, W)]  b == [t |-> Wide, v |-> Bits(m, W)]
<1>1. AsSigned(a) = n /\ AsSigned(b) = m /\ a.t = Wide
  BY WideSigned
<1> HIDE DEF a, b
<1>2. ArithI("remi_signed", a, b) = FromInt(n - m * TruncDiv(n, m), Wide)
  BY <1>1 DEF ArithI
<1>3. FromInt(n - m * TruncDiv(n, m), Wide) = [t |-> Wide, v |-> Bits(n - m * TruncDiv(n, m), W)]
  BY DEF FromInt, Wide, Type, IsFloat
<1> QED BY <1>2, <1>3 DEF a, b

\* The bound on the divisor keeps the sum of the first remainder and the divisor in range.
LEMMA ModHolds ==
  ASSUME NEW c, NEW n, Holds(c, Int64, n), NEW d, NEW m, Holds(d, Int64, m),
         m # 0, Abs(m) <= 2 ^ (W - 2)
  PROVE  ReplaceImod(c, d, Int64) = [t |-> Int64, v |-> Bits(Python("%", n, m), W)]
<1>1. /\ Int64 \in Ints /\ Int64 \in Results /\ Int64 \in IntTypes /\ Int64.w = W /\ Int64.k = "si"
      /\ MakeSignless(Int64) = Wide /\ W \in Nat /\ W > 1 /\ Wide.w = W /\ ~ IsFloat(Wide)
  BY WidthsAssumption DEF Int64, Ints, Results, IntTypes, MakeSignless, IsInt, IsFloat, Wide, Type
<1>2. n \in Int /\ m \in Int /\ Fits(n, Int64) /\ Fits(m, Int64) /\ c.t = Int64
  BY ReadHolds
<1>3. DoCast(c, Wide) = [t |-> Wide, v |-> Bits(n, W)] /\ DoCast(d, Wide) = [t |-> Wide, v |-> Bits(m, W)]
  BY <1>1, ToWide
<1> DEFINE r == n - m * TruncDiv(n, m)
           v == (r + m) - m * TruncDiv(r + m, m)
<1>4. r \in Int /\ TruncDiv(n, m) \in Int /\ Abs(r) < Abs(m)
  BY <1>2, TruncRemainder
<1>5. ArithI("remi_signed", DoCast(c, Wide), DoCast(d, Wide)) = [t |-> Wide, v |-> Bits(r, W)]
  BY <1>2, <1>3, WideRemainder
<1>6. Python("%", n, m) = n - m * FloorDiv(n, m)
  BY DEF Python
<1>7. r = n - m * TruncDiv(n, m)
  OBVIOUS
<1> HIDE DEF r
<1>8. /\ v \in Int /\ TruncDiv(r + m, m) \in Int /\ Abs(v) < Abs(m)
      /\ r + m >= 0 => v >= 0
      /\ r + m <= 0 => v <= 0
  <2> DEFINE z == r + m
  <2>1. z \in Int
    BY <1>2, <1>4
  <2> HIDE DEF z
  <2>2. /\ z - m * TruncDiv(z, m) \in Int /\ TruncDiv(z, m) \in Int
        /\ Abs(z - m * TruncDiv(z, m)) < Abs(m)
        /\ z >= 0 => z - m * TruncDiv(z, m) >= 0
        /\ z <= 0 => z - m * TruncDiv(z, m) <= 0
    BY <1>2, <2>1, TruncRemainder
  <2> QED BY <2>2, Zenon DEF z
<1>9. Fits(r + m, Int64)
  <2>1. 2 ^ (W - 1) = 2 * 2 ^ (W - 2) /\ 2 ^ (W - 2) \in Nat
    <3>1. W - 1 \in Nat /\ W - 1 > 0 /\ (W - 1) - 1 = W - 2
      BY <1>1
    <3>2. 2 ^ (W - 1) = 2 * 2 ^ ((W - 1) - 1) /\ 2 ^ ((W - 1) - 1) \in Nat
      BY <3>1, PowerHalf
    <3> QED BY <3>1, <3>2
  <2> DEFINE Q == 2 ^ (W - 2)
  <2>2. Q \in Nat /\ Abs(m) <= Q /\ 2 ^ (W - 1) = 2 * Q
    BY <2>1
  <2> HIDE DEF Q
  <2>3. - (2 * Q) <= r + m /\ r + m < 2 * Q /\ r + m \in Int
    BY <1>2, <1>4, <2>2 DEF Abs
  <2>4. - (2 ^ (W - 1)) <= r + m /\ r + m < 2 ^ (W - 1) /\ r + m \in Int
    BY <2>2, <2>3
  <2> QED BY <1>1, <2>4, FitsRange
<1>10. ArithI("+", [t |-> Wide, v |-> Bits(r, W)], [t |-> Wide, v |-> Bits(m, W)])
         = [t |-> Wide, v |-> Bits(r + m, W)]
  <2>1. Bits(Bits(r, W) + Bits(m, W), W) = Bits(r + m, W)
    BY <1>1, <1>2, <1>4, BitsArith
  <2>2. ArithI("+", [t |-> Wide, v |-> Bits(r, W)], [t |-> Wide, v |-> Bits(m, W)])
          = FromInt(Bits(r, W) + Bits(m, W), Wide)
    BY DEF ArithI
  <2> QED BY <1>1, <2>1, <2>2 DEF FromInt
<1>11. ArithI("remi_signed", [t |-> Wide, v |-> Bits(r + m, W)], [t |-> Wide, v |-> Bits(m, W)])
         = [t |-> Wide, v |-> Bits(v, W)]
  BY <1>2, <1>4, <1>9, WideRemainder
<1>12. ReplaceImod(c, d, Int64) = DoCast([t |-> Wide, v |-> Bits(v, W)], Int64)
  BY <1>1, <1>2, <1>3, <1>5, <1>10, <1>11 DEF ReplaceImod
<1>13. v = n - m * FloorDiv(n, m)
  <2> DEFINE k == TruncDiv(n, m) + TruncDiv(r + m, m) - 1
  <2>1. k \in Int /\ v = n - m * k
    <3> DEFINE i == TruncDiv(n, m)  j == TruncDiv(r + m, m)
    <3>1. i \in Int /\ j \in Int /\ r = n - m * i /\ v = (r + m) - m * j
      BY <1>4, <1>7, <1>8
    <3> HIDE DEF i, j, v
    <3>2. m * (i + j - 1) = m * i + m * j - m /\ m * i \in Int /\ m * j \in Int
      BY <1>2, <3>1, SMT
    <3>3. i + j - 1 \in Int /\ v = n - m * (i + j - 1)
      BY <1>2, <1>4, <3>1, <3>2
    <3> QED BY <3>3 DEF i, j
  <2> HIDE DEF k, v
  <2>2. (m > 0 => v >= 0) /\ (m < 0 => v <= 0)
    BY <1>2, <1>4, <1>8 DEF Abs
  <2> QED BY <1>2, <1>8, <2>1, <2>2, FloorRemainder
<1> HIDE DEF v
<1> QED BY <1>1, <1>6, <1>8, <1>12, <1>13, FromWide

\* The signed remainders of two bools, where True is -1.
LEMMA ModBoolHolds ==
  ASSUME NEW c, NEW n, Holds(c, Bool, n), NEW d, NEW m, Holds(d, Bool, m), m # 0, NEW t \in Results
  PROVE  ReplaceImod(c, d, t) = [t |-> t, v |-> Bits(Python("%", n, m), W)]
<1>1. /\ Bool \in IntTypes /\ Bool.w = 1 /\ Bool.k = "i" /\ MakeSignless(Bool) = Bool
      /\ 2 ^ 1 = 2 /\ 2 ^ 0 = 1 /\ ~ IsFloat(Bool) /\ IsInt(Bool) /\ Bool # t
  <2>1. 2 ^ 1 = 2 /\ 2 ^ 0 = 1
    BY SMT
  <2> QED BY <2>1, ResultTypes DEF Bool, Type, IntTypes, Ints, MakeSignless, IsInt, IsFloat
<1>2. n \in {0, 1} /\ m = 1
  <2>1. n \in Int /\ m \in Int /\ Fits(n, Bool) /\ Fits(m, Bool)
    BY ReadHolds
  <2>2. 0 <= n /\ n < 2 /\ 0 <= m /\ m < 2
    BY <1>1, <2>1, FitsRange
  <2> QED BY <2>1, <2>2
<1>3. Bits(0, 1) = 0 /\ Bits(1, 1) = 1
  <2>1. 0 \in 0 .. 2 ^ 1 - 1 /\ 1 \in 0 .. 2 ^ 1 - 1 /\ 1 \in Nat
    BY <1>1
  <2> QED BY <2>1, BitsOfSmall
<1>4. c = [t |-> Bool, v |-> n] /\ d = [t |-> Bool, v |-> 1]
  <2>1. c = [t |-> Bool, v |-> Bits(n, 1)] /\ d = [t |-> Bool, v |-> Bits(m, 1)]
    BY <1>1 DEF Holds
  <2> QED BY <1>2, <1>3, <2>1
<1>5. \A k \in {0, 1} : ArithI("remi_signed", [t |-> Bool, v |-> k], d) = [t |-> Bool, v |-> 0]
  <2> TAKE k \in {0, 1}
  <2>1. Signed(k, 1) = -k /\ Signed(1, 1) = -1
    BY <1>1 DEF Signed
  <2>2. -k - (-1) * TruncDiv(-k, -1) = 0
    BY DEF TruncDiv, Abs
  <2>3. AsSigned([t |-> Bool, v |-> k]) = -k /\ AsSigned(d) = -1
    BY <1>1, <1>4, <2>1 DEF AsSigned
  <2>4. ArithI("remi_signed", [t |-> Bool, v |-> k], d) = FromInt(-k - (-1) * TruncDiv(-k, -1), Bool)
    BY <2>3 DEF ArithI
  <2> QED BY <1>1, <1>3, <2>2, <2>4 DEF FromInt
<1>6. DoCast(c, Bool) = c /\ DoCast(d, Bool) = d
  BY <1>1, <1>4, CastCases
<1>7. ArithI("+", [t |-> Bool, v |-> 0], d) = [t |-> Bool, v |-> 1]
  BY <1>1, <1>3, <1>4 DEF ArithI, FromInt
<1>8. ArithI("remi_signed", c, d) = [t |-> Bool, v |-> 0]
  BY <1>2, <1>4, <1>5
<1>9. ArithI("remi_signed", [t |-> Bool, v |-> 1], d) = [t |-> Bool, v |-> 0]
  BY <1>5
<1>10. ReplaceImod(c, d, t) = DoCast([t |-> Bool, v |-> 0], t)
  BY <1>1, <1>4, <1>6, <1>7, <1>8, <1>9 DEF ReplaceImod
<1>11. DoCast([t |-> Bool, v |-> 0], t) = [t |-> t, v |-> 0]
  <2>1. DoCast([t |-> Bool, v |-> 0], t) = IntCast([t |-> Bool, v |-> 0], t)
    BY <1>1, ResultTypes, CastCases DEF Bool, Index, Type
  <2> QED BY <1>1, <2>1, ResultTypes DEF IntCast
<1>12. Python("%", n, m) = 0
  BY <1>2 DEF Python, FloorDiv
<1>13. Bits(0, W) = 0
  <2>1. 0 \in 0 .. 2 ^ W - 1 /\ W \in Nat
    BY ResultTypes, PowerNat
  <2> QED BY <2>1, BitsOfSmall
<1> QED BY <1>10, <1>11, <1>12, <1>13

\* A power takes the way over the float type.
LEMMA PowerHolds ==
  ASSUME NEW f \in Ints, NEW t \in Results,
         NEW c, NEW n, Holds(c, f, n), NEW d, NEW m, Holds(d, f, m),
         Round(n, P64) = n, Round(m, P64) = m,
         Round(Python("**", n, m), P64) = Python("**", n, m)
  PROVE  ReplaceIpow(c, d, t) = [t |-> t, v |-> Bits(Python("**", n, m), W)]
<1>1. f \in IntTypes /\ f.k \in {"i", "si", "ui"} /\ f # Float64 /\ IsInt(f) /\ ~ IsFloat(f)
  BY DEF IntTypes, Ints, Bool, Float64, Type, IsInt, IsFloat
<1>2. IsFloat(Float64) /\ ~ IsInt(Float64) /\ Float64.w = P64
  BY DEF Float64, Type, IsInt, IsFloat
<1>3. ASSUME NEW a, NEW k, Holds(a, f, k), Round(k, P64) = k
      PROVE  DoCast(a, Float64) = [t |-> Float64, v |-> k]
  <2>1. a.t = f /\ (f.k = "si" => AsSigned(a) = k) /\ (f.k # "si" => a.v = k)
    BY <1>1, <1>3, ReadHolds
  <2>2. DoCast(a, Float64) = IntFloatCast(a, Float64)
    BY <1>1, <1>2, <2>1, Zenon DEF DoCast
  <2>3. IntFloatCast(a, Float64) = FromInt(k, Float64)
    BY <2>1 DEF IntFloatCast
  <2> QED BY <1>2, <1>3, <2>2, <2>3 DEF FromInt
<1>4. DoCast(c, Float64) = [t |-> Float64, v |-> n] /\ DoCast(d, Float64) = [t |-> Float64, v |-> m]
  BY <1>3
<1>5. Python("**", n, m) = Power(n, m)
  BY DEF Python
<1> DEFINE p == Power(n, m)
<1> HIDE DEF p
<1>6. ArithF("**", DoCast(c, Float64), DoCast(d, Float64)) = FromInt(p, Float64)
  BY <1>4 DEF ArithF, p
<1>7. FromInt(p, Float64) = [t |-> Float64, v |-> p]
  BY <1>2, <1>5 DEF FromInt, p
<1>8. ReplaceIpow(c, d, t) = DoCast([t |-> Float64, v |-> p], t)
  BY <1>6, <1>7 DEF ReplaceIpow
<1>9. DoCast([t |-> Float64, v |-> p], t) = FloatIntCast([t |-> Float64, v |-> p], t)
  <2> DEFINE a == [t |-> Float64, v |-> p]
  <2>1. a.t = Float64 /\ Float64 # t /\ IsFloat(Float64) /\ ~ IsInt(Float64) /\ IsInt(t) /\ ~ IsFloat(t)
    BY <1>2, ResultTypes
  <2> HIDE DEF a
  <2>2. DoCast(a, t) = FloatIntCast(a, t)
    BY <2>1, Zenon DEF DoCast
  <2> QED BY <2>2 DEF a
<1>10. FloatIntCast([t |-> Float64, v |-> p], t) = [t |-> t, v |-> Bits(p, W)]
  BY ResultTypes DEF FloatIntCast, FromInt
<1> QED BY <1>5, <1>8, <1>9, <1>10 DEF p

LEMMA CompareHolds ==
  ASSUME NEW op \in Relations, NEW f \in Ints,
         NEW c, NEW n, Holds(c, f, n), NEW d, NEW m, Holds(d, f, m)
  PROVE  ReplaceCmpi(op, c, d) = [t |-> Bool, v |-> Python(op, n, m)] /\ Python(op, n, m) \in {0, 1}
<1>1. f \in IntTypes /\ f.k \in {"i", "si", "ui"}
  BY DEF IntTypes, Ints, Bool, Type
<1>2. /\ c.t = f
      /\ f.k = "si" => AsSigned(c) = n /\ AsSigned(d) = m
      /\ f.k # "si" => c.v = n /\ d.v = m
  BY <1>1, ReadHolds
<1>3. ReplaceCmpi(op, c, d) = Truth(Relation(op, n, m))
  BY <1>2 DEF ReplaceCmpi
<1>4. Python(op, n, m) = IF Relation(op, n, m) THEN 1 ELSE 0
  BY DEF Python, Relations
<1> QED BY <1>3, <1>4 DEF Truth

(***************************************************************************)
(* The operators on operands of any two integer types.                     *)
(***************************************************************************)

LEMMA IncludesFits ==
  ASSUME NEW t \in IntTypes, NEW u \in IntTypes, <<t, u>> \in Inclusions, NEW n, Fits(n, u)
  PROVE  Fits(n, t)
<1>1. Includes(t, u)
  BY DEF Inclusions
<1>2. n \in Ranged(u) => n \in Ranged(t)
  BY <1>1, TypeCases, Zenon DEF Includes
<1> QED BY <1>2, RangedFits, FitsInt

LEMMA FinalTypes ==
  ASSUME NEW t \in Ints, NEW u \in Ints
  PROVE  FinalType(t, u) \in {t, u} /\ FinalType(t, u) \in Ints
<1>1. ~ IsFloat(t) /\ ~ IsFloat(u)
  BY TypeCases DEF IntTypes
<1> QED BY <1>1 DEF FinalType, Coerce

\* Numba's result type of integers has the operands' numbers, when their common type has.
LEMMA ResultFits ==
  ASSUME NEW t \in Ints, NEW u \in Ints,
         <<FinalType(t, u), t>> \in Inclusions, <<FinalType(t, u), u>> \in Inclusions
  PROVE  /\ ResultInt({t, u}) \in Results
         /\ \A n : Fits(n, t) \/ Fits(n, u) => Fits(n, ResultInt({t, u}))
<1> DEFINE r == ResultInt({t, u})  H == 2 ^ (W - 1)
<1>1. r \in Results /\ (r.k = "ui" <=> "ui" \in {t.k, u.k} /\ "si" \notin {t.k, u.k})
  BY DEF ResultInt, Results, Type
<1>2. /\ r \in IntTypes /\ r.w = W /\ r.k \in {"si", "ui"}
      /\ 2 ^ W = 2 * H /\ H \in Nat /\ H > 0 /\ W \in Nat
  BY <1>1, ResultTypes, PowerHalf
<1>3. \A k \in IntTypes : k.w \in Nat /\ k.w > 0 /\ 2 ^ (k.w - 1) \in Nat /\ 2 ^ k.w \in Nat
  BY TypeCases, FitsRange, 0 \in Int
<1>4. t \in IntTypes /\ u \in IntTypes
  BY DEF IntTypes
<1>5. \A k \in Ints : k.k \in {"i", "si", "ui"} /\ k.w <= W /\ (k.w < W => 2 ^ k.w <= H)
  <2> TAKE k \in Ints
  <2>1. k.k \in {"i", "si", "ui"} /\ k.w <= W /\ k.w \in Nat /\ W \in Nat
    BY WidthsAssumption DEF Ints, Bool, Type
  <2>2. ASSUME k.w < W PROVE 2 ^ k.w <= 2 ^ (W - 1)
    <3>1. W - 1 \in Nat /\ k.w <= W - 1
      BY <2>1, <2>2
    <3> QED BY <2>1, <3>1, PowerGrows
  <2> QED BY <2>1, <2>2
<1>6. ASSUME NEW k \in {t, u}, NEW n, Fits(n, k) PROVE Fits(n, r)
  <2>1. k \in Ints /\ k \in IntTypes /\ n \in Int
    BY <1>4, <1>6, FitsInt
  <2>2. CASE k.k = "si"
    <3>1. - (2 ^ (k.w - 1)) <= n /\ n < 2 ^ (k.w - 1) /\ 2 ^ (k.w - 1) \in Nat
      BY <1>6, <2>1, <2>2, FitsRange
    <3>2. 2 ^ (k.w - 1) <= H
      <4>1. k.w - 1 \in Nat /\ W - 1 \in Nat /\ k.w - 1 <= W - 1
        BY <1>2, <1>3, <1>5, <2>1
      <4> QED BY <4>1, PowerGrows
    <3>3. r.k = "si"
      BY <1>1, <1>2, <1>6, <2>2
    <3>4. - H <= n /\ n < H
      BY <1>2, <2>1, <3>1, <3>2
    <3> QED BY <1>2, <2>1, <3>3, <3>4, FitsRange
  <2>3. CASE k.k # "si"
    <3>1. 0 <= n /\ n < 2 ^ k.w /\ 2 ^ k.w \in Nat
      BY <1>5, <1>6, <2>1, <2>3, FitsRange
    <3>2. CASE r.k = "ui"
      <4>1. 2 ^ k.w <= 2 ^ W
        BY <1>2, <1>3, <1>5, <2>1, PowerGrows
      <4>2. 0 <= n /\ n < 2 ^ W
        BY <1>2, <2>1, <3>1, <4>1
      <4> QED BY <1>2, <2>1, <3>2, <4>2, FitsRange
    <3>3. CASE r.k = "si" /\ k.w < W
      <4>1. - H <= n /\ n < H
        BY <1>2, <1>5, <2>1, <3>1, <3>3
      <4> QED BY <1>2, <2>1, <3>3, <4>1, FitsRange
    \* An unsigned and a signed integer of full width have no common type.
    <3>4. CASE r.k = "si" /\ ~ (k.w < W)
      <4>1. k.w = W /\ k # Bool
        <5>1. k.w = W
          BY <1>2, <1>3, <1>5, <2>1, <3>4
        <5> QED BY <5>1, WidthsAssumption DEF Bool, Type
      <4>2. k.k = "ui"
        BY <2>1, <2>3, <4>1 DEF Ints, Type
      <4>3. PICK j \in {t, u} : j.k = "si"
        BY <1>1, <1>6, <3>4, <4>2
      <4>4. Fits(-1, j)
        <5>1. 2 ^ (j.w - 1) \in Nat /\ 2 ^ (j.w - 1) > 0
          BY <1>4, FitsRange, 0 \in Int
        <5>2. - (2 ^ (j.w - 1)) <= -1 /\ -1 < 2 ^ (j.w - 1) /\ -1 \in Int
          BY <5>1
        <5> QED BY <1>4, <4>3, <5>2, FitsRange
      <4>5. ~ Fits(-1, k)
        BY <2>1, <4>2, -1 \in Int, FitsRange
      <4>6. Fits(2 ^ W - 1, k)
        <5>1. 0 <= 2 ^ W - 1 /\ 2 ^ W - 1 < 2 ^ W /\ 2 ^ W - 1 \in Int
          BY <1>2
        <5> QED BY <2>1, <4>1, <4>2, <5>1, FitsRange
      <4>7. ~ Fits(2 ^ W - 1, j)
        <5>1. 2 ^ (j.w - 1) <= H /\ 2 ^ (j.w - 1) \in Nat
          <6>1. j.w - 1 \in Nat /\ W - 1 \in Nat /\ j.w - 1 <= W - 1
            BY <1>2, <1>3, <1>4, <1>5
          <6> QED BY <6>1, PowerGrows, PowerNat
        <5>2. ~ (2 ^ W - 1 < 2 ^ (j.w - 1)) /\ 2 ^ W - 1 \in Int
          BY <1>2, <5>1
        <5> QED BY <1>4, <4>3, <5>2, FitsRange
      <4>8. FinalType(t, u) \in {j, k} /\ <<FinalType(t, u), j>> \in Inclusions /\ <<FinalType(t, u), k>> \in Inclusions
        BY <1>6, <4>2, <4>3, FinalTypes
      <4> QED BY <1>4, <2>1, <4>4, <4>5, <4>6, <4>7, <4>8, IncludesFits
    <3> QED BY <1>2, <3>2, <3>3, <3>4
  <2> QED BY <2>2, <2>3
<1> QED BY <1>1, <1>6

IntOps == {"+", "-", "*", "**", "//", "%"} \cup Relations

\* An operator on numbers of any two integer types gives the number Python computes.
LEMMA BinOpHolds ==
  ASSUME NEW op \in IntOps,
         NEW t \in Ints, NEW a, NEW n, Holds(a, t, n),
         NEW u \in Ints, NEW b, NEW m, Holds(b, u, m),
         Meant(op, a, b), Defined(op, n, m, ResultType(op, t, u))
  PROVE  /\ ResultType(op, t, u) \in Ints
         /\ Holds(BinOpLowering(op, a, b, ResultType(op, t, u)), ResultType(op, t, u),
                  Result(op, n, m, ResultType(op, t, u)))
<1> DEFINE f == FinalType(t, u)  r == ResultType(op, t, u)  c == DoCast(a, f)  d == DoCast(b, f)
<1>1. /\ t \in IntTypes /\ u \in IntTypes /\ f \in Ints /\ f \in IntTypes /\ f \in {t, u}
      /\ t # Index /\ u # Index /\ f # Index /\ IsInt(f) /\ ~ IsFloat(f) /\ ~ IsFloat(t) /\ ~ IsFloat(u)
  <2>1. f \in Ints /\ f \in {t, u}
    BY FinalTypes
  <2>2. \A k \in Ints : k \in IntTypes /\ k # Index /\ IsInt(k) /\ ~ IsFloat(k)
    BY DEF IntTypes, Ints, Index, Bool, Type, IsInt, IsFloat
  <2> HIDE DEF f
  <2> QED BY <2>1, <2>2
<1>2. /\ a.t = t /\ n \in Int /\ Fits(n, t) /\ Read(a) = n
      /\ b.t = u /\ m \in Int /\ Fits(m, u) /\ Read(b) = m
  BY ReadHolds
<1>3. op # "cast" /\ op # "/"
  BY DEF IntOps, Relations
<1>4. /\ <<f, t>> \in Inclusions /\ <<f, u>> \in Inclusions
      /\ op = "%" => f \in {Int64, Bool} /\ Abs(m) <= 2 ^ (W - 2)
      /\ op = "**" => Round(n, P64) = n /\ Round(m, P64) = m
                      /\ Round(Python(op, n, m), P64) = Python(op, n, m)
  <2>1. /\ {<<f, t>>, <<f, u>>} \subseteq Inclusions
        /\ op = "%" => /\ f \in {Int64, Bool} \cup Floats
                       /\ Abs(m) <= IF IsFloat(f) THEN 2 ^ (f.w - 1) ELSE 2 ^ (W - 2)
        /\ op \in {"**", "/"} =>
             /\ ExactFloat(a, Float64) /\ ExactFloat(b, Float64)
             /\ op = "**" => Round(Python(op, n, m), P64) = Python(op, n, m)
    BY <1>2, <1>3, Zenon DEF Meant
  <2>2. ExactFloat(a, Float64) => Round(n, P64) = n
    BY <1>2 DEF ExactFloat, Float64, Type, IsFloat
  <2>3. ExactFloat(b, Float64) => Round(m, P64) = m
    BY <1>2 DEF ExactFloat, Float64, Type, IsFloat
  <2>4. f \notin Floats
    BY <1>1 DEF Floats, Float64, Type, IsFloat
  <2> QED BY <1>1, <2>1, <2>2, <2>3, <2>4
<1>5. /\ op \in {"//", "%"} => m # 0
      /\ Fits(Python(op, n, m), r)
  BY DEF Defined
<1>6. Holds(c, f, n) /\ Holds(d, f, m)
  <2>1. Fits(n, f) /\ Fits(m, f)
    BY <1>1, <1>2, <1>4, IncludesFits
  <2>2. As(n, f) = n /\ As(m, f) = m
    BY <1>1, <2>1, AsFits
  <2> HIDE DEF f
  <2>3. Holds(DoCast(a, f), f, As(n, f)) /\ Holds(DoCast(b, f), f, As(m, f))
    BY <1>1, <2>1, CastHolds
  <2> QED BY <2>2, <2>3
<1>7. c.t = f
  BY <1>6, ReadHolds
<1>8. BinOpLowering(op, a, b, r) = WithType(Iop(op, c, d, r), r)
  BY <1>1, <1>2, <1>7 DEF BinOpLowering, LowerTyped
<1> HIDE DEF c, d
<1>9. CASE op \in Relations
  <2>1. r = Bool /\ r \in Ints
    BY <1>3, <1>9 DEF ResultType, Ints
  <2>2. ReplaceCmpi(op, c, d) = [t |-> Bool, v |-> Python(op, n, m)] /\ Python(op, n, m) \in {0, 1}
    BY <1>1, <1>6, <1>9, CompareHolds
  <2>3. Iop(op, c, d, r) = ReplaceCmpi(op, c, d)
    BY <1>9 DEF Iop, Relations
  <2>4. BinOpLowering(op, a, b, r) = [t |-> Bool, v |-> Python(op, n, m)]
    BY <1>8, <2>1, <2>2, <2>3 DEF WithType
  <2>5. Bits(Python(op, n, m), 1) = Python(op, n, m)
    <3>1. 2 ^ 1 = 2
      BY SMT
    <3>2. Python(op, n, m) \in 0 .. 2 ^ 1 - 1 /\ 1 \in Nat
      BY <2>2, <3>1
    <3> QED BY <3>2, BitsOfSmall
  <2>6. ~ IsFloat(Bool) /\ Bool.w = 1 /\ Bool \in IntTypes
    BY DEF Bool, Type, IsFloat, IntTypes, Ints
  <2>7. Result(op, n, m, r) = Python(op, n, m)
    BY <2>1, <2>6 DEF Result, Value
  <2> QED BY <1>5, <2>1, <2>2, <2>4, <2>5, <2>6, <2>7 DEF Holds
<1>10. CASE op \in {"+", "-", "*", "**", "//", "%"}
  <2>1. op \notin Relations
    BY <1>10 DEF Relations
  <2>2. r = ResultInt({t, u})
    BY <1>1, <1>3, <2>1 DEF ResultType
  <2>3. r \in Results /\ \A k : Fits(k, t) \/ Fits(k, u) => Fits(k, r)
    BY <1>4, <2>2, ResultFits
  <2> HIDE DEF f, r
  <2>4. Fits(n, r) /\ Fits(m, r)
    BY <1>2, <2>3
  <2>5. Iop(op, c, d, r) = [t |-> r, v |-> Bits(Python(op, n, m), W)]
    <3>1. CASE op \in {"+", "-", "*"}
      <4>1. Iop(op, c, d, r) = ReplaceOp(op, c, d, r)
        BY <3>1 DEF Iop
      <4> QED BY <1>1, <1>6, <2>3, <3>1, <4>1, ArithHolds
    <3>2. CASE op = "**"
      <4>1. Iop(op, c, d, r) = ReplaceIpow(c, d, r)
        BY <3>2 DEF Iop
      <4> QED BY <1>1, <1>4, <1>6, <2>3, <3>2, <4>1, PowerHolds
    <3>3. CASE op = "//"
      <4>1. Iop(op, c, d, r) = ReplaceIfloordiv(c, d, r)
        BY <3>3 DEF Iop
      <4> QED BY <1>1, <1>5, <1>6, <2>3, <2>4, <3>3, <4>1, FloorHolds
    <3>4. CASE op = "%"
      <4>1. Iop(op, c, d, r) = ReplaceImod(c, d, r)
        BY <3>4 DEF Iop
      <4>2. CASE f = Bool
        BY <1>5, <1>6, <2>3, <3>4, <4>1, <4>2, ModBoolHolds
      <4>3. CASE f = Int64
        <5>1. r = Int64
          BY <1>1, <2>2, <4>3 DEF ResultInt, Int64, Type
        <5> QED BY <1>4, <1>5, <1>6, <3>4, <4>1, <4>3, <5>1, ModHolds
      <4> QED BY <1>4, <3>4, <4>2, <4>3
    <3> QED BY <1>10, <3>1, <3>2, <3>3, <3>4
  <2>6. BinOpLowering(op, a, b, r) = [t |-> r, v |-> Bits(Python(op, n, m), W)]
    BY <1>8, <2>5 DEF WithType
  <2>7. Result(op, n, m, r) = Python(op, n, m)
    BY <2>3, ResultTypes DEF Result, Value
  <2>8. Python(op, n, m) \in Int
    BY <1>5, <2>3, ResultTypes, FitsInt
  <2>9. Holds(BinOpLowering(op, a, b, r), r, Result(op, n, m, r)) /\ r \in Ints
    BY <1>5, <2>3, <2>6, <2>7, <2>8, ResultTypes DEF Holds
  <2> QED BY <2>9 DEF r
<1> QED BY <1>9, <1>10 DEF IntOps

(***************************************************************************)
(* The function.                                                           *)
(***************************************************************************)

LEMMA NumberHolds ==
  ASSUME NEW t \in IntTypes, NEW n \in Ranged(t)
  PROVE  Holds(Number(n, t), t, n)
<1>1. n \in Int /\ Fits(n, t)
  BY RangedFits
<1>2. Number(n, t) = [t |-> t, v |-> Bits(n, t.w)]
  BY TypeCases DEF Number, FromInt
<1> QED BY <1>1, <1>2 DEF Holds

LEMMA LiteralHolds ==
  ASSUME NEW t \in {Int64, Bool}, NEW n \in Ranged(t)
  PROVE  Holds(Literal(n, t), t, n)
<1>1. /\ t \in IntTypes /\ MakeSignless(t) = Type("i", t.w) /\ Type("i", t.w).w = t.w
      /\ ~ IsFloat(Type("i", t.w))
  BY DEF Int64, Bool, IntTypes, Ints, MakeSignless, IsInt, IsFloat, Type
<1>2. n \in Int /\ Fits(n, t)
  BY <1>1, RangedFits
<1>3. Literal(n, t) = [t |-> t, v |-> Bits(n, t.w)]
  BY <1>1 DEF Literal, SignCast, FromInt
<1> QED BY <1>1, <1>2, <1>3 DEF Holds

\* Unary plus casts to the result type, which has all numbers of the operand's.
LEMMA UnaryFits ==
  ASSUME NEW t \in Ints
  PROVE  /\ ResultInt({t}) \in Results
         /\ \A n : Fits(n, t) => Fits(n, ResultInt({t}))
<1>1. t \in IntTypes /\ FinalType(t, t) = t /\ {t, t} = {t} /\ t \in Types
  BY DEF IntTypes, FinalType, Types
<1>2. <<t, t>> \in Inclusions
  <2>1. Includes(t, t)
    BY <1>1, TypeCases, Zenon DEF Includes
  <2> QED BY <1>1, <2>1 DEF Inclusions
<1> QED BY <1>1, <1>2, ResultFits

LEMMA NegateHolds ==
  ASSUME NEW t \in Results, NEW u \in Ints, NEW a, NEW n, Holds(a, u, n), Fits(n, t), Fits(-n, t)
  PROVE  Holds(Negate(a, t), t, -n)
<1>1. u \in IntTypes /\ u # Index /\ n \in Int /\ t \in IntTypes /\ t # Bool /\ t # Index
  BY ReadHolds, ResultTypes DEF IntTypes, Ints, Index, Bool, Type
<1>2. Holds(DoCast(a, t), t, n)
  BY <1>1, AsFits, CastHolds
<1>3. DoCast(a, t).t = t /\ DoCast(a, t).v = Bits(n, W)
  BY <1>2, ReadHolds, ResultTypes
<1>4. SignCast(DoCast(a, t), Wide) = [t |-> Wide, v |-> Bits(n, W)]
  BY <1>3 DEF SignCast
<1>5. Zero(Wide) = [t |-> Wide, v |-> Bits(0, W)]
  BY ResultTypes DEF Zero, FromInt
<1>6. Bits(Bits(0, W) - Bits(n, W), W) = Bits(-n, W)
  <2>1. Bits(Bits(0, W) - Bits(n, W), W) = Bits(0 - n, W)
    <3> DEFINE z == 0
    <3>1. z \in Int
      OBVIOUS
    <3> HIDE DEF z
    <3>2. Bits(Bits(z, W) - Bits(n, W), W) = Bits(z - n, W)
      BY <1>1, <3>1, ResultTypes, BitsArith
    <3> QED BY <3>2 DEF z
  <2>2. 0 - n = -n
    BY <1>1
  <2> QED BY <2>1, <2>2
<1>7. ArithI("-", Zero(Wide), SignCast(DoCast(a, t), Wide)) = [t |-> Wide, v |-> Bits(-n, W)]
  <2>1. ArithI("-", Zero(Wide), SignCast(DoCast(a, t), Wide)) = FromInt(Bits(0, W) - Bits(n, W), Wide)
    BY <1>4, <1>5 DEF ArithI
  <2> QED BY <1>6, <2>1, ResultTypes DEF FromInt
<1>8. Negate(a, t) = [t |-> t, v |-> Bits(-n, W)]
  BY <1>7, ResultTypes DEF Negate, SignCast
<1> QED BY <1>1, <1>8, ResultTypes DEF Holds

\* Each variable stands for the number it has in Python.
ScalarInv ==
    /\ Holds(x, x.t, px)
    /\ Holds(y, y.t, py)

\* The function uses only integers, operators on them, and in the way they are meant for.
IntegerFunction ==
    /\ Scalars \cap Floats = {}
    /\ "/" \notin Ops
    /\ \A op, a, b : Faithful(op, a, b) => Meant(op, a, b)

LEMMA InvReads ==
  ASSUME ScalarInv
  PROVE  SameValue
BY ReadHolds DEF ScalarInv, SameValue

LEMMA InvInit ==
  ASSUME IntegerFunction, Init
  PROVE  ScalarInv
<1>1. \A t \in Scalars : t \in IntTypes
  BY ScalarsAssumption DEF IntegerFunction, IntTypes, Types
<1>2. PICK t \in Scalars \ {Index}, u \in Scalars \ {Index} : \E n \in Ranged(t), m \in Ranged(u) :
        x = Number(n, t) /\ y = Number(m, u) /\ px = n /\ py = m
  BY DEF Init
<1>3. Holds(x, t, px) /\ Holds(y, u, py)
  BY <1>1, <1>2, NumberHolds
<1> QED BY <1>3, ReadHolds DEF ScalarInv

LEMMA InvNext ==
  ASSUME IntegerFunction, ScalarInv, [Next]_vars
  PROVE  ScalarInv'
<1>1. \A t \in Scalars : t \in IntTypes
  BY ScalarsAssumption DEF IntegerFunction, IntTypes, Types
<1>2. /\ x.t \in IntTypes /\ px \in Int /\ Fits(px, x.t) /\ Holds(x, x.t, px)
      /\ y.t \in IntTypes /\ py \in Int /\ Fits(py, y.t) /\ Holds(y, y.t, py)
  BY ReadHolds DEF ScalarInv
<1> SUFFICES \E t : Holds(x', t, px') /\ y' = y /\ py' = py
  <2>1. ASSUME NEW t, Holds(x', t, px') PROVE x'.t = t
    BY <2>1 DEF Holds
  <2>2. y' = y /\ py' = py => Holds(y', y'.t, py')
    BY <1>2
  <2> QED BY <2>1, <2>2 DEF ScalarInv
<1>3. CASE ConstOp
  <2>1. PICK t \in {Int64, Bool} \cap Scalars : \E n \in Ranged(t) :
          x' = Literal(n, t) /\ px' = n /\ UNCHANGED <<y, py>>
    BY <1>3 DEF ConstOp
  <2> QED BY <2>1, LiteralHolds
<1>4. CASE BinOp
  <2>1. PICK op \in Ops : LET t == ResultType(op, x.t, y.t)
                          IN  /\ Index \notin {x.t, y.t}
                              /\ Defined(op, px, py, t)
                              /\ Faithful(op, x, y)
                              /\ x' = BinOpLowering(op, x, y, t)
                              /\ px' = Result(op, px, py, t)
                              /\ UNCHANGED <<y, py>>
    BY <1>4 DEF BinOp
  <2>2. op \in IntOps /\ x.t \in Ints /\ y.t \in Ints /\ Meant(op, x, y)
    BY <1>2, <2>1, ScalarsAssumption DEF IntegerFunction, IntOps, IntTypes
  <2>3. Defined(op, px, py, ResultType(op, x.t, y.t))
    BY <2>1
  <2>4. Holds(BinOpLowering(op, x, y, ResultType(op, x.t, y.t)), ResultType(op, x.t, y.t),
              Result(op, px, py, ResultType(op, x.t, y.t)))
    BY <1>2, <2>2, <2>3, BinOpHolds
  <2> QED BY <2>1, <2>4
<1>5. CASE UnaryOp
  <2> DEFINE t == ResultInt({x.t})
  <2>1. x.t \in Ints /\ ~ IsFloat(x.t)
    BY <1>2, <1>5, TypeCases DEF UnaryOp, IntTypes
  <2>2. t \in Results /\ Fits(px, t)
    BY <1>2, <2>1, UnaryFits
  <2>3. /\ \/ x' = DoCast(x, t) /\ px' = px
           \/ Fits(-px, t) /\ x' = Negate(x, t) /\ px' = -px
        /\ UNCHANGED <<y, py>>
    BY <1>5, <2>1 DEF UnaryOp
  <2> HIDE DEF t
  <2>4. Holds(DoCast(x, t), t, px)
    <3>1. t \in IntTypes /\ t # Index /\ x.t # Index /\ As(px, t) = px
      BY <2>1, <2>2, ResultTypes, AsFits DEF Ints, Index, Bool, Type
    <3> QED BY <1>2, <2>2, <3>1, CastHolds
  <2>5. Fits(-px, t) => Holds(Negate(x, t), t, -px)
    BY <1>2, <2>1, <2>2, NegateHolds
  <2> QED BY <2>3, <2>4, <2>5
<1>6. CASE CastOp
  <2>1. PICK t \in Scalars : /\ HasCast(x.t, t) /\ Kept(px, t) /\ Faithful("cast", x, Zero(t))
                             /\ x' = DoCast(x, t) /\ px' = As(px, t)
                             /\ UNCHANGED <<y, py>>
    BY <1>6 DEF CastOp
  <2>2. t \in IntTypes /\ (t = Bool \/ Fits(px, t))
    BY <1>1, <2>1 DEF Kept
  <2>3. Meant("cast", x, Zero(t)) /\ Zero(t).t = t
    BY <2>1 DEF IntegerFunction, Zero, FromInt
  <2>4. IF x.t = Index THEN t # Bool
        ELSE t = Index => (x.t.k = "si" \/ (IsInt(x.t) /\ x.v < 2 ^ (x.t.w - 1)))
    BY <2>3 DEF Meant
  <2>5. x.t # Index /\ x.t.k # "si" => x.v = px
    BY <1>2, ReadHolds, TypeCases
  <2>6. /\ x.t = Index => t # Bool
        /\ t = Index /\ x.t # Index => x.t.k = "si" \/ px < 2 ^ (x.t.w - 1)
    BY <2>4, <2>5
  <2>7. Holds(DoCast(x, t), t, As(px, t))
    BY <1>2, <2>2, <2>6, CastHolds
  <2> QED BY <2>1, <2>7
<1>7. CASE CondBranch
  <2>1. PICK t \in Scalars \ {Index, Bool} :
          /\ Index \notin {x.t, y.t}
          /\ Kept(px, t) /\ Kept(py, t)
          /\ x' = IF DoCast(y, Bool).v = 1 THEN DoCast(x, t) ELSE DoCast(y, t)
          /\ px' = IF py # 0 THEN px ELSE py
          /\ UNCHANGED <<y, py>>
    BY <1>7 DEF CondBranch
  <2>2. t \in IntTypes /\ t # Bool /\ t # Index /\ Fits(px, t) /\ Fits(py, t)
    BY <1>1, <2>1 DEF Kept
  <2>3. Holds(DoCast(x, t), t, px) /\ Holds(DoCast(y, t), t, py)
    <3>1. Holds(DoCast(x, t), t, As(px, t))
      BY <1>2, <2>1, <2>2, CastHolds
    <3>2. Holds(DoCast(y, t), t, As(py, t))
      BY <1>2, <2>1, <2>2, CastHolds
    <3> QED BY <2>2, <3>1, <3>2, AsFits
  <2>4. DoCast(y, Bool).v = 1 <=> py # 0
    <3>1. Bool \in IntTypes /\ Bool # Index /\ Bool.k = "i"
      BY DEF Bool, Index, Type, IntTypes, Ints
    <3>2. Holds(DoCast(y, Bool), Bool, As(py, Bool))
      BY <1>2, <2>1, <3>1, CastHolds
    <3>3. DoCast(y, Bool).v = As(py, Bool)
      BY <3>1, <3>2, ReadHolds
    <3> QED BY <3>3 DEF As
  <2> QED BY <2>1, <2>3, <2>4
<1>8. CASE UNCHANGED vars
  BY <1>2, <1>8 DEF vars
<1> QED BY <1>3, <1>4, <1>5, <1>6, <1>7, <1>8 DEF Next

\* SameValue, for integers of all widths: the value that the lowered operators, casts and
\* branches compute in fixed width is the one Python computes, as long as each value on the
\* way is one of its type and the use is one the lowering is meant for.
THEOREM IntegersSameValue ==
  ASSUME IntegerFunction
  PROVE  Spec => []SameValue
<1>1. Init => ScalarInv
  BY InvInit
<1>2. ScalarInv /\ [Next]_vars => ScalarInv'
  BY InvNext
<1>3. ScalarInv => SameValue
  BY InvReads
<1> QED BY <1>1, <1>2, <1>3, PTL DEF Spec
=============================================================================
