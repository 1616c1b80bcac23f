--------------------------- MODULE MemoryOptProofs ---------------------------
(***************************************************************************)
(* Theorems about the memory SSA graph, for every function body: it is     *)
(* built, and rewritten by optimizeMemoryOps, with use lists that agree    *)
(* with the arguments of the nodes.                                        *)
(*                                                                         *)
(* The argument is in five parts: what setArgument, createNode and         *)
(* eraseNode keep of a graph (Sound); that memSSAProcessRegion keeps a     *)
(* graph sound but for the Phis of the operations it is in (BuildState);   *)
(* that getDef's walk ends and the rewriting functions keep the graph of a *)
(* function (GraphOf); the invariant of the whole (IInv); and that a use   *)
(* which optimizeUses has moved does not move again (RInv).                *)
(***************************************************************************)
EXTENDS MemoryOpt, SequenceTheorems, FiniteSetTheorems, WellFoundedInduction, TLAPS

Nodes == NodeTypes \X Nat

(***************************************************************************)
(* Use lists.                                                              *)
(***************************************************************************)

LEMMA AppendList ==
  ASSUME NEW S, NEW s \in Seq(S), NEW e \in S
  PROVE  /\ Append(s, e) \in Seq(S)
         /\ Range(Append(s, e)) = Range(s) \cup {e}
         /\ IsInjective(s) /\ e \notin Range(s) => IsInjective(Append(s, e))
<1> DEFINE t == Append(s, e)
<1>1. t \in Seq(S) /\ Len(t) = Len(s) + 1 /\ t[Len(s) + 1] = e /\ \A i \in 1 .. Len(s) : t[i] = s[i]
  BY AppendProperties
<1>2. DOMAIN t = 1 .. Len(s) + 1 /\ DOMAIN s = 1 .. Len(s) /\ Len(s) \in Nat
  BY <1>1, LenProperties
<1> HIDE DEF t
<1>3. Range(t) = Range(s) \cup {e}
  BY <1>1, <1>2 DEF Range
<1>4. ASSUME IsInjective(s), e \notin Range(s) PROVE IsInjective(t)
  BY <1>1, <1>2, <1>4 DEF Range, IsInjective
<1> QED BY <1>1, <1>3, <1>4 DEF t

LEMMA WithoutList ==
  ASSUME NEW S, NEW s \in Seq(S), NEW e, IsInjective(s)
  PROVE  /\ Without(s, e) \in Seq(S)
         /\ Range(Without(s, e)) = Range(s) \ {e}
         /\ IsInjective(Without(s, e))
<1>1. DOMAIN s = 1 .. Len(s) /\ Len(s) \in Nat /\ \A i \in 1 .. Len(s) : s[i] \in S
  BY LenProperties, ElementOfSeq
<1>2. CASE ~Contains(s, e)
  BY <1>1, <1>2 DEF Without, Contains, Range
<1>3. CASE Contains(s, e)
  <2> DEFINE k == CHOOSE i \in DOMAIN s : s[i] = e
             a == SubSeq(s, 1, k - 1)
             b == SubSeq(s, k + 1, Len(s))
             r == a \o b
  <2>1. k \in 1 .. Len(s) /\ s[k] = e
    BY <1>1, <1>3 DEF Contains
  <2>2. Without(s, e) = r
    BY <1>3 DEF Without, RemoveAt
  <2> HIDE DEF k
  <2>3. a \in Seq(S) /\ Len(a) = k - 1 /\ \A i \in 1 .. k - 1 : a[i] = s[i]
    BY <1>1, <2>1, SubSeqProperties
  <2>4. b \in Seq(S) /\ Len(b) = Len(s) - k /\ \A i \in 1 .. Len(s) - k : b[i] = s[k + i]
    <3>1. k + 1 \in Int /\ Len(s) \in Int /\ \A i \in k + 1 .. Len(s) : s[i] \in S
      BY <1>1, <2>1
    <3>2. /\ b \in Seq(S) /\ Len(b) = IF k + 1 <= Len(s) THEN Len(s) - (k + 1) + 1 ELSE 0
          /\ \A i \in 1 .. Len(s) - (k + 1) + 1 : b[i] = s[(k + 1) + i - 1]
      BY <3>1, SubSeqProperties
    <3> HIDE DEF b
    <3>3. \A i \in 1 .. Len(s) - k : (k + 1) + i - 1 = k + i
      BY <1>1, <2>1
    <3>4. Len(s) - (k + 1) + 1 = Len(s) - k /\ Len(b) = Len(s) - k
      <4>1. Len(s) - (k + 1) + 1 = Len(s) - k /\ k \in Nat /\ k <= Len(s)
        BY <1>1, <2>1
      <4>2. Len(b) = IF k + 1 <= Len(s) THEN Len(s) - k ELSE 0
        BY <3>2, <4>1
      <4>4. \A x, y \in Nat : x <= y /\ ~(x + 1 <= y) => y - x = 0
        OBVIOUS
      <4>3. ~(k + 1 <= Len(s)) => Len(s) - k = 0
        BY <1>1, <4>1, <4>4
      <4> QED BY <4>1, <4>2, <4>3
    <3>5. ASSUME NEW i \in 1 .. Len(s) - k PROVE b[i] = s[k + i]
      <4>1. i \in 1 .. Len(s) - (k + 1) + 1
        BY <3>4
      <4>2. b[i] = s[(k + 1) + i - 1]
        BY <3>2, <4>1
      <4> QED BY <3>3, <4>2
    <3> QED BY <3>2, <3>4, <3>5
  <2> HIDE DEF a, b
  <2>5. /\ r \in Seq(S) /\ Len(r) = Len(s) - 1
        /\ \A i \in 1 .. Len(s) - 1 : r[i] = IF i < k THEN s[i] ELSE s[i + 1]
    <3>1. /\ r \in Seq(S) /\ Len(r) = Len(a) + Len(b)
          /\ \A i \in 1 .. Len(a) + Len(b) : r[i] = IF i <= Len(a) THEN a[i] ELSE b[i - Len(a)]
      BY <2>3, <2>4, ConcatProperties
    <3>2. ASSUME NEW i \in 1 .. Len(s) - 1 PROVE r[i] = IF i < k THEN s[i] ELSE s[i + 1]
      <4>1. r[i] = IF i <= k - 1 THEN a[i] ELSE b[i - (k - 1)]
        BY <1>1, <2>1, <2>3, <2>4, <3>1, SMTT(30)
      <4>2. CASE i < k
        BY <1>1, <2>1, <2>3, <4>1, <4>2
      <4>3. CASE ~(i < k)
        <5>1. i - (k - 1) \in 1 .. Len(s) - k /\ k + (i - (k - 1)) = i + 1
          BY <1>1, <2>1, <4>3
        <5> QED BY <1>1, <2>1, <2>4, <4>1, <4>3, <5>1
      <4> QED BY <4>2, <4>3
    <3> QED BY <1>1, <2>1, <2>3, <2>4, <3>1, <3>2
  <2>6. DOMAIN r = 1 .. Len(s) - 1
    BY <2>5, LenProperties
  <2> HIDE DEF r
  <2>7. IsInjective(r)
    <3> SUFFICES ASSUME NEW i \in 1 .. Len(s) - 1, NEW j \in 1 .. Len(s) - 1, r[i] = r[j]
                 PROVE  i = j
      BY <2>6 DEF IsInjective
    <3> DEFINE at(x) == IF x < k THEN x ELSE x + 1
    <3>1. at(i) \in 1 .. Len(s) /\ at(j) \in 1 .. Len(s)
      BY <1>1, <2>1
    <3>2. s[at(i)] = s[at(j)]
      BY <2>5
    <3>3. at(i) = at(j)
      BY <1>1, <3>1, <3>2 DEF IsInjective
    <3> QED BY <1>1, <2>1, <3>3
  <2>8. ASSUME NEW x \in Range(r) PROVE x \in Range(s) /\ x # e
    <3>1. PICK i \in 1 .. Len(s) - 1 : x = r[i]
      BY <2>6 DEF Range
    <3>2. PICK j \in 1 .. Len(s) : x = s[j] /\ j # k
      BY <1>1, <2>1, <2>5, <3>1
    <3> QED BY <1>1, <2>1, <3>2 DEF Range, IsInjective
  <2>9. ASSUME NEW x \in Range(s), x # e PROVE x \in Range(r)
    <3>1. PICK j \in 1 .. Len(s) : x = s[j] /\ j # k
      BY <1>1, <2>1, <2>9 DEF Range
    <3>2. \E i \in 1 .. Len(s) - 1 : x = r[i]
      <4>1. CASE j < k
        BY <1>1, <2>1, <2>5, <3>1, <4>1
      <4>2. CASE j > k
        <5>1. j - 1 \in 1 .. Len(s) - 1 /\ ~(j - 1 < k) /\ (j - 1) + 1 = j
          BY <1>1, <2>1, <4>2
        <5> QED BY <2>5, <3>1, <5>1
      <4> QED BY <1>1, <2>1, <3>1, <4>1, <4>2
    <3> QED BY <2>6, <3>2 DEF Range
  <2> QED BY <2>2, <2>5, <2>7, <2>8, <2>9
<1> QED BY <1>2, <1>3

LEMMA ConcatList ==
  ASSUME NEW S, NEW s \in Seq(S), NEW t \in Seq(S)
  PROVE  /\ s \o t \in Seq(S)
         /\ Range(s \o t) = Range(s) \cup Range(t)
         /\ IsInjective(s) /\ IsInjective(t) /\ Range(s) \cap Range(t) = {} => IsInjective(s \o t)
<1> DEFINE r == s \o t
<1>1. /\ r \in Seq(S) /\ Len(r) = Len(s) + Len(t) /\ Range(r) = Range(s) \cup Range(t)
      /\ \A i \in 1 .. Len(s) + Len(t) : r[i] = IF i <= Len(s) THEN s[i] ELSE t[i - Len(s)]
  BY ConcatProperties, RangeConcatenation
<1>2. /\ DOMAIN r = 1 .. Len(s) + Len(t) /\ DOMAIN s = 1 .. Len(s) /\ DOMAIN t = 1 .. Len(t)
      /\ Len(s) \in Nat /\ Len(t) \in Nat
  BY <1>1, LenProperties
<1> HIDE DEF r
<1>3. ASSUME IsInjective(s), IsInjective(t), Range(s) \cap Range(t) = {},
             NEW i \in DOMAIN r, NEW j \in DOMAIN r, r[i] = r[j]
      PROVE  i = j
  <2>1. CASE i <= Len(s) /\ j <= Len(s)
    BY <1>1, <1>2, <1>3, <2>1 DEF IsInjective
  <2>2. CASE ~(i <= Len(s)) /\ ~(j <= Len(s))
    <3>1. i - Len(s) \in DOMAIN t /\ j - Len(s) \in DOMAIN t
      BY <1>2, <2>2
    <3>2. t[i - Len(s)] = t[j - Len(s)]
      BY <1>1, <1>2, <1>3, <2>2
    <3>3. i - Len(s) = j - Len(s)
      BY <1>3, <3>1, <3>2 DEF IsInjective
    <3> QED BY <1>2, <3>3
  <2>3. CASE i <= Len(s) /\ ~(j <= Len(s))
    <3>1. r[i] = s[i] /\ r[j] = t[j - Len(s)] /\ i \in DOMAIN s /\ j - Len(s) \in DOMAIN t
      BY <1>1, <1>2, <2>3
    <3> QED BY <1>3, <3>1 DEF Range
  <2>4. CASE ~(i <= Len(s)) /\ j <= Len(s)
    <3>1. r[j] = s[j] /\ r[i] = t[i - Len(s)] /\ j \in DOMAIN s /\ i - Len(s) \in DOMAIN t
      BY <1>1, <1>2, <2>4
    <3> QED BY <1>3, <3>1 DEF Range
  <2> QED BY <2>1, <2>2, <2>3, <2>4
<1> QED BY <1>1, <1>3 DEF IsInjective, r

(***************************************************************************)
(* Arguments and use lists.                                                *)
(***************************************************************************)

\* The arguments that are n.
Uses(args, n) ==
  {use \in Nodes \X Nat : /\ use[1] \in DOMAIN args /\ use[2] \in DOMAIN args[use[1]]
                          /\ args[use[1]][use[2]] = n}

\* Each node's list has its uses, once.
Listed(D, args, users) ==
  /\ D \subseteq Nodes
  /\ args \in [D -> Seq(D \cup {None})]
  /\ users \in [D -> Seq(Nodes \X Nat)]
  /\ \A n \in D : IsInjective(users[n]) /\ Range(users[n]) = Uses(args, n)

\* One argument of node n changes.
Put(args, n, i, to) == [args EXCEPT ![n][i] = to]

\* The uses after one argument of node n has changed.
LEMMA UsesChange ==
  ASSUME NEW D, D \subseteq Nodes, NEW A, NEW args \in [D -> Seq(A)], NEW n \in D,
         NEW i \in DOMAIN args[n], NEW to \in A, NEW m
  PROVE  Uses(Put(args, n, i, to), m)
           = IF m = to THEN Uses(args, m) \cup {<<n, i>>} ELSE Uses(args, m) \ {<<n, i>>}
<1> DEFINE new == Put(args, n, i, to)
<1>1. DOMAIN new = D /\ DOMAIN args = D
  BY DEF Put
<1>2. args[n] \in Seq(A) /\ DOMAIN args[n] = 1 .. Len(args[n]) /\ Len(args[n]) \in Nat
  BY LenProperties
<1>3. /\ DOMAIN new[n] = DOMAIN args[n] /\ new[n][i] = to
      /\ \A j \in DOMAIN args[n] : j # i => new[n][j] = args[n][j]
      /\ \A u \in D : u # n => new[u] = args[u]
  BY <1>2 DEF Put
<1>4. i \in Nat /\ <<n, i>> \in Nodes \X Nat
  BY <1>2
<1> HIDE DEF new
<1>5. \A use \in Nodes \X Nat : use = <<n, i>> <=> use[1] = n /\ use[2] = i
  BY <1>4
<1>6. ASSUME NEW use \in Nodes \X Nat
      PROVE  use \in Uses(new, m) <=> IF use = <<n, i>> THEN m = to ELSE use \in Uses(args, m)
  <2>1. CASE use = <<n, i>>
    BY <1>1, <1>3, <1>4, <2>1 DEF Uses
  <2>2. CASE use # <<n, i>> /\ use[1] = n
    BY <1>1, <1>3, <1>5, <2>2 DEF Uses
  <2>3. CASE use[1] # n
    BY <1>1, <1>3, <1>5, <2>3 DEF Uses
  <2> QED BY <2>1, <2>2, <2>3
<1>7. \A use : use \in Uses(new, m) \/ use \in Uses(args, m) => use \in Nodes \X Nat
  BY DEF Uses
<1> QED BY <1>4, <1>6, <1>7 DEF new

\* A use leaves a list, or comes to one.
Drop(users, old, use) ==
  IF old = None THEN users ELSE [users EXCEPT ![old] = Without(users[old], use)]
Add(users, to, use) ==
  IF to = None THEN users ELSE [users EXCEPT ![to] = Append(users[to], use)]

Lists(D, users) ==
  None \notin D /\ users \in [D -> Seq(Nodes \X Nat)] /\ \A m \in D : IsInjective(users[m])

LEMMA Dropped ==
  ASSUME NEW D, NEW users, Lists(D, users), NEW old, NEW use, old = None \/ old \in D
  PROVE  /\ Lists(D, Drop(users, old, use))
         /\ \A m \in D : Range(Drop(users, old, use)[m])
                           = IF m = old THEN Range(users[m]) \ {use} ELSE Range(users[m])
<1> DEFINE S == Nodes \X Nat
<1>0. None \notin D /\ users \in [D -> Seq(S)] /\ \A m \in D : IsInjective(users[m])
  BY DEF Lists
<1> HIDE DEF S
<1>1. CASE old = None
  BY <1>0, <1>1 DEF Drop
<1>2. CASE old # None
  <2> DEFINE list == Without(users[old], use)
  <2>1. list \in Seq(S) /\ Range(list) = Range(users[old]) \ {use} /\ IsInjective(list)
    BY <1>0, <1>2, WithoutList
  <2> HIDE DEF list
  <2>2. Drop(users, old, use) = [users EXCEPT ![old] = list]
    BY <1>2 DEF Drop, list
  <2> QED BY <1>0, <1>2, <2>1, <2>2 DEF Lists, S
<1> QED BY <1>1, <1>2

LEMMA Added ==
  ASSUME NEW D, NEW users, Lists(D, users), NEW to, NEW use, to = None \/ to \in D,
         use \in Nodes \X Nat, \A m \in D : use \notin Range(users[m])
  PROVE  /\ Lists(D, Add(users, to, use))
         /\ \A m \in D : Range(Add(users, to, use)[m])
                           = IF m = to THEN Range(users[m]) \cup {use} ELSE Range(users[m])
<1> DEFINE S == Nodes \X Nat
<1>0. None \notin D /\ users \in [D -> Seq(S)] /\ (\A m \in D : IsInjective(users[m])) /\ use \in S
  BY DEF Lists
<1> HIDE DEF S
<1>1. CASE to = None
  BY <1>0, <1>1 DEF Add
<1>2. CASE to # None
  <2> DEFINE list == Append(users[to], use)
  <2>1. list \in Seq(S) /\ Range(list) = Range(users[to]) \cup {use} /\ IsInjective(list)
    BY <1>0, <1>2, AppendList
  <2> HIDE DEF list
  <2>2. Add(users, to, use) = [users EXCEPT ![to] = list]
    BY <1>2 DEF Add, list
  <2> QED BY <1>0, <1>2, <2>1, <2>2 DEF Lists, S
<1> QED BY <1>1, <1>2

\* setArgument keeps the lists.
LEMMA OneMoves ==
  ASSUME NEW D, NEW args, NEW users, Listed(D, args, users),
         NEW n \in D, NEW i \in DOMAIN args[n], NEW to \in D \cup {None}
  PROVE  Listed(D, Put(args, n, i, to), Add(Drop(users, args[n][i], <<n, i>>), to, <<n, i>>))
<1> DEFINE A    == D \cup {None}
           new  == Put(args, n, i, to)
           use  == <<n, i>>
           old  == args[n][i]
           less == Drop(users, old, use)
           more == Add(less, to, use)
<1>1. /\ D \subseteq Nodes /\ args \in [D -> Seq(A)] /\ to \in A /\ (to = None \/ to \in D) /\ Lists(D, users)
      /\ \A m \in D : Range(users[m]) = Uses(args, m)
  BY NoneAssumption DEF Listed, Lists, Nodes
<1> HIDE DEF A
<1>2. args[n] \in Seq(A) /\ i \in 1 .. Len(args[n]) /\ Len(args[n]) \in Nat
  BY <1>1, LenProperties
<1>3. use \in Nodes \X Nat
  BY <1>1, <1>2
<1>4. old = None \/ old \in D
  BY <1>2, ElementOfSeq DEF A
<1>5. new \in [D -> Seq(A)]
  <2>1. [args[n] EXCEPT ![i] = to] \in Seq(A)
    BY <1>1, <1>2, ExceptSeq
  <2> QED BY <1>1, <2>1 DEF Put
<1>6. \A m \in D : use \in Uses(args, m) => m = old
  BY DEF Uses
<1>7. \A m : Uses(new, m) = IF m = to THEN Uses(args, m) \cup {use} ELSE Uses(args, m) \ {use}
  BY <1>1, UsesChange
<1> HIDE DEF use, old, less, more, new
<1>14. Lists(D, users)
  BY <1>1
<1>8. Lists(D, less)
  BY ONLY <1>4, <1>14, Dropped DEF less
<1>9. \A m \in D : Range(less[m]) = Uses(args, m) \ {use}
  <2>1. \A m \in D : Range(Drop(users, old, use)[m])
                       = IF m = old THEN Range(users[m]) \ {use} ELSE Range(users[m])
    BY ONLY <1>4, <1>14, Dropped
  <2> QED BY <1>1, <1>6, <2>1 DEF less
<1>15. to = None \/ to \in D
  BY <1>1
<1>16. \A m \in D : use \notin Range(less[m])
  BY <1>9
<1>10. Lists(D, more)
  BY ONLY <1>3, <1>8, <1>15, <1>16, Added DEF more
<1>13. \A m \in D : Range(more[m]) = IF m = to THEN Range(less[m]) \cup {use} ELSE Range(less[m])
  <2>2. \A m \in D : Range(Add(less, to, use)[m])
                       = IF m = to THEN Range(less[m]) \cup {use} ELSE Range(less[m])
    BY ONLY <1>3, <1>8, <1>15, <1>16, Added
  <2> QED BY <2>2 DEF more
<1>11. \A m \in D : Range(more[m]) = Uses(new, m)
  BY <1>7, <1>9, <1>13
<1>12. Listed(D, new, more)
  BY <1>1, <1>5, <1>10, <1>11 DEF Listed, Lists, A
<1> QED BY <1>12 DEF new, more, less, old, use

\* A new node, before it has its arguments.
LEMMA NodeAdded ==
  ASSUME NEW D, NEW args, NEW users, Listed(D, args, users),
         NEW n \in Nodes, n \notin D, NEW none \in Seq({None})
  PROVE  Listed(D \cup {n}, With(args, n, none), With(users, n, << >>))
<1> DEFINE E == D \cup {n}
           new == With(args, n, none)
           lists == With(users, n, << >>)
<1>1. /\ D \subseteq Nodes /\ args \in [D -> Seq(D \cup {None})] /\ None \notin D /\ None # n
      /\ users \in [D -> Seq(Nodes \X Nat)]
      /\ \A m \in D : IsInjective(users[m]) /\ Range(users[m]) = Uses(args, m)
  BY NoneAssumption DEF Listed, Nodes
<1>2. new = [m \in E |-> IF m = n THEN none ELSE args[m]]
  BY <1>1 DEF With
<1>3. lists = [m \in E |-> IF m = n THEN << >> ELSE users[m]]
  BY <1>1 DEF With
<1>4. \A j \in DOMAIN none : none[j] = None
  BY LenProperties, ElementOfSeq
<1>5. new \in [E -> Seq(E \cup {None})]
  <2>1. none \in Seq(E \cup {None})
    BY SeqMonotonic
  <2>2. \A m \in D : args[m] \in Seq(E \cup {None})
    BY <1>1, SeqMonotonic
  <2> QED BY <1>2, <2>1, <2>2
<1>6. \A m \in D : \A j \in DOMAIN args[m] : args[m][j] # n
  BY <1>1, LenProperties, ElementOfSeq
<1>7. \A m \in E : Uses(new, m) = IF m = n THEN {} ELSE Uses(args, m)
  <2> SUFFICES ASSUME NEW m \in E, NEW use \in Nodes \X Nat
               PROVE  use \in Uses(new, m) <=> m # n /\ use \in Uses(args, m)
    BY DEF Uses
  <2>1. DOMAIN new = E /\ new[n] = none /\ \A u \in D : new[u] = args[u]
    BY <1>2
  <2> HIDE DEF new
  <2>2. CASE use[1] = n
    BY <1>1, <1>4, <2>1, <2>2 DEF Uses
  <2>3. CASE use[1] # n
    BY <1>1, <1>6, <2>1, <2>3 DEF Uses
  <2> QED BY <2>2, <2>3
<1>8. IsInjective(<< >>) /\ Range(<< >>) = {} /\ << >> \in Seq(Nodes \X Nat)
  BY DEF IsInjective, Range
<1> HIDE DEF E, new, lists
<1>9. lists \in [E -> Seq(Nodes \X Nat)] /\ \A m \in E : IsInjective(lists[m]) /\ Range(lists[m]) = Uses(new, m)
  BY <1>1, <1>3, <1>7, <1>8 DEF E
<1> QED BY <1>1, <1>5, <1>9 DEF Listed, E, new, lists

\* Every use of n becomes one of to.
Renamed(args, n, to) ==
  [u \in DOMAIN args |-> [i \in DOMAIN args[u] |-> IF args[u][i] = n THEN to ELSE args[u][i]]]

LEMMA AllMove ==
  ASSUME NEW D, NEW args, NEW users, Listed(D, args, users), NEW n \in D, NEW to \in D, n # to,
         NEW lists, lists = [users EXCEPT ![n] = << >>, ![to] = users[to] \o users[n]]
  PROVE  Listed(D, Renamed(args, n, to), lists)
<1> DEFINE new == Renamed(args, n, to)
           A == D \cup {None}
           S == Nodes \X Nat
<1>1. /\ D \subseteq Nodes /\ args \in [D -> Seq(A)] /\ to \in A /\ users \in [D -> Seq(S)]
      /\ \A m \in D : IsInjective(users[m]) /\ Range(users[m]) = Uses(args, m)
  BY DEF Listed
<1> HIDE DEF A, S
<1>2. DOMAIN new = D /\ \A u \in D : new[u] = [i \in DOMAIN args[u] |-> IF args[u][i] = n THEN to ELSE args[u][i]]
  BY <1>1 DEF Renamed
<1> HIDE DEF new
<1>3. \A u \in D : new[u] \in Seq(A)
  <2> SUFFICES ASSUME NEW u \in D PROVE new[u] \in Seq(A)
    OBVIOUS
  <2>1. args[u] \in Seq(A) /\ DOMAIN args[u] = 1 .. Len(args[u]) /\ Len(args[u]) \in Nat
    BY <1>1, LenProperties
  <2>2. \A i \in 1 .. Len(args[u]) : args[u][i] \in A
    BY <2>1, ElementOfSeq
  <2> DEFINE len == Len(args[u])
             v == [i \in 1 .. len |-> IF args[u][i] = n THEN to ELSE args[u][i]]
  <2>3. \A i \in 1 .. len : (IF args[u][i] = n THEN to ELSE args[u][i]) \in A
    BY <1>1, <2>2
  <2> HIDE DEF len
  <2>4. v \in [1 .. len -> A]
    BY <2>3
  <2>5. v \in Seq(A)
    BY <2>1, <2>4, SeqDef DEF len
  <2> QED BY <1>2, <2>1, <2>5 DEF len
<1>4. new \in [D -> Seq(A)]
  <2>1. new = [u \in D |-> new[u]]
    BY <1>2 DEF new, Renamed
  <2> QED BY <1>3, <2>1
<1>5. \A m \in D : Uses(new, m) = IF m = n THEN {} ELSE IF m = to THEN Uses(args, to) \cup Uses(args, n)
                                                    ELSE Uses(args, m)
  <2> SUFFICES ASSUME NEW m \in D, NEW use \in Nodes \X Nat
               PROVE  use \in Uses(new, m) <=>
                        /\ m # n
                        /\ use \in Uses(args, m) \/ (m = to /\ use \in Uses(args, n))
    BY DEF Uses
  <2> QED BY <1>1, <1>2 DEF Uses
<1>6. \A m \in D : lists[m] = IF m = to THEN users[to] \o users[n] ELSE IF m = n THEN << >> ELSE users[m]
  BY <1>1
<1>7. Uses(args, n) \cap Uses(args, to) = {}
  BY DEF Uses
<1> DEFINE list == users[to] \o users[n]
<1>8. list \in Seq(S) /\ Range(list) = Range(users[to]) \cup Range(users[n]) /\ IsInjective(list)
  <2>1. users[to] \in Seq(S) /\ users[n] \in Seq(S)
    BY <1>1
  <2>2. IsInjective(users[to]) /\ IsInjective(users[n]) /\ Range(users[to]) \cap Range(users[n]) = {}
    BY <1>1, <1>7
  <2> QED BY <2>1, <2>2, ConcatList
<1>9. IsInjective(<< >>) /\ Range(<< >>) = {} /\ << >> \in Seq(S)
  BY DEF IsInjective, Range
<1>10. lists = [users EXCEPT ![n] = << >>, ![to] = list]
  OBVIOUS
<1> HIDE DEF list
<1>11. lists \in [D -> Seq(S)]
  BY <1>1, <1>8, <1>9, <1>10
<1>12. \A m \in D : IsInjective(lists[m]) /\ Range(lists[m]) = Uses(new, m)
  BY <1>1, <1>5, <1>6, <1>8, <1>9 DEF list
<1>13. Listed(D, new, lists)
  BY <1>1, <1>4, <1>11, <1>12 DEF Listed, A, S
<1> QED BY <1>13 DEF new

\* What one argument is after a change.
LEMMA PutAt ==
  ASSUME NEW D, NEW A, NEW args \in [D -> Seq(A)], NEW n \in D, NEW i \in DOMAIN args[n], NEW to \in A
  PROVE  /\ DOMAIN Put(args, n, i, to) = D
         /\ DOMAIN Put(args, n, i, to)[n] = DOMAIN args[n]
         /\ Put(args, n, i, to)[n][i] = to
         /\ \A j \in DOMAIN args[n] : j # i => Put(args, n, i, to)[n][j] = args[n][j]
         /\ \A u \in D : u # n => Put(args, n, i, to)[u] = args[u]
<1>1. args[n] \in Seq(A) /\ DOMAIN args[n] = 1 .. Len(args[n])
  BY LenProperties
<1> QED BY <1>1 DEF Put

(***************************************************************************)
(* Graphs.                                                                 *)
(***************************************************************************)

IsGraph(g) ==
  /\ g = [nodes |-> g.nodes, args |-> g.args, users |-> g.users, dom |-> g.dom, pdom |-> g.pdom]
  /\ Listed(DOMAIN g.args, g.args, g.users)
  /\ g.nodes \in Seq(DOMAIN g.args) /\ IsInjective(g.nodes)
  /\ g.dom \in [DOMAIN g.args -> DOMAIN g.args \cup {None}]
  /\ g.pdom \in [DOMAIN g.args -> DOMAIN g.args \cup {None}]

\* The parts of a graph that setting an argument leaves alone.
SameNodes(g, h) == h.nodes = g.nodes /\ h.dom = g.dom /\ h.pdom = g.pdom

LEMMA SetArgumentKeeps ==
  ASSUME NEW g, IsGraph(g), NEW n \in DOMAIN g.args, NEW i \in DOMAIN g.args[n], NEW to,
         to = None \/ to \in DOMAIN g.args
  PROVE  /\ IsGraph(SetArgument(g, n, i, to))
         /\ SetArgument(g, n, i, to).args = Put(g.args, n, i, to)
         /\ SameNodes(g, SetArgument(g, n, i, to))
<1> DEFINE h == SetArgument(g, n, i, to)
           D == DOMAIN g.args
           lists == Add(Drop(g.users, g.args[n][i], <<n, i>>), to, <<n, i>>)
<1>1. h = [g EXCEPT !.args = Put(g.args, n, i, to), !.users = lists]
  BY DEF SetArgument, Put, Add, Drop
<1>2. /\ g = [nodes |-> g.nodes, args |-> g.args, users |-> g.users, dom |-> g.dom, pdom |-> g.pdom]
      /\ Listed(D, g.args, g.users)
  BY DEF IsGraph
<1> HIDE DEF h, lists
<1>3. h = [nodes |-> g.nodes, args |-> Put(g.args, n, i, to), users |-> lists, dom |-> g.dom, pdom |-> g.pdom]
  BY <1>1, <1>2
<1>4. Listed(D, Put(g.args, n, i, to), lists)
  <2>1. to \in D \cup {None}
    OBVIOUS
  <2>2. n \in D /\ i \in DOMAIN g.args[n] /\ Listed(D, g.args, g.users)
    BY <1>2
  <2> HIDE DEF D
  <2> QED BY ONLY <2>1, <2>2, OneMoves DEF lists
<1>5. DOMAIN Put(g.args, n, i, to) = D
  BY DEF Put
<1>6. IsGraph(h)
  BY <1>3, <1>4, <1>5 DEF IsGraph
<1> QED BY <1>3, <1>6 DEF h, SameNodes

(***************************************************************************)
(* Sound graphs.                                                           *)
(***************************************************************************)

\* The nodes that can be an argument.
Core == {"Root", "Def", "Phi"}
IsCore(n) == Type(n) \in Core

\* The walk of getDef goes from n to m only if m comes before n.
Before(m, n) == IsCore(m) /\ (IsCore(n) => OpOf(m) < OpOf(n))

Live(g) == Range(g.nodes)

Arity(n) == IF n = Root THEN 0 ELSE IF Type(n) = "Phi" THEN 2 ELSE 1

\* What may be an argument of n.
MayUse(n, a) == a = None \/ (IsCore(a) /\ (Type(n) = "Phi" \/ Before(a, n)))

NodeFine(g, n) ==
  /\ DOMAIN g.args[n] = 1 .. Arity(n)
  /\ \A i \in DOMAIN g.args[n] : MayUse(n, g.args[n][i])
  /\ g.dom[n] # None => IsCore(n) /\ Before(g.dom[n], n)
  /\ g.pdom[n] # None => IsCore(g.pdom[n]) /\ Before(n, g.pdom[n])
  /\ n \notin Live(g) => \A i \in DOMAIN g.args[n] : g.args[n][i] = None

\* A live node has all its arguments, and a Phi its dominator.
Settled(g, n) ==
  n \in Live(g) /\ n # Root => /\ \A i \in DOMAIN g.args[n] : g.args[n][i] # None
                               /\ Type(n) = "Phi" => g.dom[n] # None

\* A graph in which every node but those of X is complete.
Sound(g, X) ==
  /\ IsGraph(g)
  /\ \A n \in DOMAIN g.args : NodeFine(g, n) /\ (n \in X \/ Settled(g, n))

LEMMA MoreOpen ==
  ASSUME NEW g, NEW X, NEW Y, Sound(g, X), X \subseteq Y
  PROVE  Sound(g, Y)
BY DEF Sound

LEMMA Closes ==
  ASSUME NEW g, NEW X, NEW n, Sound(g, X), Settled(g, n)
  PROVE  Sound(g, X \ {n})
BY DEF Sound

LEMMA GraphTypes ==
  ASSUME NEW g, IsGraph(g)
  PROVE  /\ DOMAIN g.args \subseteq Nodes /\ None \notin DOMAIN g.args
         /\ DOMAIN g.users = DOMAIN g.args /\ DOMAIN g.dom = DOMAIN g.args /\ DOMAIN g.pdom = DOMAIN g.args
         /\ g.args \in [DOMAIN g.args -> Seq(DOMAIN g.args \cup {None})]
         /\ Live(g) \subseteq DOMAIN g.args
         /\ g.nodes \in Seq(DOMAIN g.args) /\ IsInjective(g.nodes)
         /\ \A n \in DOMAIN g.args : \A i \in DOMAIN g.args[n] :
              i \in Nat /\ (g.args[n][i] = None \/ g.args[n][i] \in DOMAIN g.args)
<1> DEFINE D == DOMAIN g.args
<1>1. D \subseteq Nodes /\ g.args \in [D -> Seq(D \cup {None})]
  BY DEF IsGraph, Listed
<1>2. None \notin D
  BY <1>1, NoneAssumption DEF Nodes
<1>3. Live(g) \subseteq D
  BY RangeOfSeq DEF IsGraph, Live
<1>4. ASSUME NEW n \in D, NEW i \in DOMAIN g.args[n]
      PROVE  i \in Nat /\ g.args[n][i] \in D \cup {None}
  <2>1. g.args[n] \in Seq(D \cup {None})
    BY <1>1
  <2>2. i \in 1 .. Len(g.args[n]) /\ Len(g.args[n]) \in Nat
    BY <2>1, LenProperties
  <2> QED BY <2>1, <2>2, ElementOfSeq
<1> QED BY <1>1, <1>2, <1>3, <1>4 DEF IsGraph, Listed

\* setArgument.
LEMMA ArgumentSet ==
  ASSUME NEW g, NEW X, Sound(g, X), NEW n \in DOMAIN g.args, NEW i \in DOMAIN g.args[n], NEW to,
         to = None \/ to \in DOMAIN g.args, MayUse(n, to),
         to = None => n \in X, to # None => n \in Live(g)
  PROVE  Sound(SetArgument(g, n, i, to), X)
<1> DEFINE h == SetArgument(g, n, i, to)
           D == DOMAIN g.args
<1>1. IsGraph(h) /\ h.args = Put(g.args, n, i, to) /\ h.nodes = g.nodes /\ h.dom = g.dom /\ h.pdom = g.pdom
  BY SetArgumentKeeps DEF Sound, SameNodes
<1>2. /\ DOMAIN h.args = D
      /\ DOMAIN h.args[n] = DOMAIN g.args[n]
      /\ h.args[n][i] = to
      /\ \A j \in DOMAIN g.args[n] : j # i => h.args[n][j] = g.args[n][j]
      /\ \A u \in D : u # n => h.args[u] = g.args[u]
  <2>1. g.args \in [D -> Seq(D \cup {None})] /\ to \in D \cup {None}
    BY GraphTypes DEF Sound
  <2> QED BY <1>1, <2>1, PutAt
<1>3. Live(h) = Live(g)
  BY <1>1 DEF Live
<1> HIDE DEF h
<1>4. ASSUME NEW u \in D PROVE NodeFine(h, u) /\ (u \in X \/ Settled(h, u))
  <2>1. NodeFine(g, u) /\ (u \in X \/ Settled(g, u))
    BY DEF Sound
  <2>2. CASE u # n
    BY <1>1, <1>2, <1>3, <2>1, <2>2 DEF NodeFine, Settled
  <2>3. CASE u = n
    <3>1. \A j \in DOMAIN h.args[u] : h.args[u][j] = IF j = i THEN to ELSE g.args[u][j]
      BY <1>2, <2>3
    <3>2. NodeFine(h, u)
      BY <1>1, <1>2, <1>3, <2>1, <2>3, <3>1 DEF NodeFine
    <3>3. u \in X \/ Settled(h, u)
      BY <1>1, <1>2, <1>3, <2>1, <2>3, <3>1 DEF Settled
    <3> QED BY <3>2, <3>3
  <2> QED BY <2>2, <2>3
<1>5. Sound(h, X)
  BY <1>1, <1>2, <1>4 DEF Sound
<1> QED BY <1>5 DEF h

\* The dominator fields change.
WithDominators(g, doms, pdoms) == [g EXCEPT !.dom = doms, !.pdom = pdoms]

DominatorsFit(g, doms, pdoms) ==
  /\ doms \in [DOMAIN g.args -> DOMAIN g.args \cup {None}]
  /\ pdoms \in [DOMAIN g.args -> DOMAIN g.args \cup {None}]
  /\ \A u \in DOMAIN g.args : doms[u] = g.dom[u] \/ (doms[u] # None /\ IsCore(u) /\ Before(doms[u], u))
  /\ \A u \in DOMAIN g.args : pdoms[u] = g.pdom[u] \/ (IsCore(pdoms[u]) /\ Before(u, pdoms[u]))

LEMMA DominatorsChange ==
  ASSUME NEW g, NEW X, Sound(g, X), NEW doms, NEW pdoms, DominatorsFit(g, doms, pdoms)
  PROVE  /\ Sound(WithDominators(g, doms, pdoms), X)
         /\ WithDominators(g, doms, pdoms).args = g.args
         /\ WithDominators(g, doms, pdoms).nodes = g.nodes
         /\ WithDominators(g, doms, pdoms).dom = doms
<1> DEFINE D == DOMAIN g.args
           h == WithDominators(g, doms, pdoms)
<1>0. h = [g EXCEPT !.dom = doms, !.pdom = pdoms]
  BY DEF WithDominators
<1> HIDE DEF h
<1>1. /\ IsGraph(g)
      /\ g = [nodes |-> g.nodes, args |-> g.args, users |-> g.users, dom |-> g.dom, pdom |-> g.pdom]
  BY DEF Sound, IsGraph
<1>2. h = [nodes |-> g.nodes, args |-> g.args, users |-> g.users, dom |-> doms, pdom |-> pdoms]
  BY <1>0, <1>1
<1>3. /\ h.nodes = g.nodes /\ h.args = g.args /\ h.users = g.users /\ h.dom = doms /\ h.pdom = pdoms
      /\ h = [nodes |-> h.nodes, args |-> h.args, users |-> h.users, dom |-> h.dom, pdom |-> h.pdom]
  BY <1>2
<1>4. IsGraph(h)
  BY <1>1, <1>3 DEF IsGraph, DominatorsFit
<1>5. Live(h) = Live(g)
  BY <1>3 DEF Live
<1>6. ASSUME NEW u \in D PROVE NodeFine(h, u) /\ (u \in X \/ Settled(h, u))
  <2>1. NodeFine(g, u) /\ (u \in X \/ Settled(g, u))
    BY DEF Sound
  <2>2. NodeFine(h, u)
    BY <1>3, <1>5, <2>1 DEF NodeFine, DominatorsFit
  <2>3. u \in X \/ Settled(h, u)
    BY <1>3, <1>5, <2>1 DEF Settled, DominatorsFit
  <2> QED BY <2>2, <2>3
<1> QED BY <1>3, <1>4, <1>6 DEF Sound, h

\* setDominator with setPostDominator.
LEMMA DominatorsSet ==
  ASSUME NEW g, NEW X, Sound(g, X), NEW n \in DOMAIN g.args, NEW m \in DOMAIN g.args,
         IsCore(m), Before(n, m)
  PROVE  /\ Sound(Dominates(g, n, m), X)
         /\ Dominates(g, n, m).args = g.args
         /\ Dominates(g, n, m).nodes = g.nodes
         /\ Dominates(g, n, m).dom[m] # None
         /\ \A u \in DOMAIN g.args : g.dom[u] # None => Dominates(g, n, m).dom[u] # None
<1> DEFINE h == Dominates(g, n, m)
           D == DOMAIN g.args
           doms == [g.dom EXCEPT ![m] = n]
           pdoms == [g.pdom EXCEPT ![n] = m]
<1>1. /\ None \notin D /\ g.dom \in [D -> D \cup {None}] /\ g.pdom \in [D -> D \cup {None}]
  BY GraphTypes DEF Sound, IsGraph
<1>2. h = WithDominators(g, doms, pdoms)
  BY DEF Dominates, WithDominators
<1>3. /\ DominatorsFit(g, doms, pdoms) /\ doms[m] # None
      /\ \A u \in D : g.dom[u] # None => doms[u] # None
  BY <1>1 DEF DominatorsFit
<1> HIDE DEF h, doms, pdoms
<1>4. Sound(h, X) /\ h.args = g.args /\ h.nodes = g.nodes /\ h.dom = doms
  BY <1>2, <1>3, DominatorsChange
<1> QED BY <1>3, <1>4 DEF h

\* What ReplaceUses does.
LEMMA UsesReplaced ==
  ASSUME NEW g, NEW X, Sound(g, X), NEW n \in DOMAIN g.args, NEW to \in DOMAIN g.args, Before(to, n), IsCore(n)
  PROVE  /\ Sound(ReplaceUses(g, n, to), X)
         /\ ReplaceUses(g, n, to).args = Renamed(g.args, n, to)
         /\ SameNodes(g, ReplaceUses(g, n, to))
<1> DEFINE h == ReplaceUses(g, n, to)
           D == DOMAIN g.args
           lists == [g.users EXCEPT ![n] = << >>, ![to] = g.users[to] \o g.users[n]]
<1>1. /\ IsGraph(g) /\ D \subseteq Nodes /\ None \notin D
      /\ g = [nodes |-> g.nodes, args |-> g.args, users |-> g.users, dom |-> g.dom, pdom |-> g.pdom]
      /\ Listed(D, g.args, g.users)
      /\ g.users \in [D -> Seq(Nodes \X Nat)]
  BY GraphTypes DEF Sound, IsGraph, Listed
<1>2. n # to
  BY <1>1 DEF Before, OpOf, Nodes
<1>3. \A u \in D : \A i \in DOMAIN g.args[u] : <<u, i>> \in Range(g.users[n]) <=> g.args[u][i] = n
  <2>1. \A u \in D : \A i \in DOMAIN g.args[u] : i \in Nat
    BY GraphTypes DEF Sound
  <2>2. Range(g.users[n]) = Uses(g.args, n)
    BY <1>1 DEF Listed
  <2> QED BY <1>1, <2>1, <2>2 DEF Uses
<1>4. h = [g EXCEPT !.args = Renamed(g.args, n, to), !.users = lists]
  <2>1. Renamed(g.args, n, to)
          = [u \in D |-> [i \in DOMAIN g.args[u] |-> IF <<u, i>> \in Range(g.users[n]) THEN to ELSE g.args[u][i]]]
    BY <1>3 DEF Renamed
  <2>2. g.users[n] = g.users[n] /\ [g.users EXCEPT ![n] = << >>][to] = g.users[to]
    BY <1>1, <1>2
  <2> QED BY <1>1, <1>2, <2>1, <2>2 DEF ReplaceUses
<1> HIDE DEF h
<1>5. h = [nodes |-> g.nodes, args |-> Renamed(g.args, n, to), users |-> lists, dom |-> g.dom, pdom |-> g.pdom]
  BY <1>1, <1>4
<1>6. Listed(D, Renamed(g.args, n, to), lists)
  BY <1>1, <1>2, AllMove
<1> HIDE DEF lists
<1>7. DOMAIN h.args = D /\ \A u \in D : /\ DOMAIN h.args[u] = DOMAIN g.args[u]
                                       /\ \A i \in DOMAIN g.args[u] :
                                            h.args[u][i] = IF g.args[u][i] = n THEN to ELSE g.args[u][i]
  BY <1>5 DEF Renamed
<1>8. IsGraph(h)
  BY <1>1, <1>5, <1>6, <1>7 DEF IsGraph
<1>9. Live(h) = Live(g)
  BY <1>5 DEF Live
<1>10. ASSUME NEW u \in D PROVE NodeFine(h, u) /\ (u \in X \/ Settled(h, u))
  <2>1. NodeFine(g, u) /\ (u \in X \/ Settled(g, u))
    BY DEF Sound
  <2>2. n # None /\ to # None
    BY <1>1
  <2>3. h.dom = g.dom /\ h.pdom = g.pdom
    BY <1>5
  <2>4. ASSUME NEW i \in DOMAIN g.args[u] PROVE MayUse(u, h.args[u][i])
    <3>1. CASE g.args[u][i] = n
      <4>1. MayUse(u, n) /\ h.args[u][i] = to
        BY <1>7, <2>1, <3>1 DEF NodeFine
      <4>2. OpOf(n) \in Nat /\ OpOf(to) \in Nat /\ OpOf(u) \in Nat
        BY <1>1 DEF Nodes, OpOf
      <4> QED BY <2>2, <4>1, <4>2 DEF MayUse, Before
    <3>2. CASE g.args[u][i] # n
      BY <1>7, <2>1, <3>2 DEF NodeFine
    <3> QED BY <3>1, <3>2
  <2>5. NodeFine(h, u)
    BY <1>7, <1>9, <2>1, <2>2, <2>3, <2>4 DEF NodeFine
  <2>6. u \in X \/ Settled(h, u)
    BY <1>7, <1>9, <2>1, <2>2, <2>3 DEF Settled
  <2> QED BY <2>5, <2>6
<1>11. Sound(h, X)
  BY <1>7, <1>8, <1>10 DEF Sound
<1> QED BY <1>5, <1>11 DEF h, SameNodes

(***************************************************************************)
(* Nodes are given arguments, created and erased.                          *)
(***************************************************************************)

\* A node that is erased: the previous node takes its place.
LEMMA Bypassed ==
  ASSUME NEW g, NEW X, Sound(g, X), NEW n \in DOMAIN g.args, Type(n) = "Def", g.args[n][1] # None
  PROVE  /\ Sound(Bypass(g, n), X)
         /\ DOMAIN Bypass(g, n).args = DOMAIN g.args
         /\ Bypass(g, n).nodes = g.nodes
<1> DEFINE D == DOMAIN g.args
           prev == g.args[n][1]
           moved == ReplaceUses(g, n, prev)
           post == g.pdom[n]
           h == Bypass(g, n)
<1>1. /\ IsGraph(g) /\ D \subseteq Nodes /\ None \notin D
      /\ g.dom \in [D -> D \cup {None}] /\ g.pdom \in [D -> D \cup {None}]
  BY GraphTypes DEF Sound, IsGraph
<1>2. NodeFine(g, n) /\ IsCore(n) /\ n # Root /\ Arity(n) = 1
  BY DEF Sound, IsCore, Core, Type, Root, Arity
<1>3. prev \in D /\ IsCore(prev) /\ Before(prev, n)
  <2>1. 1 \in DOMAIN g.args[n] /\ MayUse(n, prev)
    BY <1>2 DEF NodeFine
  <2> QED BY <1>1, <2>1, GraphTypes DEF MayUse
<1>4. /\ Sound(moved, X) /\ moved.args = Renamed(g.args, n, prev)
      /\ moved.nodes = g.nodes /\ moved.dom = g.dom /\ moved.pdom = g.pdom
  <2>1. Before(prev, n) /\ IsCore(n) /\ prev \in D /\ n \in D
    BY <1>2, <1>3
  <2> HIDE DEF prev
  <2>2. Sound(moved, X) /\ moved.args = Renamed(g.args, n, prev) /\ SameNodes(g, moved)
    BY <2>1, UsesReplaced
  <2> QED BY <2>2 DEF SameNodes
<1>5. DOMAIN moved.args = D
  BY <1>4 DEF Renamed
<1>6. CASE post = None
  BY <1>4, <1>5, <1>6 DEF Bypass
<1>7. CASE post # None
  <2> DEFINE doms == [g.dom EXCEPT ![post] = prev]
             pdoms == [g.pdom EXCEPT ![prev] = IF g.pdom[prev] = None THEN post ELSE g.pdom[prev]]
  <2>1. h = WithDominators(moved, doms, pdoms)
    <3>1. h = [moved EXCEPT !.dom[post] = prev, !.pdom[prev] = IF @ = None THEN post ELSE @]
      BY <1>7 DEF Bypass
    <3> HIDE DEF moved, post, prev
    <3>2. h = [moved EXCEPT !.dom = [moved.dom EXCEPT ![post] = prev],
                            !.pdom = [moved.pdom EXCEPT ![prev] = IF moved.pdom[prev] = None THEN post ELSE moved.pdom[prev]]]
      BY <3>1
    <3> QED BY <1>4, <3>2 DEF WithDominators, post
  <2>2. post \in D /\ IsCore(post) /\ Before(n, post)
    BY <1>1, <1>2, <1>7 DEF NodeFine
  <2>3. Before(prev, post)
    <3>1. OpOf(prev) \in Nat /\ OpOf(n) \in Nat /\ OpOf(post) \in Nat
      BY <1>1, <1>3, <2>2 DEF Nodes, OpOf
    <3> QED BY <1>2, <1>3, <2>2, <3>1 DEF Before
  <2> HIDE DEF prev, moved, post, h
  <2>4. DominatorsFit(moved, doms, pdoms)
    BY <1>1, <1>3, <1>4, <1>5, <2>2, <2>3 DEF DominatorsFit
  <2> HIDE DEF doms, pdoms
  <2>5. Sound(h, X) /\ h.args = moved.args /\ h.nodes = moved.nodes
    BY <1>4, <2>1, <2>4, DominatorsChange
  <2> QED BY <1>4, <1>5, <2>5 DEF h
<1> QED BY <1>6, <1>7

\* Argument i of node n can be set, and is.
CanSet(g, X, n, i, to) ==
  /\ Sound(g, X) /\ n \in DOMAIN g.args /\ i \in DOMAIN g.args[n]
  /\ to = None \/ to \in DOMAIN g.args
  /\ MayUse(n, to)
  /\ to = None => n \in X
  /\ to # None => n \in Live(g)

IsSet(g, X, n, i, to, h) ==
  /\ Sound(h, X) /\ SameNodes(g, h)
  /\ DOMAIN h.args = DOMAIN g.args
  /\ DOMAIN h.args[n] = DOMAIN g.args[n] /\ h.args[n][i] = to
  /\ \A j \in DOMAIN g.args[n] : j # i => h.args[n][j] = g.args[n][j]
  /\ \A u \in DOMAIN g.args : u # n => h.args[u] = g.args[u]

LEMMA OneSet ==
  ASSUME NEW g, NEW X, NEW n, NEW i, NEW to, CanSet(g, X, n, i, to)
  PROVE  IsSet(g, X, n, i, to, SetArgument(g, n, i, to))
<1> DEFINE h == SetArgument(g, n, i, to)
           A == DOMAIN g.args \cup {None}
<1>1. /\ Sound(g, X) /\ IsGraph(g) /\ n \in DOMAIN g.args /\ i \in DOMAIN g.args[n]
      /\ to = None \/ to \in DOMAIN g.args
      /\ MayUse(n, to)
      /\ to = None => n \in X
      /\ to # None => n \in Live(g)
  BY DEF CanSet, Sound
<1> HIDE DEF h
<1>2. Sound(h, X)
  BY ONLY <1>1, ArgumentSet DEF h
<1>3. h.args = Put(g.args, n, i, to) /\ SameNodes(g, h)
  BY ONLY <1>1, SetArgumentKeeps DEF h
<1>4. g.args \in [DOMAIN g.args -> Seq(A)] /\ to \in A
  BY <1>1, GraphTypes
<1> HIDE DEF A
<1>5. /\ DOMAIN Put(g.args, n, i, to) = DOMAIN g.args
      /\ DOMAIN Put(g.args, n, i, to)[n] = DOMAIN g.args[n]
      /\ Put(g.args, n, i, to)[n][i] = to
      /\ \A j \in DOMAIN g.args[n] : j # i => Put(g.args, n, i, to)[n][j] = g.args[n][j]
      /\ \A u \in DOMAIN g.args : u # n => Put(g.args, n, i, to)[u] = g.args[u]
  BY ONLY <1>1, <1>4, PutAt
<1> QED BY <1>2, <1>3, <1>5 DEF h, IsSet

\* The arguments that node n may be given.
Fitting(g, n, arguments) ==
  /\ arguments \in Seq(DOMAIN g.args \cup {None})
  /\ Len(arguments) = Arity(n)
  /\ \A i \in DOMAIN arguments : MayUse(n, arguments[i]) /\ (arguments[i] # None => n \in Live(g))

\* All arguments of a node that is not complete yet.
LEMMA ArgumentsSet ==
  ASSUME NEW g, NEW X, Sound(g, X), NEW n \in DOMAIN g.args, n # Root, n \in X,
         NEW arguments, Fitting(g, n, arguments)
  PROVE  /\ Sound(SetArguments(g, n, arguments), X)
         /\ DOMAIN SetArguments(g, n, arguments).args = DOMAIN g.args
         /\ SetArguments(g, n, arguments).args[n] = arguments
         /\ \A u \in DOMAIN g.args : u # n => SetArguments(g, n, arguments).args[u] = g.args[u]
         /\ SameNodes(g, SetArguments(g, n, arguments))
<1> DEFINE D == DOMAIN g.args
           A == D \cup {None}
           one == SetArgument(g, n, 1, arguments[1])
           two == SetArgument(one, n, 2, arguments[2])
           h == SetArguments(g, n, arguments)
<1>1. /\ IsGraph(g) /\ DOMAIN g.args[n] = 1 .. Arity(n) /\ Arity(n) \in {1, 2}
      /\ g.args \in [D -> Seq(A)]
  BY GraphTypes DEF Sound, NodeFine, Arity
<1> HIDE DEF one, two, h
<1>2. DOMAIN arguments = 1 .. Arity(n) /\ \A i \in 1 .. Arity(n) : arguments[i] = None \/ arguments[i] \in D
  <2>1. arguments \in Seq(A) /\ DOMAIN arguments = 1 .. Arity(n)
    BY LenProperties DEF Fitting
  <2>2. \A i \in DOMAIN arguments : arguments[i] \in A
    BY <2>1, <1>1, ElementOfSeq, LenProperties
  <2> QED BY <2>1, <2>2
<1>3. CanSet(g, X, n, 1, arguments[1])
  BY <1>1, <1>2 DEF Fitting, CanSet
<1>4. IsSet(g, X, n, 1, arguments[1], one)
  BY <1>3, OneSet DEF one
<1>5. ASSUME NEW k, IsGraph(k), DOMAIN k.args = D, DOMAIN k.args[n] = 1 .. Arity(n),
             \A i \in 1 .. Arity(n) : k.args[n][i] = arguments[i]
      PROVE  k.args[n] = arguments
  <2>1. k.args[n] \in Seq(A) /\ arguments \in Seq(A)
    BY <1>5, GraphTypes DEF Fitting
  <2>2. Len(k.args[n]) = Arity(n) /\ Len(arguments) = Arity(n)
    BY <1>1, <1>2, <1>5, <2>1, LenProperties DEF Fitting
  <2> HIDE DEF A
  <2> QED BY <1>5, <2>1, <2>2, SeqEqual
<1>6. CASE Arity(n) = 1
  <2>1. h = one
    BY <1>6 DEF SetArguments, Fitting, one, h
  <2>2. one.args[n] = arguments
    BY <1>1, <1>4, <1>5, <1>6 DEF IsSet, Sound
  <2> QED BY <1>4, <2>1, <2>2 DEF h, IsSet
<1>7. CASE Arity(n) = 2
  <2>1. h = two
    BY <1>7 DEF SetArguments, Fitting, one, two, h
  <2>2. CanSet(one, X, n, 2, arguments[2])
    BY <1>1, <1>2, <1>4, <1>7 DEF Fitting, SameNodes, Live, CanSet, IsSet
  <2>3. IsSet(one, X, n, 2, arguments[2], two)
    BY <2>2, OneSet DEF two
  <2>4. two.args[n] = arguments
    <3>1. \A i \in 1 .. Arity(n) : two.args[n][i] = arguments[i]
      BY <1>1, <1>4, <1>7, <2>3 DEF IsSet
    <3> QED BY <1>1, <1>4, <1>5, <2>3, <3>1 DEF IsSet, Sound
  <2>5. SameNodes(g, two)
    BY <1>4, <2>3 DEF SameNodes, IsSet
  <2> QED BY <1>4, <2>1, <2>3, <2>4, <2>5 DEF h, IsSet
<1> QED BY <1>1, <1>6, <1>7

\* createNode.
CanCreate(g, n, arguments) ==
  /\ n \in Nodes /\ n \notin DOMAIN g.args /\ n # Root
  /\ arguments \in Seq(DOMAIN g.args \cup {None})
  /\ Len(arguments) = Arity(n)
  /\ \A i \in DOMAIN arguments : MayUse(n, arguments[i])

IsCreated(g, X, n, arguments, h) ==
  /\ Sound(h, X \cup {n})
  /\ DOMAIN h.args = DOMAIN g.args \cup {n}
  /\ h.args[n] = arguments
  /\ \A u \in DOMAIN g.args : h.args[u] = g.args[u]
  /\ Live(h) = Live(g) \cup {n} /\ h.nodes = Append(g.nodes, n)
  /\ \A u \in DOMAIN g.args : h.dom[u] = g.dom[u] /\ h.pdom[u] = g.pdom[u]
  /\ h.dom[n] = None /\ h.pdom[n] = None

LEMMA NodeCreated ==
  ASSUME NEW g, NEW X, Sound(g, X), NEW n, NEW arguments, CanCreate(g, n, arguments)
  PROVE  IsCreated(g, X, n, arguments, CreateNode(g, n, arguments))
<1>0. /\ n \in Nodes /\ n \notin DOMAIN g.args /\ n # Root
      /\ arguments \in Seq(DOMAIN g.args \cup {None})
      /\ Len(arguments) = Arity(n)
      /\ \A i \in DOMAIN arguments : MayUse(n, arguments[i])
  BY DEF CanCreate
<1> DEFINE D == DOMAIN g.args
           E == D \cup {n}
           none == [i \in DOMAIN arguments |-> None]
           f == [nodes |-> Append(g.nodes, n),
                 args  |-> With(g.args, n, none),
                 users |-> With(g.users, n, <<>>),
                 dom   |-> With(g.dom, n, None),
                 pdom  |-> With(g.pdom, n, None)]
           h == CreateNode(g, n, arguments)
<1>1. /\ IsGraph(g) /\ D \subseteq Nodes /\ None \notin D /\ None # n /\ Live(g) \subseteq D
      /\ g.nodes \in Seq(D) /\ IsInjective(g.nodes)
      /\ Listed(D, g.args, g.users)
      /\ g.args \in [D -> Seq(D \cup {None})]
      /\ g.dom \in [D -> D \cup {None}] /\ g.pdom \in [D -> D \cup {None}]
  BY <1>0, GraphTypes, NoneAssumption DEF Sound, IsGraph, Nodes
<1>2. DOMAIN arguments = 1 .. Arity(n) /\ Arity(n) \in {1, 2}
  BY <1>0, LenProperties DEF Arity
<1>3. none \in Seq({None})
  BY <1>2, SeqDef
<1>4. /\ f.nodes \in Seq(E) /\ IsInjective(f.nodes) /\ Live(f) = Live(g) \cup {n}
  <2>1. g.nodes \in Seq(E) /\ n \notin Range(g.nodes)
    BY <1>0, <1>1, SeqMonotonic DEF Live
  <2> HIDE DEF E
  <2>2. n \in E
    BY DEF E
  <2> QED BY <1>1, <2>1, <2>2, AppendList DEF Live
<1>5. Listed(E, f.args, f.users)
  BY <1>0, <1>1, <1>3, NodeAdded
<1>6. /\ DOMAIN f.args = E /\ f.args[n] = none /\ \A u \in D : f.args[u] = g.args[u]
      /\ f.dom \in [E -> E \cup {None}] /\ f.dom[n] = None /\ \A u \in D : f.dom[u] = g.dom[u]
      /\ f.pdom \in [E -> E \cup {None}] /\ f.pdom[n] = None /\ \A u \in D : f.pdom[u] = g.pdom[u]
      /\ f = [nodes |-> f.nodes, args |-> f.args, users |-> f.users, dom |-> f.dom, pdom |-> f.pdom]
      /\ f.nodes = Append(g.nodes, n)
  BY <1>0, <1>1 DEF With
<1>7. DOMAIN none = 1 .. Arity(n) /\ \A i \in DOMAIN none : none[i] = None
  BY <1>2
<1> HIDE DEF f
<1>8. IsGraph(f)
  BY <1>4, <1>5, <1>6 DEF IsGraph
<1>9. ASSUME NEW u \in E PROVE NodeFine(f, u) /\ (u \in X \cup {n} \/ Settled(f, u))
  <2>1. CASE u = n
    BY <1>6, <1>7, <2>1 DEF NodeFine, MayUse
  <2>2. CASE u # n
    <3>1. u \in D /\ NodeFine(g, u) /\ (u \in X \/ Settled(g, u))
      BY <2>2 DEF Sound
    <3>2. NodeFine(f, u)
      BY <1>4, <1>6, <2>2, <3>1 DEF NodeFine
    <3>3. u \in X \/ Settled(f, u)
      BY <1>0, <1>4, <1>6, <2>2, <3>1 DEF Settled
    <3> QED BY <3>2, <3>3
  <2> QED BY <2>1, <2>2
<1>10. Sound(f, X \cup {n})
  BY <1>6, <1>8, <1>9 DEF Sound
<1>11. Fitting(f, n, arguments)
  <2>1. arguments \in Seq(E \cup {None})
    BY <1>0, SeqMonotonic
  <2> QED BY <1>0, <1>4, <1>6, <2>1 DEF Fitting
<1>12. h = SetArguments(f, n, arguments)
  BY DEF CreateNode, f
<1>13. n \in DOMAIN f.args /\ n \in X \cup {n}
  BY <1>6
<1> HIDE DEF h
<1> DEFINE Y == X \cup {n}
<1>14. Sound(f, Y) /\ n \in Y
  BY <1>10, <1>13
<1> HIDE DEF Y
<1>15. /\ Sound(h, Y) /\ DOMAIN h.args = E /\ h.args[n] = arguments
       /\ \A u \in E : u # n => h.args[u] = f.args[u]
       /\ SameNodes(f, h)
  BY <1>0, <1>6, <1>11, <1>12, <1>13, <1>14, ArgumentsSet
<1>16. Live(h) = Live(g) \cup {n} /\ h.dom = f.dom /\ h.pdom = f.pdom /\ h.nodes = f.nodes
  BY <1>4, <1>15 DEF Live, SameNodes
<1> QED BY <1>0, <1>6, <1>15, <1>16 DEF Y, h, IsCreated

\* eraseNode.
LEMMA NodeErased ==
  ASSUME NEW g, NEW X, Sound(g, X), NEW n \in DOMAIN g.args, n # Root,
         Type(n) = "Def" => g.args[n][1] # None
  PROVE  /\ Sound(EraseNode(g, n), X \ {n})
         /\ DOMAIN EraseNode(g, n).args = DOMAIN g.args
         /\ Type(n) # "Def" => /\ \A u \in DOMAIN g.args : u # n => EraseNode(g, n).args[u] = g.args[u]
                               /\ EraseNode(g, n).dom = g.dom /\ EraseNode(g, n).pdom = g.pdom
         /\ EraseNode(g, n).nodes = Without(g.nodes, n)
         /\ Live(EraseNode(g, n)) = Live(g) \ {n}
<1> DEFINE D == DOMAIN g.args
           h == IF Type(n) = "Def" THEN Bypass(g, n) ELSE g
           none == [i \in DOMAIN h.args[n] |-> None]
           k == SetArguments(h, n, none)
           e == EraseNode(g, n)
           Y == X \cup {n}
<1>1. Sound(h, X) /\ DOMAIN h.args = D /\ h.nodes = g.nodes /\ (Type(n) # "Def" => h = g)
  BY Bypassed
<1>2. e = [k EXCEPT !.nodes = Without(k.nodes, n)]
  BY DEF EraseNode
<1> HIDE DEF h, e
<1>3. Sound(h, Y) /\ n \in Y
  BY <1>1, MoreOpen
<1>4. Fitting(h, n, none)
  <2>1. DOMAIN h.args[n] = 1 .. Arity(n) /\ Arity(n) \in {1, 2}
    BY <1>1 DEF Sound, NodeFine, Arity
  <2>2. none \in Seq(D \cup {None}) /\ Len(none) = Arity(n) /\ DOMAIN none = 1 .. Arity(n)
    BY <2>1, SeqDef
  <2>3. \A i \in 1 .. Arity(n) : none[i] = None
    BY <2>1
  <2> HIDE DEF none
  <2> QED BY <1>1, <2>2, <2>3 DEF Fitting, MayUse
<1> HIDE DEF Y
<1>5. /\ Sound(k, Y) /\ DOMAIN k.args = D /\ k.args[n] = none
      /\ (\A u \in D : u # n => k.args[u] = h.args[u])
      /\ SameNodes(h, k)
  BY <1>1, <1>3, <1>4, ArgumentsSet
<1>6. \A i \in DOMAIN none : none[i] = None
  OBVIOUS
<1> HIDE DEF k, none
<1>7. /\ IsGraph(k)
      /\ k = [nodes |-> k.nodes, args |-> k.args, users |-> k.users, dom |-> k.dom, pdom |-> k.pdom]
      /\ k.nodes \in Seq(D) /\ IsInjective(k.nodes)
  BY <1>5, GraphTypes DEF Sound, IsGraph
<1>8. e = [nodes |-> Without(k.nodes, n), args |-> k.args, users |-> k.users, dom |-> k.dom, pdom |-> k.pdom]
  BY <1>2, <1>7
<1>9. Without(k.nodes, n) \in Seq(D) /\ Range(Without(k.nodes, n)) = Range(k.nodes) \ {n} /\ IsInjective(Without(k.nodes, n))
  BY <1>7, WithoutList
<1>10. IsGraph(e)
  BY <1>5, <1>7, <1>8, <1>9 DEF IsGraph
<1>11. Live(e) = Live(k) \ {n}
  BY <1>8, <1>9 DEF Live
<1>12. ASSUME NEW u \in D PROVE NodeFine(e, u) /\ (u \in X \ {n} \/ Settled(e, u))
  <2>1. NodeFine(k, u) /\ (u \in Y \/ Settled(k, u))
    BY <1>5 DEF Sound
  <2>2. e.args = k.args /\ e.dom = k.dom /\ e.pdom = k.pdom
    BY <1>8
  <2>3. NodeFine(e, u)
    BY <1>5, <1>6, <1>11, <2>1, <2>2 DEF NodeFine
  <2>4. u \in X \ {n} \/ Settled(e, u)
    BY <1>11, <2>1, <2>2 DEF Settled, Y
  <2> QED BY <2>3, <2>4
<1>13. e.args = k.args /\ e.dom = k.dom /\ e.pdom = k.pdom /\ e.nodes = Without(k.nodes, n)
  BY <1>8
<1>14. Sound(e, X \ {n})
  BY <1>5, <1>10, <1>12, <1>13 DEF Sound
<1>15. Live(k) = Live(g) /\ k.dom = h.dom /\ k.pdom = h.pdom /\ k.nodes = g.nodes
  BY <1>1, <1>5 DEF SameNodes, Live
<1> QED BY <1>1, <1>5, <1>11, <1>13, <1>14, <1>15 DEF e

(***************************************************************************)
(* Folds, one step after the other.                                        *)
(***************************************************************************)

(***************************************************************************)
(* The folds of the model: over the operations before a position, over the *)
(* operations of a body, over the users of a node and over the nodes.       *)
(***************************************************************************)

StepOf(what, s, k) ==
  CASE what[1] = "around" -> Enter(what[2], s, k)
    [] what[1] = "build"  -> ProcessIfThere(what[2], what[3], s, k)
    [] what[1] = "cse"    -> Visit(s, what[2][k])
    [] what[1] = "path"   -> Behind(what[2], what[3], s)

IsSteps(f, what, base, n) == f = [k \in 0 .. n |-> IF k = 0 THEN base ELSE StepOf(what, f[k - 1], k)]

LEMMA LeastExists ==
  ASSUME NEW T \in SUBSET Nat, T # {}
  PROVE  \E n \in T : \A m \in T : n <= m
<1>1. IsWellFoundedOn(OpToRel(<, Nat), Nat)
  BY NatLessThanWellFounded
<1>2. PICK n \in T : \A m \in T : ~(<<m, n>> \in OpToRel(<, Nat))
  BY <1>1, WFMin
<1>3. ASSUME NEW m \in T PROVE n <= m
  <2>1. ~(m < n)
    BY <1>2 DEF OpToRel
  <2> QED BY <2>1
<1> QED BY <1>3

LEMMA StepsExist ==
  ASSUME NEW what, NEW base, NEW n \in Nat
  PROVE  \E f : IsSteps(f, what, base, n)
<1> DEFINE T == {m \in 0 .. n : ~ \E f : IsSteps(f, what, base, m)}
<1>1. SUFFICES ASSUME T # {} PROVE FALSE
  <2>1. n \in 0 .. n
    OBVIOUS
  <2> QED BY <2>1
<1>2. PICK m \in T : \A l \in T : m <= l
  <2>1. T \in SUBSET Nat
    OBVIOUS
  <2> QED BY <1>1, <2>1, LeastExists
<1>3. m \in 0 .. n /\ ~ \E f : IsSteps(f, what, base, m)
  OBVIOUS
<1>4. CASE m = 0
  <2> DEFINE f == [k \in 0 .. 0 |-> base]
  <2>1. IsSteps(f, what, base, 0)
    BY DEF IsSteps
  <2> QED BY <1>3, <1>4, <2>1
<1>5. CASE m # 0
  <2>1. m - 1 \in 0 .. n /\ m - 1 \notin T
    BY <1>2, <1>3, <1>5
  <2>2. PICK f : IsSteps(f, what, base, m - 1)
    BY <2>1
  <2> HIDE DEF T
  <2> DEFINE more == [k \in 0 .. m |-> IF k = m THEN StepOf(what, f[m - 1], m) ELSE f[k]]
  <2>3. ASSUME NEW k \in 0 .. m
        PROVE  more[k] = IF k = 0 THEN base ELSE StepOf(what, more[k - 1], k)
    <3>1. CASE k = m
      <4>1. more[k - 1] = f[m - 1]
        BY <1>3, <1>5, <3>1
      <4> QED BY <1>5, <3>1, <4>1
    <3>2. CASE k # m /\ k = 0
      BY <1>3, <2>2, <3>2 DEF IsSteps
    <3>3. CASE k # m /\ k # 0
      <4>1. k \in 0 .. m - 1 /\ k - 1 \in 0 .. m /\ k - 1 # m
        BY <1>3, <3>3
      <4>2. more[k - 1] = f[k - 1] /\ more[k] = f[k]
        BY <3>3, <4>1
      <4> QED BY <2>2, <3>3, <4>1, <4>2 DEF IsSteps
    <3> QED BY <3>1, <3>2, <3>3
  <2>4. more = [k \in 0 .. m |-> more[k]]
    OBVIOUS
  <2> HIDE DEF more
  <2>5. IsSteps(more, what, base, m)
    BY <2>3, <2>4 DEF IsSteps
  <2> QED BY <1>3, <2>5
<1> QED BY <1>4, <1>5

LEMMA StepsUnique ==
  ASSUME NEW what, NEW base, NEW n \in Nat, NEW m \in Nat, NEW f, NEW h,
         IsSteps(f, what, base, n), IsSteps(h, what, base, m), NEW k \in 0 .. n, k <= m
  PROVE  f[k] = h[k]
<1> DEFINE T == {l \in 0 .. k : f[l] # h[l]}
<1>1. SUFFICES ASSUME T # {} PROVE FALSE
  <2>1. k \in 0 .. k
    OBVIOUS
  <2> QED BY <2>1
<1>2. PICK l \in T : \A j \in T : l <= j
  <2>1. T \in SUBSET Nat
    OBVIOUS
  <2> QED BY <1>1, <2>1, LeastExists
<1>3. l \in 0 .. k /\ f[l] # h[l] /\ l \in 0 .. n /\ l \in 0 .. m
  OBVIOUS
<1>4. f[l] = (IF l = 0 THEN base ELSE StepOf(what, f[l - 1], l)) /\ h[l] = IF l = 0 THEN base ELSE StepOf(what, h[l - 1], l)
  BY <1>3 DEF IsSteps
<1>5. l # 0 /\ l - 1 \in 0 .. k /\ l - 1 \notin T
  BY <1>2, <1>3, <1>4
<1>6. f[l - 1] = h[l - 1]
  BY <1>5
<1> QED BY <1>3, <1>4, <1>6

Stepped(what, base, n) == (CHOOSE f : IsSteps(f, what, base, n))[n]

LEMMA SteppedIs ==
  ASSUME NEW what, NEW base, NEW n \in Nat, NEW f, IsSteps(f, what, base, n)
  PROVE  f[n] = Stepped(what, base, n)
<1> DEFINE h == CHOOSE x : IsSteps(x, what, base, n)
<1>1. IsSteps(h, what, base, n)
  BY StepsExist
<1>2. n \in 0 .. n /\ n <= n
  OBVIOUS
<1> HIDE DEF h
<1>3. f[n] = h[n]
  BY <1>1, <1>2, StepsUnique
<1> QED BY <1>3 DEF h, Stepped

LEMMA SteppedStart ==
  ASSUME NEW what, NEW base
  PROVE  Stepped(what, base, 0) = base
<1>1. PICK f : IsSteps(f, what, base, 0)
  BY StepsExist
<1>2. f[0] = base
  BY <1>1 DEF IsSteps
<1> QED BY <1>1, <1>2, SteppedIs

LEMMA SteppedNext ==
  ASSUME NEW what, NEW base, NEW n \in Nat
  PROVE  Stepped(what, base, n + 1) = StepOf(what, Stepped(what, base, n), n + 1)
<1>1. PICK f : IsSteps(f, what, base, n + 1)
  BY StepsExist
<1>2. PICK h : IsSteps(h, what, base, n)
  BY StepsExist
<1>3. f[n] = h[n]
  BY <1>1, <1>2, StepsUnique
<1>4. f[n + 1] = StepOf(what, f[n], n + 1)
  BY <1>1 DEF IsSteps
<1>5. f[n + 1] = Stepped(what, base, n + 1) /\ h[n] = Stepped(what, base, n)
  BY <1>1, <1>2, SteppedIs
<1> QED BY <1>3, <1>4, <1>5

\* Around.
LEMMA AroundFolds ==
  ASSUME NEW b, NEW n \in Nat
  PROVE  Around(b, n + 1) = Stepped(<<"around", b>>, << >>, n)
<1> DEFINE seq == [i \in 1 .. (n + 1) - 1 |-> i]
           what == <<"around", b>>
           Is(u) == u = [k \in 0 .. Len(seq) |-> IF k = 0 THEN << >>
                           ELSE CHOOSE r \in {Enter(b, t, seq[k]) : t \in {u[k - 1]}} : TRUE]
           U == CHOOSE u : Is(u)
<1>1. Around(b, n + 1) = U[Len(seq)]
  BY DEF Around, Fold
<1>2. seq \in Seq(Nat) /\ DOMAIN seq = 1 .. n
  BY SeqDef
<1>3. Len(seq) = n /\ \A k \in 1 .. n : seq[k] = k
  BY <1>2, LenProperties
<1> HIDE DEF seq
<1>4. \A s, k : StepOf(what, s, k) = Enter(b, s, k)
  BY DEF StepOf
<1>5. ASSUME NEW u PROVE Is(u) <=> IsSteps(u, what, << >>, n)
  <2>1. \A x : \A k \in 1 .. n : (CHOOSE r \in {Enter(b, t, seq[k]) : t \in {x}} : TRUE) = StepOf(what, x, k)
    <3> SUFFICES ASSUME NEW x, NEW k \in 1 .. n
                 PROVE (CHOOSE r \in {Enter(b, t, seq[k]) : t \in {x}} : TRUE) = StepOf(what, x, k)
      OBVIOUS
    <3>1. seq[k] = k
      BY <1>3
    <3>2. (CHOOSE r \in {Enter(b, t, seq[k]) : t \in {x}} : TRUE) = Enter(b, x, seq[k])
      OBVIOUS
    <3> QED BY <1>4, <3>1, <3>2
  <2>2. [k \in 0 .. Len(seq) |-> IF k = 0 THEN << >>
                           ELSE CHOOSE r \in {Enter(b, t, seq[k]) : t \in {u[k - 1]}} : TRUE]
         = [k \in 0 .. n |-> IF k = 0 THEN << >> ELSE StepOf(what, u[k - 1], k)]
    BY <1>3, <2>1
  <2> QED BY <2>2 DEF IsSteps
<1>6. \E u : Is(u)
  BY <1>5, StepsExist
<1> HIDE DEF Is
<1>7. Is(U)
  BY <1>6
<1>8. IsSteps(U, what, << >>, n)
  BY <1>5, <1>7
<1> HIDE DEF U, what
<1> QED BY <1>1, <1>3, <1>8, SteppedIs DEF what

(***************************************************************************)
(* The structure of a body.                                                *)
(***************************************************************************)

LEMMA AroundStart ==
  ASSUME NEW b
  PROVE  Around(b, 1) = << >>
<1>1. Around(b, 0 + 1) = Stepped(<<"around", b>>, << >>, 0)
  BY AroundFolds
<1> QED BY <1>1, SteppedStart

LEMMA AroundNext ==
  ASSUME NEW b, NEW p \in Nat
  PROVE  Around(b, (p + 1) + 1) = Enter(b, Around(b, p + 1), p + 1)
<1> DEFINE what == <<"around", b>>
<1>1. Around(b, p + 1) = Stepped(what, << >>, p) /\ Around(b, (p + 1) + 1) = Stepped(what, << >>, p + 1)
  BY AroundFolds
<1>2. \A s, k : StepOf(what, s, k) = Enter(b, s, k)
  BY DEF StepOf
<1> HIDE DEF what
<1> QED BY <1>1, <1>2, SteppedNext

\* The stack of open operations: increasing positions.
IsStack(s, p) == s \in Seq(1 .. p) /\ \A i, j \in 1 .. Len(s) : i < j => s[i] < s[j]

LEMMA AppendStack ==
  ASSUME NEW p \in Nat, NEW s, IsStack(s, p)
  PROVE  IsStack(Append(s, p + 1), p + 1)
<1> DEFINE t == Append(s, p + 1)
<1>1. s \in Seq(1 .. p) /\ Len(s) \in Nat /\ \A i \in 1 .. Len(s) : s[i] \in 1 .. p
  BY LenProperties, ElementOfSeq DEF IsStack
<1>2. s \in Seq(1 .. p + 1) /\ p + 1 \in 1 .. p + 1
  BY <1>1, SeqMonotonic
<1>3. /\ t \in Seq(1 .. p + 1) /\ Len(t) = Len(s) + 1 /\ t[Len(s) + 1] = p + 1
      /\ \A i \in 1 .. Len(s) : t[i] = s[i]
  BY <1>2, AppendProperties
<1> HIDE DEF t
<1>4. ASSUME NEW i \in 1 .. Len(t), NEW j \in 1 .. Len(t), i < j PROVE t[i] < t[j]
  <2> DEFINE n == Len(s)
  <2>3. n \in Nat /\ i \in 1 .. n + 1 /\ j \in 1 .. n + 1 /\ i < j
    BY <1>1, <1>3, <1>4
  <2> HIDE DEF n
  <2>4. i \in 1 .. n /\ (j = n + 1 \/ j \in 1 .. n)
    BY ONLY <2>3
  <2>1. CASE j = n + 1
    <3>1. t[i] = s[i] /\ s[i] \in 1 .. p /\ t[j] = p + 1
      BY <1>1, <1>3, <2>1, <2>4 DEF n
    <3> QED BY <3>1
  <2>2. CASE j \in 1 .. n
    BY <1>3, <1>4, <2>2, <2>4 DEF IsStack, n
  <2> QED BY <2>1, <2>2, <2>4
<1> QED BY <1>3, <1>4 DEF IsStack, t

LEMMA FrontStack ==
  ASSUME NEW p \in Nat, NEW s, IsStack(s, p)
  PROVE  /\ IsStack(Front(s), p + 1)
         /\ Len(Front(s)) = IF s = << >> THEN 0 ELSE Len(s) - 1
         /\ \A i \in 1 .. Len(Front(s)) : Front(s)[i] = s[i]
<1> DEFINE t == Front(s)
<1>1. s \in Seq(1 .. p) /\ Len(s) \in Nat /\ \A i \in 1 .. Len(s) : s[i] \in 1 .. p
  BY LenProperties, ElementOfSeq DEF IsStack
<1>2. t = SubSeq(s, 1, Len(s) - 1)
  BY DEF Front
<1>3. s = << >> <=> Len(s) = 0
  BY <1>1, EmptySeq
<1>4. /\ t \in Seq(1 .. p) /\ Len(t) = (IF s = << >> THEN 0 ELSE Len(s) - 1)
      /\ \A i \in 1 .. Len(t) : t[i] = s[i]
  <2> HIDE DEF t
  <2>1. \A i \in 1 .. Len(s) - 1 : s[i] \in 1 .. p
    BY <1>1
  <2>2. /\ t \in Seq(1 .. p)
        /\ Len(t) = IF 1 <= Len(s) - 1 THEN (Len(s) - 1) - 1 + 1 ELSE 0
        /\ \A i \in 1 .. (Len(s) - 1) - 1 + 1 : t[i] = s[1 + i - 1]
    <3>1. 1 \in Int /\ Len(s) - 1 \in Int
      BY <1>1
    <3> QED BY <1>2, <2>1, <3>1, SubSeqProperties
  <2>3. Len(t) = IF s = << >> THEN 0 ELSE Len(s) - 1
    <3>1. CASE s = << >>
      BY <1>1, <1>3, <2>2, <3>1
    <3>2. CASE s # << >>
      <4> DEFINE n == Len(s)
      <4>1. n \in Nat /\ n # 0 /\ Len(t) = IF 1 <= n - 1 THEN (n - 1) - 1 + 1 ELSE 0
        BY <1>1, <1>3, <2>2, <3>2
      <4> HIDE DEF n
      <4>2. Len(t) = n - 1
        BY ONLY <4>1
      <4> QED BY <3>2, <4>2 DEF n
    <3> QED BY <3>1, <3>2
  <2>4. \A i \in 1 .. Len(t) : i \in 1 .. (Len(s) - 1) - 1 + 1 /\ 1 + i - 1 = i
    BY <1>1, <1>3, <2>3
  <2> QED BY <2>2, <2>3, <2>4
<1> HIDE DEF t
<1>5. t \in Seq(1 .. p + 1)
  BY <1>4, SeqMonotonic
<1>6. \A i, j \in 1 .. Len(t) : i < j => t[i] < t[j]
  <2>1. \A i \in 1 .. Len(t) : i \in 1 .. Len(s)
    BY <1>1, <1>3, <1>4
  <2> QED BY <1>4, <2>1 DEF IsStack
<1> QED BY <1>4, <1>5, <1>6 DEF IsStack, t

LEMMA AroundStack ==
  ASSUME NEW b, NEW p \in Nat
  PROVE  IsStack(Around(b, p + 1), p)
<1> DEFINE T == {q \in Nat : ~IsStack(Around(b, q + 1), q)}
<1>1. SUFFICES ASSUME T # {} PROVE FALSE
  OBVIOUS
<1>2. PICK q \in T : \A m \in T : q <= m
  <2>1. T \in SUBSET Nat
    OBVIOUS
  <2> QED BY <1>1, <2>1, LeastExists
<1>3. q \in Nat /\ ~IsStack(Around(b, q + 1), q)
  OBVIOUS
<1>4. IsStack(Around(b, 0 + 1), 0)
  <2>1. << >> \in Seq(1 .. 0) /\ Len(<< >>) = 0
    OBVIOUS
  <2>2. IsStack(<< >>, 0)
    BY <2>1 DEF IsStack
  <2>3. 0 + 1 = 1
    OBVIOUS
  <2> QED BY ONLY <2>2, <2>3, AroundStart
<1>5. q # 0 /\ q - 1 \in Nat /\ q - 1 \notin T
  BY <1>2, <1>3, <1>4
<1>6. IsStack(Around(b, q), q - 1)
  <2>1. (q - 1) + 1 = q
    BY <1>3
  <2> QED BY <1>5, <2>1
<1>7. Around(b, q + 1) = Enter(b, Around(b, q), q)
  <2>1. (q - 1) + 1 = q
    BY <1>3
  <2>2. Around(b, ((q - 1) + 1) + 1) = Enter(b, Around(b, (q - 1) + 1), (q - 1) + 1)
    BY <1>5, AroundNext
  <2> QED BY <2>1, <2>2
<1> HIDE DEF T
<1> DEFINE s == Around(b, q)
<1>8. IsStack(Append(s, q), q) /\ IsStack(Front(s), q)
  <2>1. (q - 1) + 1 = q /\ q - 1 \in Nat /\ IsStack(s, q - 1)
    BY <1>3, <1>5, <1>6
  <2> HIDE DEF s
  <2>2. IsStack(Append(s, (q - 1) + 1), (q - 1) + 1) /\ IsStack(Front(s), (q - 1) + 1)
    BY <2>1, AppendStack, FrontStack
  <2> QED BY <2>1, <2>2
<1>9. IsStack(s, q)
  <2>1. s \in Seq(1 .. q)
    BY <1>3, <1>6, SeqMonotonic DEF IsStack
  <2> QED BY <1>6, <2>1 DEF IsStack
<1> HIDE DEF s
<1>10. Enter(b, s, q) \in {Append(s, q), Front(s), s}
  BY DEF Enter
<1> QED BY <1>3, <1>7, <1>8, <1>9, <1>10 DEF s

\* What is around a position depends on the kinds of the operations before it.
LEMMA AroundSame ==
  ASSUME NEW b, NEW c, NEW p \in Nat, \A i \in 1 .. p : b[i].kind = c[i].kind
  PROVE  Around(b, p + 1) = Around(c, p + 1)
<1> DEFINE T == {q \in 0 .. p : Around(b, q + 1) # Around(c, q + 1)}
<1>1. SUFFICES ASSUME T # {} PROVE FALSE
  OBVIOUS
<1>2. PICK q \in T : \A m \in T : q <= m
  <2>1. T \in SUBSET Nat
    OBVIOUS
  <2> QED BY <1>1, <2>1, LeastExists
<1>3. q \in 0 .. p /\ Around(b, q + 1) # Around(c, q + 1)
  OBVIOUS
<1>4. q # 0
  <2>1. Around(b, 0 + 1) = Around(c, 0 + 1)
    BY AroundStart
  <2> QED BY <1>3, <2>1
<1>5. q - 1 \in 0 .. p /\ q - 1 \notin T
  BY <1>2, <1>3, <1>4
<1>6. Around(b, q) = Around(c, q)
  <2>1. (q - 1) + 1 = q
    BY <1>3
  <2> QED BY <1>5, <2>1
<1> HIDE DEF T
<1>7. \A x : Around(x, q + 1) = Enter(x, Around(x, q), q)
  <2>1. (q - 1) + 1 = q /\ q - 1 \in Nat
    BY <1>3, <1>5
  <2>2. \A x : Around(x, ((q - 1) + 1) + 1) = Enter(x, Around(x, (q - 1) + 1), (q - 1) + 1)
    BY <2>1, AroundNext
  <2> QED BY <2>1, <2>2
<1>8. b[q].kind = c[q].kind
  BY <1>3, <1>4
<1> QED BY <1>3, <1>6, <1>7, <1>8 DEF Enter

\* Whether the operation around position p has its separator before p.
Halfway(b, op, p) ==
  \E i \in op + 1 .. p - 1 : b[i].kind \in {"else", "do"} /\ Last(Around(b, i)) = op

\* The operation at p has its place in the structure of the body before it.
Placed(b, p) ==
  LET open == Around(b, p)
  IN  /\ b[p].kind \in {"else", "do", "end"} => open # << >>
      /\ b[p].kind = "else" => b[Last(open)].kind = "if"
      /\ b[p].kind = "do" => b[Last(open)].kind = "while"
      /\ b[p].kind = "end" => /\ b[Last(open)].kind \in Openers
                              /\ b[Last(open)].kind = "while" => Halfway(b, Last(open), p)

IsBody(b) == b \in Seq(Range(b)) /\ \A p \in 1 .. Len(b) : Placed(b, p)

LEMMA LastAround ==
  ASSUME NEW b, NEW p \in Nat, Around(b, p + 1) # << >>
  PROVE  Last(Around(b, p + 1)) \in 1 .. p
<1> DEFINE s == Around(b, p + 1)
<1>1. s \in Seq(1 .. p)
  BY AroundStack DEF IsStack
<1> HIDE DEF s
<1>2. Last(s) \in 1 .. p
  <2>1. Len(s) \in Nat /\ Len(s) # 0 /\ \A i \in 1 .. Len(s) : s[i] \in 1 .. p
    BY <1>1, LenProperties, EmptySeq, ElementOfSeq DEF s
  <2> QED BY <2>1 DEF Last
<1> QED BY <1>2 DEF s

LEMMA PlacedSame ==
  ASSUME NEW b, NEW c, NEW p \in Nat, \A i \in 1 .. p + 1 : b[i].kind = c[i].kind, Placed(b, p + 1)
  PROVE  Placed(c, p + 1)
<1>1. \A q \in 0 .. p : Around(b, q + 1) = Around(c, q + 1)
  BY AroundSame
<1>2. b[p + 1].kind = c[p + 1].kind /\ Around(b, p + 1) = Around(c, p + 1)
  BY <1>1
<1> DEFINE op == Last(Around(b, p + 1))
<1>3. Around(b, p + 1) # << >> => op \in 1 .. p /\ b[op].kind = c[op].kind
  BY LastAround
<1> HIDE DEF op
<1>4. ASSUME op \in 1 .. p, Halfway(b, op, p + 1) PROVE Halfway(c, op, p + 1)
  <2>1. PICK i \in op + 1 .. (p + 1) - 1 : b[i].kind \in {"else", "do"} /\ Last(Around(b, i)) = op
    BY <1>4 DEF Halfway
  <2>2. i - 1 \in 0 .. p /\ (i - 1) + 1 = i /\ i \in 1 .. p + 1
    BY <1>4, <2>1
  <2>3. Around(b, i) = Around(c, i) /\ b[i].kind = c[i].kind
    BY <1>1, <2>2
  <2> QED BY <2>1, <2>3 DEF Halfway
<1> QED BY <1>2, <1>3, <1>4 DEF Placed, op

SameKinds(b, c) ==
  /\ b \in Seq(Range(b)) /\ c \in Seq(Range(c))
  /\ Len(b) = Len(c)
  /\ \A i \in 1 .. Len(b) : b[i].kind = c[i].kind

LEMMA BodySame ==
  ASSUME NEW b, NEW c, SameKinds(b, c), IsBody(b)
  PROVE  IsBody(c) /\ Around(c, Len(c) + 1) = Around(b, Len(b) + 1)
<1>1. Len(b) \in Nat /\ Len(c) = Len(b)
  BY LenProperties DEF SameKinds
<1>2. Around(b, Len(b) + 1) = Around(c, Len(b) + 1)
  BY <1>1, AroundSame DEF SameKinds
<1>3. ASSUME NEW p \in 1 .. Len(c) PROVE Placed(c, p)
  <2> DEFINE q == p - 1
  <2>1. q \in Nat /\ q + 1 = p
    BY <1>1
  <2> HIDE DEF q
  <2>2. \A i \in 1 .. q + 1 : b[i].kind = c[i].kind
    BY <1>1, <2>1 DEF SameKinds
  <2>3. Placed(b, q + 1)
    BY <1>1, <2>1 DEF IsBody
  <2>4. Placed(c, q + 1)
    BY ONLY <2>1, <2>2, <2>3, PlacedSame
  <2> QED BY <2>1, <2>4
<1> QED BY <1>1, <1>2, <1>3 DEF IsBody, SameKinds

(***************************************************************************)
(* The operations whose regions are being processed.                       *)
(***************************************************************************)

(***************************************************************************)
(* Sequences of anything.                                                  *)
(***************************************************************************)

IsSeq(s) == s \in Seq(Range(s))

LEMMA AnySeq ==
  ASSUME NEW S, NEW s \in Seq(S)
  PROVE  IsSeq(s) /\ Len(s) \in Nat /\ DOMAIN s = 1 .. Len(s)
<1>1. DOMAIN s = 1 .. Len(s) /\ Len(s) \in Nat /\ s = [i \in 1 .. Len(s) |-> s[i]]
  BY LenProperties
<1>2. \A i \in 1 .. Len(s) : s[i] \in Range(s)
  BY <1>1 DEF Range
<1> DEFINE n == Len(s)
<1>3. s \in [1 .. n -> Range(s)] /\ n \in Nat
  BY <1>1, <1>2
<1> HIDE DEF n
<1>4. s \in Seq(Range(s))
  BY ONLY <1>3, SeqDef
<1> QED BY <1>1, <1>4 DEF IsSeq

LEMMA SeqAppended ==
  ASSUME NEW s, IsSeq(s), NEW e
  PROVE  /\ IsSeq(Append(s, e)) /\ Len(Append(s, e)) = Len(s) + 1
         /\ Append(s, e)[Len(s) + 1] = e
         /\ \A i \in 1 .. Len(s) : Append(s, e)[i] = s[i]
<1> DEFINE S == Range(s) \cup {e}
<1>1. s \in Seq(S) /\ e \in S
  BY SeqMonotonic DEF IsSeq
<1> HIDE DEF S
<1>2. /\ Append(s, e) \in Seq(S) /\ Len(Append(s, e)) = Len(s) + 1
      /\ Append(s, e)[Len(s) + 1] = e
      /\ \A i \in 1 .. Len(s) : Append(s, e)[i] = s[i]
  BY <1>1, AppendProperties
<1>3. IsSeq(Append(s, e))
  BY <1>2, AnySeq
<1> QED BY <1>2, <1>3

LEMMA SeqFront ==
  ASSUME NEW s, IsSeq(s), s # << >>
  PROVE  /\ IsSeq(Front(s)) /\ Len(Front(s)) = Len(s) - 1
         /\ \A i \in 1 .. Len(s) - 1 : Front(s)[i] = s[i]
         /\ Len(s) \in Nat \ {0} /\ Last(s) = s[Len(s)]
<1> DEFINE S == Range(s)
           n == Len(s)
           t == Front(s)
<1>1. s \in Seq(S) /\ n \in Nat \ {0} /\ \A i \in 1 .. n : s[i] \in S
  BY LenProperties, EmptySeq, ElementOfSeq DEF IsSeq
<1>2. t = SubSeq(s, 1, n - 1)
  BY DEF Front
<1> HIDE DEF S, t, n
<1>3. 1 \in Int /\ n - 1 \in Int /\ \A i \in 1 .. n - 1 : s[i] \in S
  BY <1>1
<1>4. /\ t \in Seq(S) /\ Len(t) = IF 1 <= n - 1 THEN (n - 1) - 1 + 1 ELSE 0
      /\ \A i \in 1 .. (n - 1) - 1 + 1 : t[i] = s[1 + i - 1]
  BY <1>2, <1>3, SubSeqProperties
<1>5. Len(t) = n - 1 /\ (n - 1) - 1 + 1 = n - 1
  BY ONLY <1>1, <1>4
<1>6. \A i \in 1 .. n - 1 : 1 + i - 1 = i
  BY <1>1
<1>7. IsSeq(t)
  BY <1>4, AnySeq
<1> QED BY <1>1, <1>4, <1>5, <1>6, <1>7 DEF n, t, Last

(***************************************************************************)
(* The stack of memSSAProcessRegion.                                       *)
(***************************************************************************)

\* Every node but those of N keeps what it has, and those of N may be new.
Extends(g, h, N) ==
  /\ DOMAIN g.args \subseteq DOMAIN h.args /\ DOMAIN h.args \subseteq DOMAIN g.args \cup N
  /\ \A u \in DOMAIN g.args : u \notin N =>
       /\ u \in Live(g) => u \in Live(h)
       /\ \A i \in DOMAIN g.args[u] : g.args[u][i] # None => h.args[u][i] # None
       /\ g.dom[u] # None => h.dom[u] # None

\* What is known of an open operation.
Frame(g, b, r, k) ==
  /\ r = [op |-> r.op, entry |-> r.entry, phi |-> r.phi, result |-> r.result]
  /\ r.op \in 1 .. k /\ b[r.op].kind \in Openers
  /\ r.entry \in DOMAIN g.args /\ IsCore(r.entry) /\ OpOf(r.entry) < r.op
  /\ r.result # None => r.result \in DOMAIN g.args /\ IsCore(r.result) /\ OpOf(r.result) <= k
  /\ b[r.op].kind = "if" => Phi(r.op) \notin DOMAIN g.args
  /\ b[r.op].kind # "if" => r.phi = Phi(r.op) /\ r.phi \in DOMAIN g.args /\ r.phi \in Live(g)
  /\ b[r.op].kind = "for" => 2 \in DOMAIN g.args[r.phi] /\ g.args[r.phi][2] # None
  /\ b[r.op].kind = "while" => /\ g.dom[r.phi] # None
                               /\ Halfway(b, r.op, k + 1) => r.result # None

LEMMA FrameKept ==
  ASSUME NEW g, NEW b, NEW r, NEW k, NEW h, NEW N, Frame(g, b, r, k), Extends(g, h, N), Phi(r.op) \notin N,
         \A u \in DOMAIN g.args : DOMAIN h.args[u] = DOMAIN g.args[u]
  PROVE  Frame(h, b, r, k)
<1>1. r.phi = Phi(r.op) => r.phi \notin N
  OBVIOUS
<1>2. \A u \in DOMAIN g.args : u \in DOMAIN h.args
  BY DEF Extends
<1>3. b[r.op].kind = "if" => Phi(r.op) \notin DOMAIN h.args
  BY DEF Frame, Extends
<1>4. b[r.op].kind # "if" => r.phi = Phi(r.op) /\ r.phi \in DOMAIN h.args /\ r.phi \in Live(h)
  BY <1>1 DEF Frame, Extends
<1>5. b[r.op].kind = "for" => 2 \in DOMAIN h.args[r.phi] /\ h.args[r.phi][2] # None
  BY <1>1 DEF Frame, Extends
<1>6. b[r.op].kind = "while" => /\ h.dom[r.phi] # None
                                /\ Halfway(b, r.op, k + 1) => r.result # None
  BY <1>1 DEF Frame, Extends
<1> QED BY <1>2, <1>3, <1>4, <1>5, <1>6 DEF Frame

\* The next operation is no separator of r.
LEMMA FrameLater ==
  ASSUME NEW g, NEW b, NEW r, NEW k \in Nat, Frame(g, b, r, k), r.result # None => OpOf(r.result) \in Nat,
         b[k + 1].kind \in {"else", "do"} => Last(Around(b, k + 1)) # r.op
  PROVE  Frame(g, b, r, k + 1)
<1>1. r.op \in 1 .. k
  BY DEF Frame
<1>2. ASSUME Halfway(b, r.op, (k + 1) + 1) PROVE Halfway(b, r.op, k + 1)
  <2>1. PICK i \in r.op + 1 .. ((k + 1) + 1) - 1 : b[i].kind \in {"else", "do"} /\ Last(Around(b, i)) = r.op
    BY <1>2 DEF Halfway
  <2>2. i # k + 1
    BY <2>1
  <2>3. i \in r.op + 1 .. (k + 1) - 1
    BY <1>1, <2>1, <2>2
  <2> QED BY <2>1, <2>3 DEF Halfway
<1>3. r.op \in 1 .. k + 1
  BY <1>1
<1>4. r.result # None => OpOf(r.result) <= k + 1
  BY DEF Frame
<1> QED BY <1>2, <1>3, <1>4 DEF Frame

\* The open operations, which are those of stack.
OpenAt(b, g, open, k, stack) ==
  /\ IsSeq(open) /\ Len(open) = Len(stack)
  /\ \A j \in 1 .. Len(stack) : open[j].op = stack[j] /\ Frame(g, b, open[j], k)

Plain(b, k) == b[k].kind \notin {"else", "do"}

\* One operation later.
LEMMA FramesNext ==
  ASSUME NEW b, NEW g, NEW h, NEW N, NEW open, NEW k \in Nat, NEW stack, OpenAt(b, g, open, k, stack),
         DOMAIN g.args \subseteq Nodes, IsStack(stack, k),
         Extends(g, h, N), \A u \in DOMAIN g.args : DOMAIN h.args[u] = DOMAIN g.args[u],
         NEW j \in 1 .. Len(stack), Phi(stack[j]) \notin N,
         Plain(b, k + 1) \/ Last(Around(b, k + 1)) # stack[j]
  PROVE  Frame(h, b, open[j], k + 1)
<1> DEFINE r == open[j]
<1>1. Frame(g, b, r, k) /\ r.op = stack[j]
  BY DEF OpenAt
<1> HIDE DEF r
<1>2. Frame(h, b, r, k)
  BY <1>1, FrameKept
<1>3. r.result # None => OpOf(r.result) \in Nat
  BY <1>1 DEF Frame, Nodes, OpOf
<1>4. Frame(h, b, r, k + 1)
  BY <1>1, <1>2, <1>3, FrameLater DEF Plain
<1> QED BY <1>4 DEF r

LEMMA OpenPushed ==
  ASSUME NEW b, NEW g, NEW h, NEW open, NEW k \in Nat, NEW stack, OpenAt(b, g, open, k, stack),
         DOMAIN g.args \subseteq Nodes, IsStack(stack, k),
         Extends(g, h, {Phi(k + 1)}), \A u \in DOMAIN g.args : DOMAIN h.args[u] = DOMAIN g.args[u],
         Plain(b, k + 1), NEW r, r.op = k + 1, Frame(h, b, r, k + 1)
  PROVE  OpenAt(b, h, Append(open, r), k + 1, Append(stack, k + 1))
<1> DEFINE o == Append(open, r)
           t == Append(stack, k + 1)
           m == Len(stack)
<1>1. stack \in Seq(1 .. k) /\ m \in Nat /\ \A j \in 1 .. m : stack[j] \in 1 .. k
  BY LenProperties, ElementOfSeq DEF IsStack
<1>2. IsSeq(stack)
  BY <1>1, AnySeq
<1>3. IsSeq(open) /\ Len(open) = m
  BY DEF OpenAt
<1>4. IsSeq(o) /\ Len(o) = m + 1 /\ o[m + 1] = r /\ \A j \in 1 .. m : o[j] = open[j]
  <2> HIDE DEF m
  <2>1. IsSeq(o) /\ Len(o) = Len(open) + 1 /\ o[Len(open) + 1] = r /\ \A j \in 1 .. Len(open) : o[j] = open[j]
    BY <1>3, SeqAppended
  <2> QED BY <1>3, <2>1
<1>5. Len(t) = m + 1 /\ t[m + 1] = k + 1 /\ \A j \in 1 .. m : t[j] = stack[j]
  BY <1>2, SeqAppended
<1>6. \A j \in 1 .. m : Frame(h, b, open[j], k + 1)
  <2> SUFFICES ASSUME NEW j \in 1 .. m PROVE Frame(h, b, open[j], k + 1)
    OBVIOUS
  <2>1. stack[j] # k + 1
    BY <1>1
  <2>2. Phi(stack[j]) \notin {Phi(k + 1)}
    BY <2>1 DEF Phi
  <2> QED BY <2>2, FramesNext
<1> HIDE DEF o, t, m
<1>7. ASSUME NEW j \in 1 .. m + 1 PROVE o[j].op = t[j] /\ Frame(h, b, o[j], k + 1)
  <2>1. CASE j = m + 1
    BY <1>4, <1>5, <2>1
  <2>2. CASE j # m + 1
    <3>1. j \in 1 .. m
      BY <1>1, <2>2
    <3> QED BY <1>4, <1>5, <1>6, <3>1 DEF OpenAt, m
  <2> QED BY <2>1, <2>2
<1> QED BY <1>4, <1>5, <1>7 DEF OpenAt, o, t

LEMMA OpenPopped ==
  ASSUME NEW b, NEW g, NEW h, NEW open, NEW k \in Nat, NEW stack, OpenAt(b, g, open, k, stack),
         DOMAIN g.args \subseteq Nodes, IsStack(stack, k), open # << >>,
         Extends(g, h, {Phi(Last(open).op)}), \A u \in DOMAIN g.args : DOMAIN h.args[u] = DOMAIN g.args[u],
         Plain(b, k + 1)
  PROVE  OpenAt(b, h, Front(open), k + 1, Front(stack))
<1> DEFINE o == Front(open)
           t == Front(stack)
           m == Len(stack)
<1>1. stack \in Seq(1 .. k) /\ m \in Nat /\ \A j \in 1 .. m : stack[j] \in 1 .. k
  BY LenProperties, ElementOfSeq DEF IsStack
<1>2. IsSeq(stack)
  BY <1>1, AnySeq
<1>3. IsSeq(open) /\ Len(open) = m
  BY DEF OpenAt
<1>4. m # 0 /\ stack # << >>
  <2>1. Len(open) # 0
    BY <1>3, SeqFront
  <2> QED BY <1>3, <2>1
<1>5. /\ IsSeq(o) /\ Len(o) = m - 1 /\ \A j \in 1 .. m - 1 : o[j] = open[j]
      /\ Last(open) = open[m]
  <2> HIDE DEF m
  <2>1. IsSeq(o) /\ Len(o) = Len(open) - 1 /\ (\A j \in 1 .. Len(open) - 1 : o[j] = open[j]) /\ Last(open) = open[Len(open)]
    BY <1>3, SeqFront
  <2> QED BY <1>3, <2>1
<1>6. Len(t) = m - 1 /\ \A j \in 1 .. m - 1 : t[j] = stack[j]
  BY <1>2, <1>4, SeqFront
<1>7. \A j \in 1 .. m - 1 : Frame(h, b, open[j], k + 1)
  <2> SUFFICES ASSUME NEW j \in 1 .. m - 1 PROVE Frame(h, b, open[j], k + 1)
    OBVIOUS
  <2>1. j \in 1 .. m /\ m \in 1 .. m /\ j < m
    BY <1>1
  <2>2. stack[j] < stack[m] /\ stack[j] \in Nat /\ stack[m] \in Nat
    BY <1>1, <2>1 DEF IsStack
  <2>3. Last(open).op = stack[m]
    BY <1>5, <2>1 DEF OpenAt
  <2>4. Phi(stack[j]) \notin {Phi(Last(open).op)}
    BY <2>2, <2>3 DEF Phi
  <2> HIDE DEF m
  <2> QED BY <2>1, <2>4, FramesNext DEF m
<1> HIDE DEF o, t, m
<1>8. ASSUME NEW j \in 1 .. m - 1 PROVE o[j].op = t[j] /\ Frame(h, b, o[j], k + 1)
  <2>1. j \in 1 .. m
    BY <1>1
  <2> QED BY <1>5, <1>6, <1>7, <2>1 DEF OpenAt, m
<1> QED BY <1>5, <1>6, <1>8 DEF OpenAt, o, t

LEMMA OpenKept ==
  ASSUME NEW b, NEW g, NEW h, NEW N, NEW open, NEW k \in Nat, NEW stack, OpenAt(b, g, open, k, stack),
         DOMAIN g.args \subseteq Nodes, IsStack(stack, k),
         Extends(g, h, N), \A u \in DOMAIN g.args : DOMAIN h.args[u] = DOMAIN g.args[u],
         Plain(b, k + 1), \A n \in N : Type(n) # "Phi"
  PROVE  OpenAt(b, h, open, k + 1, stack)
<1>1. \A j \in 1 .. Len(stack) : Phi(stack[j]) \notin N
  BY DEF Phi, Type
<1>2. \A j \in 1 .. Len(stack) : Frame(h, b, open[j], k + 1)
  BY <1>1, FramesNext
<1> QED BY <1>2 DEF OpenAt

LEMMA OpenHalved ==
  ASSUME NEW b, NEW g, NEW open, NEW k \in Nat, OpenAt(b, g, open, k, Around(b, k + 1)),
         DOMAIN g.args \subseteq Nodes, open # << >>,
         NEW cur, cur \in DOMAIN g.args, cur # None, IsCore(cur), OpOf(cur) <= k + 1
  PROVE  OpenAt(b, g, Append(Front(open), [Last(open) EXCEPT !.result = cur]), k + 1, Around(b, k + 1))
<1> DEFINE stack == Around(b, k + 1)
           m == Len(stack)
           f == Front(open)
           r == [Last(open) EXCEPT !.result = cur]
           o == Append(f, r)
<1>1. IsStack(stack, k)
  BY AroundStack
<1>2. stack \in Seq(1 .. k) /\ m \in Nat /\ \A j \in 1 .. m : stack[j] \in 1 .. k
  BY <1>1, LenProperties, ElementOfSeq DEF IsStack
<1>3. IsSeq(open) /\ Len(open) = m
  BY DEF OpenAt
<1>4. /\ IsSeq(f) /\ Len(f) = m - 1 /\ \A j \in 1 .. m - 1 : f[j] = open[j]
      /\ Last(open) = open[m] /\ m # 0
  <2> HIDE DEF m, stack
  <2>1. /\ IsSeq(f) /\ Len(f) = Len(open) - 1 /\ (\A j \in 1 .. Len(open) - 1 : f[j] = open[j])
        /\ Last(open) = open[Len(open)] /\ Len(open) # 0
    BY <1>3, SeqFront
  <2> QED BY <1>3, <2>1
<1> HIDE DEF f
<1>5. IsSeq(o) /\ Len(o) = m /\ o[m] = r /\ \A j \in 1 .. m - 1 : o[j] = open[j]
  <2> HIDE DEF m, stack, r
  <2>1. /\ IsSeq(o) /\ Len(o) = Len(f) + 1
        /\ o[Len(f) + 1] = r /\ \A j \in 1 .. Len(f) : o[j] = f[j]
    BY <1>4, SeqAppended
  <2>2. Len(f) + 1 = m /\ m \in Nat
    BY <1>2, <1>4 DEF m
  <2> QED BY <1>4, <2>1, <2>2
<1> HIDE DEF o
<1>6. Last(stack) = stack[m]
  BY DEF Last
<1>7. m \in 1 .. m
  BY <1>2, <1>4
<1>8. Frame(g, b, Last(open), k) /\ Last(open).op = stack[m]
  BY <1>4, <1>7 DEF OpenAt
<1>9. r.op = stack[m] /\ Frame(g, b, r, k + 1)
  <2> DEFINE l == Last(open)
  <2>1. l = [op |-> l.op, entry |-> l.entry, phi |-> l.phi, result |-> l.result]
    BY <1>8 DEF Frame
  <2> HIDE DEF l
  <2>2. r = [op |-> l.op, entry |-> l.entry, phi |-> l.phi, result |-> cur]
    BY <2>1 DEF l
  <2>3. r.op = l.op /\ r.entry = l.entry /\ r.phi = l.phi /\ r.result = cur
        /\ r = [op |-> r.op, entry |-> r.entry, phi |-> r.phi, result |-> r.result]
    BY <2>2
  <2> HIDE DEF r
  <2>4. l.op \in 1 .. k + 1
    BY <1>8 DEF Frame, l
  <2> QED BY <1>8, <2>3, <2>4 DEF Frame, l
<1>10. ASSUME NEW j \in 1 .. m - 1 PROVE Frame(g, b, open[j], k + 1)
  <2>1. j \in 1 .. m /\ m \in 1 .. m /\ j < m
    BY <1>2
  <2>2. stack[j] < stack[m] /\ stack[j] \in Nat /\ stack[m] \in Nat
    BY <1>1, <1>2, <2>1 DEF IsStack
  <2>3. open[j].op = stack[j] /\ Frame(g, b, open[j], k)
    BY <2>1 DEF OpenAt
  <2>4. Last(Around(b, k + 1)) # open[j].op
    BY <1>6, <2>2, <2>3
  <2>5. open[j].result # None => OpOf(open[j].result) \in Nat
    BY <2>3 DEF Frame, Nodes, OpOf
  <2> QED BY <2>3, <2>4, <2>5, FrameLater
<1> HIDE DEF m, r
<1>11. ASSUME NEW j \in 1 .. m PROVE o[j].op = stack[j] /\ Frame(g, b, o[j], k + 1)
  <2>1. CASE j = m
    BY <1>5, <1>9, <2>1
  <2>2. CASE j # m
    <3>1. j \in 1 .. m - 1
      BY <1>2, <2>2
    <3> QED BY <1>5, <1>10, <3>1 DEF OpenAt, m
  <2> QED BY <2>1, <2>2
<1> HIDE DEF stack
<1>12. OpenAt(b, g, o, k + 1, stack)
  BY <1>5, <1>11 DEF OpenAt, m
<1> QED BY <1>12 DEF o, f, r, stack

(***************************************************************************)
(* The nodes of the operations processed so far.                           *)
(***************************************************************************)

(***************************************************************************)
(* The graph while it is built.                                            *)
(***************************************************************************)

\* A node of one of the first k operations.
Access(b, kept, n, k) ==
  /\ OpOf(n) \in 1 .. k
  /\ Type(n) \in {"Def", "Use", "Phi"}
  /\ Type(n) = "Def" => OpOf(n) \in kept /\ Writes(b[OpOf(n)])
  /\ Type(n) = "Use" => OpOf(n) \in kept /\ Reads(b[OpOf(n)])

Accesses(g, b, kept, k) == \A n \in DOMAIN g.args : n = Root \/ Access(b, kept, n, k)

GraphAt(b, kept, g, X, cur, k) ==
  /\ Sound(g, X)
  /\ Accesses(g, b, kept, k)
  /\ cur \in DOMAIN g.args /\ IsCore(cur) /\ OpOf(cur) <= k

SameShape(g, h) == \A u \in DOMAIN g.args : DOMAIN h.args[u] = DOMAIN g.args[u]

LEMMA ShapeKept ==
  ASSUME NEW g, NEW h, NEW X, NEW Y, Sound(g, X), Sound(h, Y), DOMAIN g.args \subseteq DOMAIN h.args
  PROVE  SameShape(g, h)
BY DEF Sound, NodeFine, SameShape

LEMMA ExtendsTransitive ==
  ASSUME NEW g, NEW h, NEW l, NEW N, Extends(g, h, N), Extends(h, l, N), SameShape(g, h)
  PROVE  Extends(g, l, N)
BY DEF Extends, SameShape

LEMMA ExtendsItself ==
  ASSUME NEW g, NEW N
  PROVE  Extends(g, g, N)
BY DEF Extends

LEMMA ExtendsMore ==
  ASSUME NEW g, NEW h, NEW N, NEW M, N \subseteq M, Extends(g, h, N)
  PROVE  Extends(g, h, M)
BY DEF Extends

LEMMA AccessesLater ==
  ASSUME NEW g, NEW b, NEW kept, NEW k \in Nat, Accesses(g, b, kept, k)
  PROVE  Accesses(g, b, kept, k + 1)
<1>1. \A i \in 1 .. k : i \in 1 .. k + 1
  OBVIOUS
<1> QED BY <1>1 DEF Accesses, Access

\* A node for the next operation.
HasNew(b, kept, g, X, k, n, arguments, h) ==
  /\ Sound(h, X \cup {n}) /\ Accesses(h, b, kept, k + 1) /\ Extends(g, h, {n})
  /\ DOMAIN h.args = DOMAIN g.args \cup {n} /\ h.args[n] = arguments /\ n \in Live(h)

LEMMA Creates ==
  ASSUME NEW b, NEW kept, NEW g, NEW X, NEW cur, NEW k \in Nat, GraphAt(b, kept, g, X, cur, k),
         NEW n, NEW arguments, CanCreate(g, n, arguments), Access(b, kept, n, k + 1)
  PROVE  HasNew(b, kept, g, X, k, n, arguments, CreateNode(g, n, arguments))
<1> DEFINE h == CreateNode(g, n, arguments)
<1>1. Sound(g, X)
  BY DEF GraphAt
<1>0. h = CreateNode(g, n, arguments)
  OBVIOUS
<1> HIDE DEF h
<1>2. IsCreated(g, X, n, arguments, h)
  BY <1>0, <1>1, NodeCreated
<1>3. Accesses(g, b, kept, k + 1)
  BY AccessesLater DEF GraphAt
<1>4. Accesses(h, b, kept, k + 1)
  BY <1>2, <1>3 DEF Accesses, IsCreated
<1>5. Extends(g, h, {n})
  BY <1>2 DEF Extends, IsCreated
<1> QED BY <1>2, <1>4, <1>5 DEF IsCreated, HasNew, h

\* Dominator and post-dominator.
LEMMA Connects ==
  ASSUME NEW b, NEW kept, NEW g, NEW X, NEW k, Sound(g, X), Accesses(g, b, kept, k),
         NEW n \in DOMAIN g.args, NEW m \in DOMAIN g.args, IsCore(m), Before(n, m),
         NEW h, h = Dominates(g, n, m)
  PROVE  /\ Sound(h, X) /\ Accesses(h, b, kept, k) /\ Extends(g, h, {})
         /\ h.args = g.args /\ h.dom[m] # None /\ Live(h) = Live(g)
<1>1. /\ Sound(h, X) /\ h.args = g.args /\ h.nodes = g.nodes /\ h.dom[m] # None
      /\ \A u \in DOMAIN g.args : g.dom[u] # None => h.dom[u] # None
  BY DominatorsSet
<1> QED BY <1>1 DEF Accesses, Extends, Live

\* An argument of node n.
HasArgument(b, kept, g, X, k, n, i, to, h) ==
  /\ Sound(h, X) /\ Accesses(h, b, kept, k) /\ Extends(g, h, {})
  /\ DOMAIN h.args = DOMAIN g.args /\ DOMAIN h.args[n] = DOMAIN g.args[n]
  /\ h.args[n][i] = to /\ h.dom = g.dom /\ Live(h) = Live(g)
  /\ \A j \in DOMAIN g.args[n] : j # i => h.args[n][j] = g.args[n][j]

LEMMA Sets ==
  ASSUME NEW b, NEW kept, NEW g, NEW X, NEW k, Accesses(g, b, kept, k),
         NEW n, NEW i, NEW to, to # None, CanSet(g, X, n, i, to)
  PROVE  HasArgument(b, kept, g, X, k, n, i, to, SetArgument(g, n, i, to))
<1> DEFINE h == SetArgument(g, n, i, to)
<1>1. IsSet(g, X, n, i, to, h)
  BY OneSet
<1> HIDE DEF h
<1>2. h.dom = g.dom /\ Live(h) = Live(g)
  BY <1>1 DEF IsSet, SameNodes, Live
<1>3. Extends(g, h, {})
  <2>1. \A u \in DOMAIN g.args : \A j \in DOMAIN g.args[u] : g.args[u][j] # None => h.args[u][j] # None
    BY <1>1 DEF IsSet
  <2> QED BY <1>1, <1>2, <2>1 DEF Extends, IsSet
<1> QED BY <1>1, <1>2, <1>3 DEF IsSet, Accesses, HasArgument, h

LEMMA OneArgument ==
  ASSUME NEW S, NEW a \in S
  PROVE  <<a>> \in Seq(S) /\ Len(<<a>>) = 1 /\ DOMAIN <<a>> = {1} /\ <<a>>[1] = a
OBVIOUS

LEMMA CoreNodes ==
  ASSUME NEW b, NEW kept, NEW g, NEW X, NEW cur, NEW k \in Nat, GraphAt(b, kept, g, X, cur, k)
  PROVE  /\ Sound(g, X) /\ IsGraph(g) /\ DOMAIN g.args \subseteq Nodes /\ None \notin DOMAIN g.args
         /\ cur \in DOMAIN g.args /\ cur # None /\ IsCore(cur) /\ OpOf(cur) \in Nat /\ OpOf(cur) <= k
         /\ \A n \in DOMAIN g.args : OpOf(n) <= k
<1>1. /\ Sound(g, X) /\ IsGraph(g) /\ DOMAIN g.args \subseteq Nodes /\ None \notin DOMAIN g.args
      /\ cur \in DOMAIN g.args /\ IsCore(cur) /\ OpOf(cur) <= k
  BY GraphTypes DEF GraphAt, Sound
<1>2. OpOf(cur) \in Nat
  BY <1>1 DEF Nodes, OpOf
<1>3. ASSUME NEW n \in DOMAIN g.args PROVE OpOf(n) <= k
  <2>1. n = Root => OpOf(n) = 0
    BY DEF Root, OpOf
  <2> QED BY <2>1 DEF GraphAt, Accesses, Access
<1> QED BY <1>1, <1>2, <1>3

LEMMA NewNodes ==
  ASSUME NEW p \in Nat \ {0}
  PROVE  /\ Def(p) \in Nodes /\ Def(p) # Root /\ Type(Def(p)) = "Def" /\ OpOf(Def(p)) = p /\ Arity(Def(p)) = 1 /\ IsCore(Def(p))
         /\ Use(p) \in Nodes /\ Use(p) # Root /\ Type(Use(p)) = "Use" /\ OpOf(Use(p)) = p /\ Arity(Use(p)) = 1 /\ ~IsCore(Use(p))
         /\ Phi(p) \in Nodes /\ Phi(p) # Root /\ Type(Phi(p)) = "Phi" /\ OpOf(Phi(p)) = p /\ Arity(Phi(p)) = 2 /\ IsCore(Phi(p))
<1>1. /\ Def(p) \in Nodes /\ Use(p) \in Nodes /\ Phi(p) \in Nodes
      /\ Def(p) # Root /\ Use(p) # Root /\ Phi(p) # Root
  BY DEF Def, Use, Phi, Nodes, NodeTypes, Root
<1>2. /\ Type(Def(p)) = "Def" /\ OpOf(Def(p)) = p /\ Type(Use(p)) = "Use" /\ OpOf(Use(p)) = p
      /\ Type(Phi(p)) = "Phi" /\ OpOf(Phi(p)) = p
  BY DEF Def, Use, Phi, Type, OpOf
<1> QED BY <1>1, <1>2 DEF Arity, IsCore, Core

\* A write becomes a Def.
LEMMA WriteAdded ==
  ASSUME NEW b, NEW kept, NEW g, NEW X, NEW cur, NEW k \in Nat, GraphAt(b, kept, g, X, cur, k),
         k + 1 \in kept, Writes(b[k + 1]),
         NEW h, h = Dominates(CreateNode(g, Def(k + 1), <<cur>>), cur, Def(k + 1))
  PROVE  GraphAt(b, kept, h, X, Def(k + 1), k + 1) /\ Extends(g, h, {Def(k + 1)}) /\ DOMAIN h.args = DOMAIN g.args \cup {Def(k + 1)}
<1> DEFINE n == Def(k + 1)
           c == CreateNode(g, n, <<cur>>)
<1>1. n \in Nodes /\ n # Root /\ Type(n) = "Def" /\ OpOf(n) = k + 1 /\ Arity(n) = 1 /\ IsCore(n)
  BY NewNodes
<1>2. /\ Sound(g, X) /\ cur \in DOMAIN g.args /\ cur # None /\ IsCore(cur) /\ OpOf(cur) \in Nat /\ OpOf(cur) <= k
      /\ \A m \in DOMAIN g.args : OpOf(m) <= k
  BY CoreNodes
<1> HIDE DEF n
<1>3. n \notin DOMAIN g.args /\ Access(b, kept, n, k + 1) /\ Before(cur, n)
  BY <1>1, <1>2 DEF Access, Before
<1>4. <<cur>> \in Seq(DOMAIN g.args \cup {None}) /\ Len(<<cur>>) = 1 /\ DOMAIN <<cur>> = {1} /\ <<cur>>[1] = cur
  BY <1>2
<1>5. \A i \in DOMAIN <<cur>> : MayUse(n, <<cur>>[i])
  BY <1>2, <1>3, <1>4 DEF MayUse
<1> DEFINE as == <<cur>>
<1> HIDE DEF as, c
<1>6. /\ Sound(c, X \cup {n}) /\ Accesses(c, b, kept, k + 1) /\ Extends(g, c, {n})
      /\ DOMAIN c.args = DOMAIN g.args \cup {n} /\ c.args[n] = as /\ n \in Live(c)
  <2>1. CanCreate(g, n, as)
    BY <1>1, <1>3, <1>4, <1>5 DEF as, CanCreate
  <2>2. c = CreateNode(g, n, as)
    BY DEF c, as
  <2>3. GraphAt(b, kept, g, X, cur, k) /\ k \in Nat /\ Access(b, kept, n, k + 1)
    BY <1>3
  <2>4. HasNew(b, kept, g, X, k, n, as, c)
    BY ONLY <2>1, <2>2, <2>3, Creates
  <2> QED BY <2>4 DEF HasNew
<1> DEFINE Y == X \cup {n}
<1> HIDE DEF Y
<1>7. /\ Sound(h, Y) /\ Accesses(h, b, kept, k + 1) /\ Extends(c, h, {})
      /\ h.args = c.args /\ h.dom[n] # None /\ Live(h) = Live(c)
  <2>1. cur \in DOMAIN c.args /\ n \in DOMAIN c.args /\ h = Dominates(c, cur, n) /\ Sound(c, Y)
    BY <1>2, <1>6 DEF c, n, Y
  <2> QED BY <1>1, <1>3, <1>6, <2>1, Connects
<1>8. Settled(h, n)
  <2>1. \A i \in DOMAIN h.args[n] : h.args[n][i] # None
    BY <1>2, <1>4, <1>6, <1>7 DEF as
  <2> QED BY <1>1, <2>1 DEF Settled
<1>9. Sound(h, X)
  <2>1. Sound(h, Y \ {n})
    BY <1>7, <1>8, Closes
  <2>2. Y \ {n} \subseteq X
    BY DEF Y
  <2> QED BY <2>1, <2>2, MoreOpen
<1>10. Extends(g, h, {n})
  BY <1>6, <1>7, ExtendsMore, ExtendsTransitive, ShapeKept DEF GraphAt
<1> QED BY <1>1, <1>6, <1>7, <1>9, <1>10 DEF GraphAt, n

\* A read becomes a Use.
LEMMA ReadAdded ==
  ASSUME NEW b, NEW kept, NEW g, NEW X, NEW cur, NEW k \in Nat, GraphAt(b, kept, g, X, cur, k + 1),
         k + 1 \in kept, Reads(b[k + 1]), Use(k + 1) \notin DOMAIN g.args,
         NEW h, h = CreateNode(g, Use(k + 1), <<cur>>)
  PROVE  GraphAt(b, kept, h, X, cur, k + 1) /\ Extends(g, h, {Use(k + 1)})
<1> DEFINE n == Use(k + 1)
           as == <<cur>>
<1>1. n \in Nodes /\ n # Root /\ Type(n) = "Use" /\ OpOf(n) = k + 1 /\ Arity(n) = 1 /\ ~IsCore(n) /\ k + 1 \in Nat
  BY NewNodes
<1>2. /\ Sound(g, X) /\ cur \in DOMAIN g.args /\ cur # None /\ IsCore(cur) /\ OpOf(cur) \in Nat /\ OpOf(cur) <= k + 1
  BY <1>1, CoreNodes
<1> HIDE DEF n
<1>3. n \notin DOMAIN g.args /\ Access(b, kept, n, k + 1) /\ Before(cur, n)
  BY <1>1, <1>2 DEF Access, Before, n
<1>4. as \in Seq(DOMAIN g.args \cup {None}) /\ Len(as) = 1 /\ DOMAIN as = {1} /\ as[1] = cur
  BY <1>2
<1> HIDE DEF as
<1>5. \A i \in DOMAIN as : MayUse(n, as[i])
  BY <1>2, <1>3, <1>4 DEF MayUse
<1>6. /\ Sound(h, X \cup {n}) /\ DOMAIN h.args = DOMAIN g.args \cup {n} /\ h.args[n] = as
      /\ (\A u \in DOMAIN g.args : h.args[u] = g.args[u])
      /\ Live(h) = Live(g) \cup {n}
      /\ \A u \in DOMAIN g.args : h.dom[u] = g.dom[u]
  <2>1. h = CreateNode(g, n, as) /\ CanCreate(g, n, as)
    BY <1>1, <1>3, <1>4, <1>5 DEF n, as, CanCreate
  <2>2. IsCreated(g, X, n, as, h)
    BY <1>2, <2>1, NodeCreated
  <2> QED BY <2>2 DEF IsCreated
<1>7. Settled(h, n)
  BY <1>1, <1>2, <1>4, <1>6 DEF Settled
<1>8. Sound(h, X)
  <2> DEFINE Y == X \cup {n}
  <2>1. Sound(h, Y) /\ Y \ {n} \subseteq X
    BY <1>6
  <2> HIDE DEF Y
  <2>2. Sound(h, Y \ {n})
    BY <1>7, <2>1, Closes
  <2> QED BY <2>1, <2>2, MoreOpen
<1>9. Accesses(h, b, kept, k + 1)
  BY <1>3, <1>6 DEF GraphAt, Accesses
<1>10. Extends(g, h, {n})
  BY <1>6 DEF Extends
<1> QED BY <1>2, <1>6, <1>8, <1>9, <1>10 DEF GraphAt, n

(***************************************************************************)
(* Loops and branches are entered and left.                                *)
(***************************************************************************)

\* The Phi of a loop, when the loop is entered.
NewLoop(b, kept, g, X, n, k, h) ==
  /\ GraphAt(b, kept, h, X \cup {n}, n, k + 1)
  /\ Extends(g, h, {n})
  /\ n \in Live(h)

LEMMA ForEntered ==
  ASSUME NEW b, NEW kept, NEW g, NEW X, NEW cur, NEW k \in Nat, GraphAt(b, kept, g, X, cur, k),
         NEW h, h = CreateNode(g, Phi(k + 1), <<None, cur>>)
  PROVE  /\ NewLoop(b, kept, g, X, Phi(k + 1), k, h)
         /\ 2 \in DOMAIN h.args[Phi(k + 1)] /\ h.args[Phi(k + 1)][2] # None
<1> DEFINE n == Phi(k + 1)
           as == <<None, cur>>
<1>1. n \in Nodes /\ n # Root /\ Type(n) = "Phi" /\ OpOf(n) = k + 1 /\ Arity(n) = 2 /\ IsCore(n)
  BY NewNodes
<1>2. /\ Sound(g, X) /\ cur \in DOMAIN g.args /\ cur # None /\ IsCore(cur)
      /\ \A m \in DOMAIN g.args : OpOf(m) <= k
  BY CoreNodes
<1>3. h = CreateNode(g, n, as)
  OBVIOUS
<1> HIDE DEF n
<1>4. n \notin DOMAIN g.args /\ Access(b, kept, n, k + 1)
  BY <1>1, <1>2 DEF Access
<1>5. as \in Seq(DOMAIN g.args \cup {None}) /\ Len(as) = 2 /\ DOMAIN as = {1, 2} /\ as[1] = None /\ as[2] = cur
  BY <1>2
<1> HIDE DEF as
<1>6. CanCreate(g, n, as)
  BY <1>1, <1>2, <1>4, <1>5 DEF CanCreate, MayUse
<1>7. HasNew(b, kept, g, X, k, n, as, h)
  <2>1. GraphAt(b, kept, g, X, cur, k) /\ k \in Nat
    OBVIOUS
  <2>2. HasNew(b, kept, g, X, k, n, as, CreateNode(g, n, as))
    BY ONLY <2>1, <1>4, <1>6, Creates
  <2> QED BY <1>3, <2>2
<1>8. NewLoop(b, kept, g, X, n, k, h)
  BY <1>1, <1>7 DEF HasNew, NewLoop, GraphAt
<1> QED BY <1>2, <1>5, <1>7, <1>8 DEF HasNew, n

LEMMA WhileEntered ==
  ASSUME NEW b, NEW kept, NEW g, NEW X, NEW cur, NEW k \in Nat, GraphAt(b, kept, g, X, cur, k),
         NEW h, h = Dominates(CreateNode(g, Phi(k + 1), <<None, None>>), cur, Phi(k + 1))
  PROVE  /\ NewLoop(b, kept, g, X, Phi(k + 1), k, h)
         /\ h.dom[Phi(k + 1)] # None
<1> DEFINE n == Phi(k + 1)
           as == <<None, None>>
           c == CreateNode(g, n, as)
<1>1. n \in Nodes /\ n # Root /\ Type(n) = "Phi" /\ OpOf(n) = k + 1 /\ Arity(n) = 2 /\ IsCore(n)
  BY NewNodes
<1>2. /\ Sound(g, X) /\ cur \in DOMAIN g.args /\ cur # None /\ IsCore(cur) /\ OpOf(cur) \in Nat /\ OpOf(cur) <= k
      /\ \A m \in DOMAIN g.args : OpOf(m) <= k
  BY CoreNodes
<1>3. h = Dominates(c, cur, n)
  OBVIOUS
<1> HIDE DEF n
<1>4. n \notin DOMAIN g.args /\ Access(b, kept, n, k + 1) /\ Before(cur, n)
  BY <1>1, <1>2 DEF Access, Before
<1>5. as \in Seq(DOMAIN g.args \cup {None}) /\ Len(as) = 2 /\ DOMAIN as = {1, 2} /\ as[1] = None /\ as[2] = None
  OBVIOUS
<1> HIDE DEF as, c
<1>6. CanCreate(g, n, as)
  BY <1>1, <1>2, <1>4, <1>5 DEF CanCreate, MayUse
<1>7. HasNew(b, kept, g, X, k, n, as, c)
  <2>1. GraphAt(b, kept, g, X, cur, k) /\ k \in Nat
    OBVIOUS
  <2>2. HasNew(b, kept, g, X, k, n, as, CreateNode(g, n, as))
    BY ONLY <2>1, <1>4, <1>6, Creates
  <2> QED BY <2>2 DEF c
<1> DEFINE Y == X \cup {n}
<1> HIDE DEF Y
<1>8. /\ Sound(h, Y) /\ Accesses(h, b, kept, k + 1) /\ Extends(c, h, {})
      /\ h.args = c.args /\ h.dom[n] # None /\ Live(h) = Live(c)
  <2>1. Sound(c, Y) /\ Accesses(c, b, kept, k + 1) /\ cur \in DOMAIN c.args /\ n \in DOMAIN c.args
    BY <1>2, <1>7 DEF HasNew, Y
  <2> QED BY <1>1, <1>3, <1>4, <2>1, Connects
<1>9. Extends(g, h, {n})
  BY <1>7, <1>8, ExtendsMore, ExtendsTransitive, ShapeKept DEF GraphAt, HasNew
<1>10. NewLoop(b, kept, g, X, n, k, h)
  BY <1>1, <1>7, <1>8, <1>9 DEF HasNew, NewLoop, GraphAt, Y
<1> QED BY <1>8, <1>10 DEF n

\* An open loop, with the node before it.
OpenLoop(g, X, n, op, entry, k) ==
  /\ op \in 1 .. k /\ n = Phi(op)
  /\ n \in DOMAIN g.args /\ n \in Live(g) /\ n \in X
  /\ entry \in DOMAIN g.args /\ IsCore(entry) /\ OpOf(entry) < op

\* The operation is left: its Phi is complete or gone.
IsClosed(b, kept, g, X, n, cur, k, h) ==
  /\ GraphAt(b, kept, h, X \ {n}, cur, k + 1)
  /\ Extends(g, h, {n})

LEMMA LoopNodes ==
  ASSUME NEW g, NEW X, NEW n, NEW op, NEW entry, NEW k \in Nat, OpenLoop(g, X, n, op, entry, k), Sound(g, X)
  PROVE  /\ n \in DOMAIN g.args /\ n # Root /\ Type(n) = "Phi" /\ IsCore(n) /\ OpOf(n) = op /\ op \in Nat /\ op <= k
         /\ n # None /\ entry # None /\ entry # n /\ Before(entry, n) /\ OpOf(entry) \in Nat
         /\ DOMAIN g.args[n] = {1, 2}
<1>1. op \in Nat \ {0} /\ op <= k
  BY DEF OpenLoop
<1>2. n \in Nodes /\ n # Root /\ Type(n) = "Phi" /\ OpOf(n) = op /\ Arity(n) = 2 /\ IsCore(n)
  BY <1>1, NewNodes DEF OpenLoop
<1>3. DOMAIN g.args \subseteq Nodes /\ None \notin DOMAIN g.args
  BY GraphTypes DEF Sound
<1>4. OpOf(entry) \in Nat /\ Before(entry, n)
  BY <1>2, <1>3 DEF OpenLoop, Nodes, OpOf, Before
<1>5. DOMAIN g.args[n] = 1 .. Arity(n)
  BY DEF Sound, NodeFine, OpenLoop
<1>6. entry # n
  BY <1>2 DEF OpenLoop
<1>7. DOMAIN g.args[n] = {1, 2}
  BY <1>2, <1>5
<1> QED BY <1>1, <1>2, <1>3, <1>4, <1>6, <1>7 DEF OpenLoop

LEMMA ForLeft ==
  ASSUME NEW b, NEW kept, NEW g, NEW X, NEW cur, NEW k \in Nat, GraphAt(b, kept, g, X, cur, k),
         NEW n, NEW op, NEW entry, OpenLoop(g, X, n, op, entry, k), g.args[n][2] # None,
         NEW h, h = Dominates(SetArgument(g, n, 1, cur), entry, n)
  PROVE  IsClosed(b, kept, g, X, n, n, k, h)
<1> DEFINE c == SetArgument(g, n, 1, cur)
<1>1. /\ Sound(g, X) /\ cur \in DOMAIN g.args /\ cur # None /\ IsCore(cur)
      /\ Accesses(g, b, kept, k + 1)
  BY CoreNodes, AccessesLater DEF GraphAt
<1>2. /\ n \in DOMAIN g.args /\ n # Root /\ Type(n) = "Phi" /\ IsCore(n) /\ OpOf(n) <= k + 1
      /\ Before(entry, n)
      /\ DOMAIN g.args[n] = {1, 2} /\ n \in Live(g) /\ entry \in DOMAIN g.args
  <2>1. /\ n # Root /\ Type(n) = "Phi" /\ IsCore(n) /\ OpOf(n) = op /\ op \in Nat /\ op <= k
        /\ Before(entry, n) /\ DOMAIN g.args[n] = {1, 2}
    BY <1>1, LoopNodes
  <2> QED BY <2>1 DEF OpenLoop
<1>3. CanSet(g, X, n, 1, cur)
  BY <1>1, <1>2 DEF CanSet, MayUse
<1>0. c = SetArgument(g, n, 1, cur) /\ h = Dominates(c, entry, n)
  OBVIOUS
<1> HIDE DEF c
<1>4. /\ Sound(c, X) /\ Accesses(c, b, kept, k + 1) /\ Extends(g, c, {})
      /\ DOMAIN c.args = DOMAIN g.args /\ DOMAIN c.args[n] = DOMAIN g.args[n]
      /\ c.args[n][1] = cur /\ Live(c) = Live(g)
      /\ \A j \in DOMAIN g.args[n] : j # 1 => c.args[n][j] = g.args[n][j]
  <2>1. HasArgument(b, kept, g, X, k + 1, n, 1, cur, c)
    BY <1>0, <1>1, <1>3, Sets
  <2> QED BY <2>1 DEF HasArgument
<1>5. /\ Sound(h, X) /\ Accesses(h, b, kept, k + 1) /\ Extends(c, h, {})
      /\ h.args = c.args /\ h.dom[n] # None /\ Live(h) = Live(c)
  BY <1>0, <1>2, <1>4, Connects
<1>6. Settled(h, n)
  BY <1>1, <1>2, <1>4, <1>5 DEF Settled
<1>7. Sound(h, X \ {n})
  BY <1>5, <1>6, Closes
<1>8. Extends(g, h, {n})
  <2>1. Extends(g, h, {})
    BY <1>1, <1>4, <1>5, ExtendsTransitive, ShapeKept
  <2> QED BY <2>1, ExtendsMore
<1> QED BY <1>2, <1>4, <1>5, <1>7, <1>8 DEF IsClosed, GraphAt

LEMMA ForErased ==
  ASSUME NEW b, NEW kept, NEW g, NEW X, NEW cur, NEW k \in Nat, GraphAt(b, kept, g, X, cur, k),
         NEW n, NEW op, NEW entry, OpenLoop(g, X, n, op, entry, k),
         NEW h, h = EraseNode(ReplaceUses(g, n, entry), n)
  PROVE  IsClosed(b, kept, g, X, n, entry, k, h)
<1> DEFINE c == ReplaceUses(g, n, entry)
<1>0. c = ReplaceUses(g, n, entry) /\ h = EraseNode(c, n)
  OBVIOUS
<1>1. Sound(g, X) /\ Accesses(g, b, kept, k + 1)
  BY CoreNodes, AccessesLater DEF GraphAt
<1>2. /\ n \in DOMAIN g.args /\ n # Root /\ Type(n) = "Phi" /\ IsCore(n) /\ OpOf(entry) <= k + 1 /\ IsCore(entry)
      /\ Before(entry, n) /\ entry # None
      /\ n \in Live(g) /\ entry \in DOMAIN g.args
  BY <1>1, LoopNodes DEF OpenLoop
<1> HIDE DEF c
<1>3. Sound(c, X) /\ c.args = Renamed(g.args, n, entry) /\ SameNodes(g, c)
  BY <1>0, <1>1, <1>2, UsesReplaced
<1>4. /\ DOMAIN c.args = DOMAIN g.args /\ c.dom = g.dom /\ Live(c) = Live(g)
      /\ \A u \in DOMAIN g.args : \A i \in DOMAIN g.args[u] : g.args[u][i] # None => c.args[u][i] # None
  BY <1>2, <1>3 DEF Renamed, SameNodes, Live
<1>5. Extends(g, c, {n})
  BY <1>4 DEF Extends
<1>6. /\ Sound(h, X \ {n}) /\ DOMAIN h.args = DOMAIN c.args
      /\ \A u \in DOMAIN c.args : u # n => h.args[u] = c.args[u]
      /\ h.dom = c.dom /\ Live(h) = Live(c) \ {n}
  <2>1. n \in DOMAIN c.args /\ n # Root /\ Type(n) # "Def" /\ Sound(c, X) /\ h = EraseNode(c, n)
    BY <1>0, <1>2, <1>3, <1>4
  <2> QED BY ONLY <2>1, NodeErased
<1>7. Extends(c, h, {n})
  BY <1>6 DEF Extends
<1>8. Extends(g, h, {n})
  BY <1>1, <1>3, <1>4, <1>5, <1>7, ExtendsTransitive, ShapeKept
<1>9. Accesses(h, b, kept, k + 1)
  BY <1>1, <1>4, <1>6 DEF Accesses
<1> QED BY <1>2, <1>4, <1>6, <1>8, <1>9 DEF IsClosed, GraphAt

LEMMA IfLeft ==
  ASSUME NEW b, NEW kept, NEW g, NEW X, NEW cur, NEW k \in Nat, GraphAt(b, kept, g, X, cur, k),
         NEW n, NEW op, NEW entry, op \in 1 .. k, n = Phi(op), n \notin DOMAIN g.args,
         entry \in DOMAIN g.args, IsCore(entry), OpOf(entry) < op,
         NEW first, first \in DOMAIN g.args, IsCore(first),
         NEW h, h = Dominates(CreateNode(g, n, <<first, cur>>), entry, n)
  PROVE  IsClosed(b, kept, g, X, n, n, k, h)
<1> DEFINE as == <<first, cur>>
           c == CreateNode(g, n, as)
<1>1. n \in Nodes /\ n # Root /\ Type(n) = "Phi" /\ OpOf(n) = op /\ Arity(n) = 2 /\ IsCore(n) /\ op \in Nat
  BY NewNodes
<1>2. /\ Sound(g, X) /\ cur \in DOMAIN g.args /\ cur # None /\ IsCore(cur)
      /\ DOMAIN g.args \subseteq Nodes /\ None \notin DOMAIN g.args
  BY CoreNodes
<1>3. h = Dominates(c, entry, n)
  OBVIOUS
<1>4. Access(b, kept, n, k + 1) /\ Before(entry, n) /\ first # None /\ OpOf(n) <= k + 1
  BY <1>1, <1>2 DEF Access, Before
<1>5. as \in Seq(DOMAIN g.args \cup {None}) /\ Len(as) = 2 /\ DOMAIN as = {1, 2} /\ as[1] = first /\ as[2] = cur
  BY <1>2
<1> HIDE DEF as, c
<1>6. CanCreate(g, n, as)
  BY <1>1, <1>2, <1>4, <1>5 DEF CanCreate, MayUse
<1>7. HasNew(b, kept, g, X, k, n, as, c)
  <2>1. GraphAt(b, kept, g, X, cur, k) /\ k \in Nat
    OBVIOUS
  <2>2. HasNew(b, kept, g, X, k, n, as, CreateNode(g, n, as))
    BY ONLY <2>1, <1>4, <1>6, Creates
  <2> QED BY <2>2 DEF c
<1> DEFINE Y == X \cup {n}
<1> HIDE DEF Y
<1>8. /\ Sound(h, Y) /\ Accesses(h, b, kept, k + 1) /\ Extends(c, h, {})
      /\ h.args = c.args /\ h.dom[n] # None /\ Live(h) = Live(c)
  <2>1. Sound(c, Y) /\ Accesses(c, b, kept, k + 1) /\ entry \in DOMAIN c.args /\ n \in DOMAIN c.args
    BY <1>2, <1>7 DEF HasNew, Y
  <2> QED BY <1>1, <1>3, <1>4, <2>1, Connects
<1>9. Settled(h, n)
  <2>1. h.args[n] = as /\ h.dom[n] # None
    BY <1>7, <1>8 DEF HasNew
  <2>2. \A i \in DOMAIN as : as[i] # None
    BY <1>2, <1>4, <1>5
  <2> QED BY <2>1, <2>2 DEF Settled
<1>10. Sound(h, X \ {n})
  <2>1. Sound(h, Y \ {n})
    BY <1>8, <1>9, Closes
  <2>2. Y \ {n} \subseteq X \ {n}
    BY DEF Y
  <2> QED BY <2>1, <2>2, MoreOpen
<1>11. Extends(g, h, {n})
  BY <1>7, <1>8, ExtendsMore, ExtendsTransitive, ShapeKept DEF GraphAt, HasNew
<1> QED BY <1>1, <1>4, <1>7, <1>8, <1>10, <1>11 DEF HasNew, IsClosed, GraphAt

LEMMA WhileLeft ==
  ASSUME NEW b, NEW kept, NEW g, NEW X, NEW cur, NEW k \in Nat, GraphAt(b, kept, g, X, cur, k),
         NEW n, NEW op, NEW entry, OpenLoop(g, X, n, op, entry, k), g.dom[n] # None,
         NEW result, result \in DOMAIN g.args, IsCore(result), OpOf(result) <= k,
         NEW h, h = SetArgument(SetArgument(g, n, 1, entry), n, 2, cur)
  PROVE  IsClosed(b, kept, g, X, n, result, k, h)
<1> DEFINE c == SetArgument(g, n, 1, entry)
<1>0. c = SetArgument(g, n, 1, entry) /\ h = SetArgument(c, n, 2, cur)
  OBVIOUS
<1>1. /\ Sound(g, X) /\ cur \in DOMAIN g.args /\ cur # None /\ IsCore(cur)
      /\ Accesses(g, b, kept, k + 1)
      /\ DOMAIN g.args \subseteq Nodes
  BY CoreNodes, AccessesLater DEF GraphAt
<1>2. /\ n \in DOMAIN g.args /\ n # Root /\ Type(n) = "Phi" /\ IsCore(n)
      /\ entry # None /\ IsCore(entry)
      /\ DOMAIN g.args[n] = {1, 2} /\ n \in Live(g) /\ entry \in DOMAIN g.args
  BY <1>1, LoopNodes DEF OpenLoop
<1>3. CanSet(g, X, n, 1, entry)
  BY <1>1, <1>2 DEF CanSet, MayUse
<1> HIDE DEF c
<1>4. /\ Sound(c, X) /\ Accesses(c, b, kept, k + 1) /\ Extends(g, c, {})
      /\ DOMAIN c.args = DOMAIN g.args /\ DOMAIN c.args[n] = DOMAIN g.args[n]
      /\ c.args[n][1] = entry /\ c.dom = g.dom /\ Live(c) = Live(g)
  <2>1. HasArgument(b, kept, g, X, k + 1, n, 1, entry, c)
    BY <1>0, <1>1, <1>2, <1>3, Sets
  <2> QED BY <2>1 DEF HasArgument
<1>5. CanSet(c, X, n, 2, cur)
  BY <1>1, <1>2, <1>4 DEF CanSet, MayUse
<1>6. /\ Sound(h, X) /\ Accesses(h, b, kept, k + 1) /\ Extends(c, h, {})
      /\ DOMAIN h.args = DOMAIN c.args /\ DOMAIN h.args[n] = DOMAIN c.args[n]
      /\ h.args[n][2] = cur /\ h.dom = c.dom
      /\ \A j \in DOMAIN c.args[n] : j # 2 => h.args[n][j] = c.args[n][j]
  <2>1. HasArgument(b, kept, c, X, k + 1, n, 2, cur, h)
    BY <1>0, <1>1, <1>4, <1>5, Sets
  <2> QED BY <2>1 DEF HasArgument
<1>7. Settled(h, n)
  BY <1>1, <1>2, <1>4, <1>6 DEF Settled
<1>8. Sound(h, X \ {n})
  BY <1>6, <1>7, Closes
<1>9. Extends(g, h, {n})
  <2>1. Extends(g, h, {})
    BY <1>1, <1>4, <1>6, ExtendsTransitive, ShapeKept
  <2> QED BY <2>1, ExtendsMore
<1>10. OpOf(result) <= k + 1
  BY <1>1 DEF Nodes, OpOf
<1> QED BY <1>4, <1>6, <1>8, <1>9, <1>10 DEF IsClosed, GraphAt

(***************************************************************************)
(* memSSAProcessRegion, one operation at a time.                           *)
(***************************************************************************)

\* The Phis of the open operations.
Pending(open) == {Phi(open[j].op) : j \in 1 .. Len(open)}

\* memSSAProcessRegion has processed the first k operations.
BuildState(b, kept, s, k) ==
  /\ s = [g |-> s.g, cur |-> s.cur, open |-> s.open]
  /\ GraphAt(b, kept, s.g, Pending(s.open), s.cur, k)
  /\ OpenAt(b, s.g, s.open, k, Around(b, k + 1))

LEMMA PendingPushed ==
  ASSUME NEW open, IsSeq(open), NEW r
  PROVE  Pending(open) \cup {Phi(r.op)} \subseteq Pending(Append(open, r))
<1> DEFINE o == Append(open, r)
<1>1. /\ Len(o) = Len(open) + 1 /\ o[Len(open) + 1] = r /\ \A i \in 1 .. Len(open) : o[i] = open[i]
  BY SeqAppended
<1>2. Len(open) \in Nat
  BY LenProperties DEF IsSeq
<1> HIDE DEF o
<1>3. \A j \in 1 .. Len(open) : j \in 1 .. Len(o) /\ Phi(open[j].op) = Phi(o[j].op)
  BY <1>1, <1>2
<1>4. Len(open) + 1 \in 1 .. Len(o) /\ Phi(o[Len(open) + 1].op) = Phi(r.op)
  BY <1>1, <1>2
<1> QED BY <1>3, <1>4 DEF Pending, o

LEMMA PendingPopped ==
  ASSUME NEW open, IsSeq(open), open # << >>
  PROVE  Pending(open) \ {Phi(Last(open).op)} \subseteq Pending(Front(open))
<1> DEFINE f == Front(open)
           m == Len(open)
<1>1. Len(f) = m - 1 /\ (\A j \in 1 .. m - 1 : f[j] = open[j]) /\ Last(open) = open[m] /\ m \in Nat \ {0}
  BY SeqFront
<1> HIDE DEF f, m
<1>2. \A j \in 1 .. m : j = m \/ (j \in 1 .. Len(f) /\ Phi(open[j].op) = Phi(f[j].op))
  BY <1>1
<1>3. \A j \in 1 .. m : j = m => Phi(open[j].op) = Phi(Last(open).op)
  BY <1>1
<1> QED BY <1>2, <1>3 DEF Pending, f, m

LEMMA StateFacts ==
  ASSUME NEW b, NEW kept, NEW s, NEW k \in Nat, BuildState(b, kept, s, k)
  PROVE  /\ s = [g |-> s.g, cur |-> s.cur, open |-> s.open]
         /\ GraphAt(b, kept, s.g, Pending(s.open), s.cur, k) /\ Sound(s.g, Pending(s.open))
         /\ DOMAIN s.g.args \subseteq Nodes /\ None \notin DOMAIN s.g.args
         /\ OpenAt(b, s.g, s.open, k, Around(b, k + 1)) /\ IsSeq(s.open)
         /\ IsStack(Around(b, k + 1), k)
         /\ Around(b, (k + 1) + 1) = Enter(b, Around(b, k + 1), k + 1)
BY CoreNodes, AroundStack, AroundNext DEF BuildState, OpenAt

\* The innermost open operation.
LEMMA Inner ==
  ASSUME NEW b, NEW kept, NEW s, NEW k \in Nat, BuildState(b, kept, s, k), Around(b, k + 1) # << >>
  PROVE  /\ s.open # << >>
         /\ Last(s.open).op = Last(Around(b, k + 1))
         /\ Frame(s.g, b, Last(s.open), k)
         /\ Phi(Last(s.open).op) \in Pending(s.open)
<1> DEFINE stack == Around(b, k + 1)
           m == Len(stack)
<1>1. IsSeq(stack) /\ IsSeq(s.open) /\ Len(s.open) = m /\ OpenAt(b, s.g, s.open, k, stack)
  BY StateFacts, AnySeq DEF IsStack, OpenAt
<1> HIDE DEF stack
<1>2. m \in Nat \ {0} /\ Last(stack) = stack[m]
  BY <1>1, SeqFront DEF stack
<1>3. s.open # << >>
  <2>1. s.open = << >> => Len(s.open) = 0
    OBVIOUS
  <2> QED BY <1>1, <1>2, <2>1
<1>4. Last(s.open) = s.open[m]
  BY <1>1, <1>3, SeqFront
<1>5. m \in 1 .. m
  BY <1>2
<1>6. s.open[m].op = stack[m] /\ Frame(s.g, b, s.open[m], k)
  BY <1>1, <1>5 DEF OpenAt
<1>7. Phi(s.open[m].op) \in Pending(s.open)
  BY <1>1, <1>5 DEF Pending
<1> QED BY <1>2, <1>3, <1>4, <1>6, <1>7 DEF stack

\* An operation that has no node.
LEMMA Skipped ==
  ASSUME NEW b, NEW kept, NEW s, NEW k \in Nat, BuildState(b, kept, s, k),
         b[k + 1].kind \notin Openers \cup {"else", "do", "end"}
  PROVE  BuildState(b, kept, s, k + 1)
<1>1. Around(b, (k + 1) + 1) = Around(b, k + 1)
  BY StateFacts DEF Enter
<1>2. OpenAt(b, s.g, s.open, k + 1, Around(b, k + 1))
  <2> DEFINE g == s.g
             open == s.open
             stack == Around(b, k + 1)
             N == {}
  <2>1. OpenAt(b, g, open, k, stack) /\ DOMAIN g.args \subseteq Nodes /\ IsStack(stack, k) /\ k \in Nat
    BY StateFacts
  <2>2. Extends(g, g, N) /\ Plain(b, k + 1)
    BY ExtendsItself DEF Plain
  <2>3. \A n \in N : Type(n) # "Phi"
    OBVIOUS
  <2> HIDE DEF g, open, stack, N
  <2>4. \A u \in DOMAIN g.args : DOMAIN g.args[u] = DOMAIN g.args[u]
    OBVIOUS
  <2>5. OpenAt(b, g, open, k + 1, stack)
    BY ONLY <2>1, <2>2, <2>3, <2>4, OpenKept
  <2> QED BY <2>5 DEF g, open, stack
<1>3. OpOf(s.cur) <= k + 1 /\ Accesses(s.g, b, kept, k + 1)
  BY CoreNodes, AccessesLater DEF BuildState, GraphAt
<1> QED BY <1>1, <1>2, <1>3 DEF BuildState, GraphAt

\* An operation with a region is entered.
LEMMA Entered ==
  ASSUME NEW b, NEW kept, NEW s, NEW k \in Nat, BuildState(b, kept, s, k),
         b[k + 1].kind \in Openers,
         NEW h, NEW cur, NEW r, r.op = k + 1,
         Extends(s.g, h, {Phi(k + 1)}),
         GraphAt(b, kept, h, Pending(s.open) \cup {Phi(k + 1)}, cur, k + 1),
         Frame(h, b, r, k + 1)
  PROVE  BuildState(b, kept, [g |-> h, cur |-> cur, open |-> Append(s.open, r)], k + 1)
<1> DEFINE t == [g |-> h, cur |-> cur, open |-> Append(s.open, r)]
           stack == Around(b, k + 1)
<1>1. t.g = h /\ t.cur = cur /\ t.open = Append(s.open, r) /\ t = [g |-> t.g, cur |-> t.cur, open |-> t.open]
  OBVIOUS
<1>2. /\ OpenAt(b, s.g, s.open, k, stack) /\ Sound(s.g, Pending(s.open)) /\ IsSeq(s.open)
      /\ DOMAIN s.g.args \subseteq Nodes /\ IsStack(stack, k)
      /\ Around(b, (k + 1) + 1) = Append(stack, k + 1)
  <2>1. Enter(b, stack, k + 1) = Append(stack, k + 1)
    BY DEF Enter, Openers
  <2> QED BY <2>1, StateFacts
<1>3. \A u \in DOMAIN s.g.args : DOMAIN h.args[u] = DOMAIN s.g.args[u]
  BY <1>2, ShapeKept DEF GraphAt, Extends, SameShape
<1>4. Plain(b, k + 1)
  BY DEF Plain, Openers
<1> HIDE DEF t, stack
<1>5. OpenAt(b, h, Append(s.open, r), k + 1, Append(stack, k + 1))
  <2> DEFINE g == s.g
             open == s.open
  <2>1. /\ OpenAt(b, g, open, k, stack) /\ DOMAIN g.args \subseteq Nodes /\ Extends(g, h, {Phi(k + 1)})
        /\ \A u \in DOMAIN g.args : DOMAIN h.args[u] = DOMAIN g.args[u]
    BY <1>2, <1>3
  <2> HIDE DEF g, open
  <2>2. OpenAt(b, h, Append(open, r), k + 1, Append(stack, k + 1))
    BY <1>2, <1>4, <2>1, OpenPushed
  <2> QED BY <2>2 DEF open
<1>6. GraphAt(b, kept, h, Pending(Append(s.open, r)), cur, k + 1)
  <2> DEFINE X == Pending(s.open) \cup {Phi(k + 1)}
             Y == Pending(Append(s.open, r))
  <2>1. X \subseteq Y
    BY <1>2, PendingPushed
  <2>2. Sound(h, X)
    BY DEF GraphAt
  <2> HIDE DEF X, Y
  <2>3. Sound(h, Y)
    BY <2>1, <2>2, MoreOpen
  <2> QED BY <2>3 DEF GraphAt, Y
<1>7. BuildState(b, kept, t, k + 1)
  BY <1>1, <1>2, <1>5, <1>6 DEF BuildState
<1> QED BY <1>7 DEF t

\* An operation with a region is left.
LEMMA Left ==
  ASSUME NEW b, NEW kept, NEW s, NEW k \in Nat, BuildState(b, kept, s, k),
         b[k + 1].kind = "end", Around(b, k + 1) # << >>,
         NEW h, NEW cur, IsClosed(b, kept, s.g, Pending(s.open), Phi(Last(s.open).op), cur, k, h)
  PROVE  BuildState(b, kept, [g |-> h, cur |-> cur, open |-> Front(s.open)], k + 1)
<1> DEFINE t == [g |-> h, cur |-> cur, open |-> Front(s.open)]
           stack == Around(b, k + 1)
<1>1. t.g = h /\ t.cur = cur /\ t.open = Front(s.open) /\ t = [g |-> t.g, cur |-> t.cur, open |-> t.open]
  OBVIOUS
<1>2. /\ OpenAt(b, s.g, s.open, k, stack) /\ Sound(s.g, Pending(s.open)) /\ IsSeq(s.open)
      /\ DOMAIN s.g.args \subseteq Nodes /\ IsStack(stack, k)
  BY StateFacts
<1>3. Around(b, (k + 1) + 1) = Front(stack)
  <2>1. "end" \notin Openers
    BY DEF Openers
  <2> QED BY <2>1, StateFacts DEF Enter
<1>4. Plain(b, k + 1) /\ s.open # << >>
  BY Inner DEF Plain
<1> DEFINE n == Phi(Last(s.open).op)
<1>5. Extends(s.g, h, {n}) /\ GraphAt(b, kept, h, Pending(s.open) \ {n}, cur, k + 1)
  BY DEF IsClosed
<1>6. \A u \in DOMAIN s.g.args : DOMAIN h.args[u] = DOMAIN s.g.args[u]
  BY <1>2, <1>5, ShapeKept DEF GraphAt, Extends, SameShape
<1> HIDE DEF t, stack
<1>7. OpenAt(b, h, Front(s.open), k + 1, Front(stack))
  <2> DEFINE g == s.g
             open == s.open
  <2>1. /\ OpenAt(b, g, open, k, stack) /\ DOMAIN g.args \subseteq Nodes /\ Extends(g, h, {Phi(Last(open).op)})
        /\ open # << >>
        /\ \A u \in DOMAIN g.args : DOMAIN h.args[u] = DOMAIN g.args[u]
    BY <1>2, <1>4, <1>5, <1>6
  <2> HIDE DEF g, open
  <2>2. OpenAt(b, h, Front(open), k + 1, Front(stack))
    BY <1>2, <1>4, <2>1, OpenPopped
  <2> QED BY <2>2 DEF open
<1>8. GraphAt(b, kept, h, Pending(Front(s.open)), cur, k + 1)
  <2> DEFINE X == Pending(s.open) \ {n}
             Y == Pending(Front(s.open))
  <2>1. X \subseteq Y
    BY <1>2, <1>4, PendingPopped
  <2>2. Sound(h, X)
    BY <1>5 DEF GraphAt
  <2> HIDE DEF X, Y
  <2>3. Sound(h, Y)
    BY <2>1, <2>2, MoreOpen
  <2> QED BY <1>5, <2>3 DEF GraphAt, Y
<1>9. BuildState(b, kept, t, k + 1)
  BY <1>1, <1>3, <1>7, <1>8 DEF BuildState
<1> QED BY <1>9 DEF t

\* The separator of the two regions.
LEMMA Halved ==
  ASSUME NEW b, NEW kept, NEW s, NEW k \in Nat, BuildState(b, kept, s, k),
         b[k + 1].kind \in {"else", "do"}, Around(b, k + 1) # << >>,
         NEW cur, cur \in {s.cur, Last(s.open).entry}
  PROVE  BuildState(b, kept, [g |-> s.g, cur |-> cur,
                              open |-> Append(Front(s.open), [Last(s.open) EXCEPT !.result = s.cur])], k + 1)
<1> DEFINE l == Last(s.open)
           r == [l EXCEPT !.result = s.cur]
           o == Append(Front(s.open), r)
           t == [g |-> s.g, cur |-> cur, open |-> o]
           stack == Around(b, k + 1)
<1>1. t.g = s.g /\ t.cur = cur /\ t.open = o /\ t = [g |-> t.g, cur |-> t.cur, open |-> t.open]
  OBVIOUS
<1>2. /\ OpenAt(b, s.g, s.open, k, stack) /\ GraphAt(b, kept, s.g, Pending(s.open), s.cur, k) /\ IsSeq(s.open)
      /\ DOMAIN s.g.args \subseteq Nodes
  BY StateFacts
<1>3. Around(b, (k + 1) + 1) = stack
  <2>1. b[k + 1].kind \notin Openers /\ b[k + 1].kind # "end"
    BY DEF Openers
  <2> QED BY <2>1, StateFacts DEF Enter
<1>4. s.open # << >> /\ Frame(s.g, b, l, k)
  BY Inner
<1>5. s.cur \in DOMAIN s.g.args /\ s.cur # None /\ IsCore(s.cur) /\ OpOf(s.cur) <= k /\ OpOf(s.cur) \in Nat
  BY <1>2, CoreNodes
<1>6. OpOf(s.cur) <= k + 1 /\ OpOf(l.entry) <= k + 1 /\ l.entry \in DOMAIN s.g.args /\ IsCore(l.entry)
  <2>1. OpOf(l.entry) < l.op /\ l.op \in 1 .. k /\ l.entry \in DOMAIN s.g.args /\ IsCore(l.entry)
    BY <1>4 DEF Frame
  <2>2. OpOf(l.entry) \in Nat
    BY <1>2, <2>1 DEF Nodes, OpOf
  <2> QED BY <1>5, <2>1, <2>2
<1>7. OpenAt(b, s.g, o, k + 1, stack)
  BY <1>2, <1>4, <1>5, <1>6, OpenHalved
<1>8. GraphAt(b, kept, s.g, Pending(o), cur, k + 1)
  <2>1. Pending(s.open) \subseteq Pending(o)
    <3>1. l = [op |-> l.op, entry |-> l.entry, phi |-> l.phi, result |-> l.result]
      BY <1>4 DEF Frame
    <3>2. r.op = l.op
      BY <3>1
    <3>3. Pending(s.open) \ {Phi(l.op)} \subseteq Pending(Front(s.open)) /\ IsSeq(Front(s.open))
      BY <1>2, <1>4, PendingPopped, SeqFront
    <3>4. Pending(Front(s.open)) \cup {Phi(r.op)} \subseteq Pending(o)
      BY <3>3, PendingPushed
    <3> QED BY <3>2, <3>3, <3>4
  <2>2. Sound(s.g, Pending(s.open)) /\ Accesses(s.g, b, kept, k + 1)
    BY <1>2, AccessesLater DEF GraphAt
  <2> DEFINE X == Pending(s.open)
             Y == Pending(o)
             g == s.g
  <2>3. X \subseteq Y /\ Sound(g, X)
    BY <2>1, <2>2
  <2> HIDE DEF X, Y, g
  <2>4. Sound(g, Y)
    BY <2>3, MoreOpen
  <2> QED BY <1>5, <1>6, <2>2, <2>4 DEF GraphAt, Y, g
<1> HIDE DEF t, o, stack
<1>9. BuildState(b, kept, t, k + 1)
  BY <1>1, <1>3, <1>7, <1>8 DEF BuildState, stack
<1> QED BY <1>9 DEF t, o, r, l

\* A new frame, for a loop or a branch.
LEMMA NewFrame ==
  ASSUME NEW b, NEW k \in Nat, NEW g, DOMAIN g.args \subseteq Nodes, NEW cur, cur \in DOMAIN g.args, IsCore(cur), OpOf(cur) <= k,
         NEW N, NEW h, Extends(g, h, N), NEW r, NEW phi, r = [op |-> k + 1, entry |-> cur, phi |-> phi, result |-> None],
         b[k + 1].kind \in Openers,
         b[k + 1].kind = "if" => Phi(k + 1) \notin DOMAIN h.args,
         b[k + 1].kind # "if" => phi = Phi(k + 1) /\ phi \in DOMAIN h.args /\ phi \in Live(h),
         b[k + 1].kind = "for" => 2 \in DOMAIN h.args[phi] /\ h.args[phi][2] # None,
         b[k + 1].kind = "while" => h.dom[phi] # None
  PROVE  Frame(h, b, r, k + 1)
<1>1. r.op = k + 1 /\ r.entry = cur /\ r.phi = phi /\ r.result = None
  OBVIOUS
<1>2. r = [op |-> r.op, entry |-> r.entry, phi |-> r.phi, result |-> r.result]
  BY <1>1
<1>3. k + 1 \in 1 .. k + 1
  OBVIOUS
<1>4. cur \in DOMAIN h.args /\ OpOf(cur) < k + 1
  <2>1. OpOf(cur) \in Nat
    BY DEF Nodes, OpOf
  <2> QED BY <2>1 DEF Extends
<1>5. ~Halfway(b, k + 1, (k + 1) + 1)
  BY DEF Halfway
<1> HIDE DEF IsCore
<1> QED BY <1>1, <1>2, <1>3, <1>4, <1>5 DEF Frame

LEMMA StateSet ==
  ASSUME NEW s, s = [g |-> s.g, cur |-> s.cur, open |-> s.open], NEW g, NEW cur, NEW open,
         NEW t, t = [s EXCEPT !.g = g, !.cur = cur, !.open = open]
  PROVE  t = [g |-> g, cur |-> cur, open |-> open]
OBVIOUS

LEMMA ForIn ==
  ASSUME NEW b, NEW kept, NEW s, NEW k \in Nat, BuildState(b, kept, s, k), b[k + 1].kind = "for"
  PROVE  BuildState(b, kept, EnterFor(s, k + 1), k + 1)
<1> DEFINE h == CreateNode(s.g, Phi(k + 1), <<None, s.cur>>)
           r == [op |-> k + 1, entry |-> s.cur, phi |-> Phi(k + 1), result |-> None]
           X == Pending(s.open)
<1>1. GraphAt(b, kept, s.g, X, s.cur, k) /\ s = [g |-> s.g, cur |-> s.cur, open |-> s.open]
  BY StateFacts
<1>2. EnterFor(s, k + 1) = [g |-> h, cur |-> Phi(k + 1), open |-> Append(s.open, r)]
  <2> DEFINE o == Append(s.open, r)
             c == Phi(k + 1)
             t == EnterFor(s, k + 1)
  <2>1. t = [s EXCEPT !.g = h, !.cur = c, !.open = o]
    BY DEF EnterFor, Opened
  <2> HIDE DEF h, r, c, o, t
  <2>2. t = [g |-> h, cur |-> c, open |-> o]
    BY <1>1, <2>1, StateSet
  <2> QED BY <2>2 DEF c, o, t
<1>3. /\ s.cur \in DOMAIN s.g.args /\ IsCore(s.cur) /\ OpOf(s.cur) <= k /\ DOMAIN s.g.args \subseteq Nodes
  BY <1>1, CoreNodes
<1>4. r = [op |-> k + 1, entry |-> s.cur, phi |-> Phi(k + 1), result |-> None] /\ r.op = k + 1
  OBVIOUS
<1>5. h = CreateNode(s.g, Phi(k + 1), <<None, s.cur>>)
  OBVIOUS
<1> HIDE DEF h, r, X
<1>6. /\ NewLoop(b, kept, s.g, X, Phi(k + 1), k, h)
      /\ 2 \in DOMAIN h.args[Phi(k + 1)] /\ h.args[Phi(k + 1)][2] # None
  BY <1>1, <1>5, ForEntered
<1>7. GraphAt(b, kept, h, X \cup {Phi(k + 1)}, Phi(k + 1), k + 1) /\ Extends(s.g, h, {Phi(k + 1)}) /\ Phi(k + 1) \in Live(h)
  BY <1>6 DEF NewLoop
<1>8. Phi(k + 1) \in DOMAIN h.args
  BY <1>7 DEF GraphAt
<1>9. b[k + 1].kind \in Openers
  BY DEF Openers
<1>10. k \in Nat /\ b[k + 1].kind = "for"
  OBVIOUS
<1>11. Frame(h, b, r, k + 1)
  <2> DEFINE g == s.g
             c == s.cur
             N == {Phi(k + 1)}
             phi == Phi(k + 1)
  <2>1. DOMAIN g.args \subseteq Nodes /\ c \in DOMAIN g.args /\ IsCore(c) /\ OpOf(c) <= k
    BY <1>3
  <2>2. Extends(g, h, N) /\ r = [op |-> k + 1, entry |-> c, phi |-> phi, result |-> None]
    BY <1>4, <1>7
  <2>3. phi = Phi(k + 1) /\ phi \in DOMAIN h.args /\ phi \in Live(h) /\ 2 \in DOMAIN h.args[phi] /\ h.args[phi][2] # None
    BY <1>6, <1>7, <1>8
  <2> HIDE DEF g, c, N, phi
  <2> QED BY ONLY <1>9, <1>10, <2>1, <2>2, <2>3, NewFrame
<1>12. BuildState(b, kept, [g |-> h, cur |-> Phi(k + 1), open |-> Append(s.open, r)], k + 1)
  <2>1. r.op = k + 1
    BY <1>4
  <2>2. GraphAt(b, kept, h, Pending(s.open) \cup {Phi(k + 1)}, Phi(k + 1), k + 1)
    BY <1>7 DEF X
  <2>3. BuildState(b, kept, s, k)
    OBVIOUS
  <2> DEFINE c == Phi(k + 1)
  <2>4. GraphAt(b, kept, h, Pending(s.open) \cup {Phi(k + 1)}, c, k + 1)
    BY <2>2
  <2> HIDE DEF c
  <2>5. BuildState(b, kept, [g |-> h, cur |-> c, open |-> Append(s.open, r)], k + 1)
    BY ONLY <1>7, <1>9, <1>10, <1>11, <2>1, <2>3, <2>4, Entered
  <2> QED BY <2>5 DEF c
<1> QED BY <1>2, <1>12

LEMMA WhileIn ==
  ASSUME NEW b, NEW kept, NEW s, NEW k \in Nat, BuildState(b, kept, s, k), b[k + 1].kind = "while"
  PROVE  BuildState(b, kept, EnterWhile(s, k + 1), k + 1)
<1> DEFINE h == Dominates(CreateNode(s.g, Phi(k + 1), <<None, None>>), s.cur, Phi(k + 1))
           r == [op |-> k + 1, entry |-> s.cur, phi |-> Phi(k + 1), result |-> None]
           X == Pending(s.open)
<1>1. GraphAt(b, kept, s.g, X, s.cur, k) /\ s = [g |-> s.g, cur |-> s.cur, open |-> s.open]
  BY StateFacts
<1>2. EnterWhile(s, k + 1) = [g |-> h, cur |-> Phi(k + 1), open |-> Append(s.open, r)]
  <2> DEFINE o == Append(s.open, r)
             c == Phi(k + 1)
             t == EnterWhile(s, k + 1)
  <2>1. t = [s EXCEPT !.g = h, !.cur = c, !.open = o]
    BY DEF EnterWhile, Opened
  <2> HIDE DEF h, r, c, o, t
  <2>2. t = [g |-> h, cur |-> c, open |-> o]
    BY <1>1, <2>1, StateSet
  <2> QED BY <2>2 DEF c, o, t
<1>3. /\ s.cur \in DOMAIN s.g.args /\ IsCore(s.cur) /\ OpOf(s.cur) <= k /\ DOMAIN s.g.args \subseteq Nodes
  BY <1>1, CoreNodes
<1>4. r = [op |-> k + 1, entry |-> s.cur, phi |-> Phi(k + 1), result |-> None] /\ r.op = k + 1
  OBVIOUS
<1>5. h = Dominates(CreateNode(s.g, Phi(k + 1), <<None, None>>), s.cur, Phi(k + 1))
  OBVIOUS
<1> HIDE DEF h, r, X
<1>6. /\ NewLoop(b, kept, s.g, X, Phi(k + 1), k, h)
      /\ h.dom[Phi(k + 1)] # None
  BY <1>1, <1>5, WhileEntered
<1>7. GraphAt(b, kept, h, X \cup {Phi(k + 1)}, Phi(k + 1), k + 1) /\ Extends(s.g, h, {Phi(k + 1)}) /\ Phi(k + 1) \in Live(h)
  BY <1>6 DEF NewLoop
<1>8. Phi(k + 1) \in DOMAIN h.args
  BY <1>7 DEF GraphAt
<1>9. b[k + 1].kind \in Openers
  BY DEF Openers
<1>10. k \in Nat /\ b[k + 1].kind = "while"
  OBVIOUS
<1>11. Frame(h, b, r, k + 1)
  <2> DEFINE g == s.g
             c == s.cur
             N == {Phi(k + 1)}
             phi == Phi(k + 1)
  <2>1. DOMAIN g.args \subseteq Nodes /\ c \in DOMAIN g.args /\ IsCore(c) /\ OpOf(c) <= k
    BY <1>3
  <2>2. Extends(g, h, N) /\ r = [op |-> k + 1, entry |-> c, phi |-> phi, result |-> None]
    BY <1>4, <1>7
  <2>3. phi = Phi(k + 1) /\ phi \in DOMAIN h.args /\ phi \in Live(h) /\ h.dom[phi] # None
    BY <1>6, <1>7, <1>8
  <2> HIDE DEF g, c, N, phi
  <2> QED BY ONLY <1>9, <1>10, <2>1, <2>2, <2>3, NewFrame
<1>12. BuildState(b, kept, [g |-> h, cur |-> Phi(k + 1), open |-> Append(s.open, r)], k + 1)
  <2>1. r.op = k + 1
    BY <1>4
  <2>2. GraphAt(b, kept, h, Pending(s.open) \cup {Phi(k + 1)}, Phi(k + 1), k + 1)
    BY <1>7 DEF X
  <2>3. BuildState(b, kept, s, k)
    OBVIOUS
  <2> DEFINE c == Phi(k + 1)
  <2>4. GraphAt(b, kept, h, Pending(s.open) \cup {Phi(k + 1)}, c, k + 1)
    BY <2>2
  <2> HIDE DEF c
  <2>5. BuildState(b, kept, [g |-> h, cur |-> c, open |-> Append(s.open, r)], k + 1)
    BY ONLY <1>7, <1>9, <1>10, <1>11, <2>1, <2>3, <2>4, Entered
  <2> QED BY <2>5 DEF c
<1> QED BY <1>2, <1>12

LEMMA IfIn ==
  ASSUME NEW b, NEW kept, NEW s, NEW k \in Nat, BuildState(b, kept, s, k), b[k + 1].kind = "if"
  PROVE  BuildState(b, kept, EnterIf(s, k + 1), k + 1)
<1> DEFINE h == s.g
           c == s.cur
           r == [op |-> k + 1, entry |-> c, phi |-> None, result |-> None]
           X == Pending(s.open)
           N == {Phi(k + 1)}
<1>1. GraphAt(b, kept, h, X, c, k) /\ s = [g |-> s.g, cur |-> s.cur, open |-> s.open]
  BY StateFacts
<1>2. EnterIf(s, k + 1) = [g |-> h, cur |-> c, open |-> Append(s.open, r)]
  BY <1>1, SMTT(30) DEF EnterIf, Opened
<1>3. r = [op |-> k + 1, entry |-> c, phi |-> None, result |-> None] /\ r.op = k + 1
  OBVIOUS
<1>4. Extends(h, h, N) /\ Extends(s.g, h, N) /\ X \subseteq X \cup N /\ N = {Phi(k + 1)}
  BY ExtendsItself
<1> HIDE DEF h, r, X, c, N
<1>5. /\ c \in DOMAIN h.args /\ IsCore(c) /\ OpOf(c) <= k /\ OpOf(c) \in Nat /\ DOMAIN h.args \subseteq Nodes
      /\ \A n \in DOMAIN h.args : OpOf(n) <= k
  BY <1>1, CoreNodes
<1>6. Phi(k + 1) \notin DOMAIN h.args
  <2>1. OpOf(Phi(k + 1)) = k + 1
    BY DEF OpOf, Phi
  <2> QED BY <1>5, <2>1
<1>7. b[k + 1].kind \in Openers
  BY DEF Openers
<1>8. k \in Nat /\ b[k + 1].kind = "if" /\ BuildState(b, kept, s, k)
  OBVIOUS
<1>9. Frame(h, b, r, k + 1)
  BY ONLY <1>3, <1>4, <1>5, <1>6, <1>7, <1>8, NewFrame
<1>10. GraphAt(b, kept, h, X \cup N, c, k + 1)
  <2>1. Sound(h, X) /\ Accesses(h, b, kept, k)
    BY <1>1 DEF GraphAt
  <2>2. Sound(h, X \cup N)
    BY <1>4, <2>1, MoreOpen
  <2>3. Accesses(h, b, kept, k + 1)
    BY <2>1, AccessesLater
  <2> QED BY <1>5, <2>2, <2>3 DEF GraphAt
<1>11. GraphAt(b, kept, h, Pending(s.open) \cup {Phi(k + 1)}, c, k + 1) /\ Extends(s.g, h, {Phi(k + 1)}) /\ r.op = k + 1
  BY <1>3, <1>4, <1>10 DEF X
<1>12. BuildState(b, kept, [g |-> h, cur |-> c, open |-> Append(s.open, r)], k + 1)
  BY ONLY <1>7, <1>8, <1>9, <1>11, Entered
<1> QED BY <1>2, <1>12

\* The separators.
LEMMA ElseIn ==
  ASSUME NEW b, NEW kept, NEW s, NEW k \in Nat, BuildState(b, kept, s, k), b[k + 1].kind = "else",
         Around(b, k + 1) # << >>
  PROVE  BuildState(b, kept, Else(s), k + 1)
<1> DEFINE l == Last(s.open)
           c == l.entry
           o == Append(Front(s.open), [Last(s.open) EXCEPT !.result = s.cur])
           t == Else(s)
<1>1. s = [g |-> s.g, cur |-> s.cur, open |-> s.open] /\ BuildState(b, kept, s, k) /\ k \in Nat /\ Around(b, k + 1) # << >>
  BY StateFacts
<1>2. t = [s EXCEPT !.cur = c, !.open = o]
  BY DEF Else, Innermost, Closed
<1>3. c \in {s.cur, Last(s.open).entry} /\ b[k + 1].kind \in {"else", "do"}
  OBVIOUS
<1>4. o = Append(Front(s.open), [Last(s.open) EXCEPT !.result = s.cur])
  OBVIOUS
<1> HIDE DEF c, o, t, l
<1>5. t = [g |-> s.g, cur |-> c, open |-> o]
  BY <1>1, <1>2
<1>6. BuildState(b, kept, [g |-> s.g, cur |-> c, open |-> Append(Front(s.open), [Last(s.open) EXCEPT !.result = s.cur])], k + 1)
  BY ONLY <1>1, <1>3, Halved
<1>7. BuildState(b, kept, t, k + 1)
  BY <1>4, <1>5, <1>6
<1> QED BY <1>7 DEF t

LEMMA DoIn ==
  ASSUME NEW b, NEW kept, NEW s, NEW k \in Nat, BuildState(b, kept, s, k), b[k + 1].kind = "do",
         Around(b, k + 1) # << >>
  PROVE  BuildState(b, kept, Do(s), k + 1)
<1> DEFINE c == s.cur
           o == Append(Front(s.open), [Last(s.open) EXCEPT !.result = s.cur])
           t == Do(s)
<1>1. s = [g |-> s.g, cur |-> s.cur, open |-> s.open] /\ BuildState(b, kept, s, k) /\ k \in Nat /\ Around(b, k + 1) # << >>
  BY StateFacts
<1>2. t = [s EXCEPT !.open = o]
  BY DEF Do, Innermost, Closed
<1>3. c \in {s.cur, Last(s.open).entry} /\ b[k + 1].kind \in {"else", "do"} /\ c = s.cur
  OBVIOUS
<1>4. o = Append(Front(s.open), [Last(s.open) EXCEPT !.result = s.cur])
  OBVIOUS
<1> HIDE DEF c, o, t
<1>5. t = [g |-> s.g, cur |-> c, open |-> o]
  BY <1>1, <1>2, <1>3
<1>6. BuildState(b, kept, [g |-> s.g, cur |-> c, open |-> Append(Front(s.open), [Last(s.open) EXCEPT !.result = s.cur])], k + 1)
  BY ONLY <1>1, <1>3, Halved
<1>7. BuildState(b, kept, t, k + 1)
  BY <1>4, <1>5, <1>6
<1> QED BY <1>7 DEF t

\* The innermost open operation, with its loop.
LEMMA LoopAround ==
  ASSUME NEW b, NEW kept, NEW s, NEW k \in Nat, BuildState(b, kept, s, k), Around(b, k + 1) # << >>,
         b[Last(s.open).op].kind \in {"for", "while"}
  PROVE  /\ Last(s.open).phi = Phi(Last(s.open).op)
         /\ OpenLoop(s.g, Pending(s.open), Last(s.open).phi, Last(s.open).op, Last(s.open).entry, k)
<1> DEFINE l == Last(s.open)
<1>1. Frame(s.g, b, l, k) /\ Phi(l.op) \in Pending(s.open)
  BY Inner
<1> HIDE DEF l
<1>2. b[l.op].kind # "if"
  BY DEF l
<1>3. OpenLoop(s.g, Pending(s.open), l.phi, l.op, l.entry, k) /\ l.phi = Phi(l.op)
  BY <1>1, <1>2 DEF Frame, OpenLoop
<1> QED BY <1>3 DEF l

LEMMA ForOut ==
  ASSUME NEW b, NEW kept, NEW s, NEW k \in Nat, BuildState(b, kept, s, k), b[k + 1].kind = "end",
         Around(b, k + 1) # << >>, b[Last(s.open).op].kind = "for"
  PROVE  BuildState(b, kept, LeaveFor(s), k + 1)
<1> DEFINE l == Last(s.open)
           n == l.phi
           X == Pending(s.open)
<1>1. GraphAt(b, kept, s.g, X, s.cur, k)
  BY StateFacts
<1>2. OpenLoop(s.g, X, n, l.op, l.entry, k) /\ n = Phi(l.op)
  BY LoopAround
<1>3. s.g.args[n][2] # None
  <2>1. Frame(s.g, b, l, k)
    BY Inner
  <2> QED BY <2>1 DEF Frame
<1>4. /\ BuildState(b, kept, s, k) /\ k \in Nat /\ b[k + 1].kind = "end" /\ Around(b, k + 1) # << >>
  OBVIOUS
<1>5. CASE s.cur # n
  <2> DEFINE h == Dominates(SetArgument(s.g, n, 1, s.cur), l.entry, n)
             g == s.g
             c == s.cur
             e == l.entry
             op == l.op
  <2>1. LeaveFor(s) = [g |-> h, cur |-> n, open |-> Front(s.open)]
    BY <1>5 DEF LeaveFor, Innermost, Closed
  <2>2. h = Dominates(SetArgument(g, n, 1, c), e, n)
    OBVIOUS
  <2>3. GraphAt(b, kept, g, X, c, k) /\ OpenLoop(g, X, n, op, e, k) /\ g.args[n][2] # None
    BY <1>1, <1>2, <1>3
  <2>4. n = Phi(Last(s.open).op) /\ X = Pending(s.open) /\ g = s.g
    BY <1>2
  <2> HIDE DEF h, n, g, c, e, op, X, l
  <2>5. IsClosed(b, kept, g, X, n, n, k, h)
    BY ONLY <1>4, <2>2, <2>3, ForLeft
  <2>6. IsClosed(b, kept, s.g, Pending(s.open), Phi(Last(s.open).op), n, k, h)
    BY <2>4, <2>5
  <2>7. BuildState(b, kept, [g |-> h, cur |-> n, open |-> Front(s.open)], k + 1)
    BY ONLY <1>4, <2>6, Left
  <2> QED BY <2>1, <2>7
<1>6. CASE s.cur = n
  <2> DEFINE h == EraseNode(ReplaceUses(s.g, n, l.entry), n)
             g == s.g
             c == s.cur
             e == l.entry
             op == l.op
  <2>1. LeaveFor(s) = [g |-> h, cur |-> e, open |-> Front(s.open)]
    BY <1>6 DEF LeaveFor, Innermost, Closed
  <2>2. h = EraseNode(ReplaceUses(g, n, e), n)
    OBVIOUS
  <2>3. GraphAt(b, kept, g, X, c, k) /\ OpenLoop(g, X, n, op, e, k)
    BY <1>1, <1>2
  <2>4. n = Phi(Last(s.open).op) /\ X = Pending(s.open) /\ g = s.g
    BY <1>2
  <2> HIDE DEF h, n, g, c, e, op, X, l
  <2>5. IsClosed(b, kept, g, X, n, e, k, h)
    BY ONLY <1>4, <2>2, <2>3, ForErased
  <2>6. IsClosed(b, kept, s.g, Pending(s.open), Phi(Last(s.open).op), e, k, h)
    BY <2>4, <2>5
  <2>7. BuildState(b, kept, [g |-> h, cur |-> e, open |-> Front(s.open)], k + 1)
    BY ONLY <1>4, <2>6, Left
  <2> QED BY <2>1, <2>7
<1> QED BY <1>5, <1>6

LEMMA IfOut ==
  ASSUME NEW b, NEW kept, NEW s, NEW k \in Nat, BuildState(b, kept, s, k), b[k + 1].kind = "end",
         Around(b, k + 1) # << >>, b[Last(s.open).op].kind = "if"
  PROVE  BuildState(b, kept, LeaveIf(s), k + 1)
<1> DEFINE l == Last(s.open)
           n == Phi(l.op)
           X == Pending(s.open)
           g == s.g
           c == s.cur
           e == l.entry
           op == l.op
           first == IF l.result = None THEN l.entry ELSE l.result
           h == Dominates(CreateNode(g, n, <<first, c>>), e, n)
<1>1. GraphAt(b, kept, g, X, c, k)
  BY StateFacts
<1>2. Frame(g, b, l, k) /\ b[l.op].kind = "if"
  BY Inner
<1>3. /\ BuildState(b, kept, s, k) /\ k \in Nat /\ b[k + 1].kind = "end" /\ Around(b, k + 1) # << >>
  OBVIOUS
<1>4. LeaveIf(s) = [g |-> h, cur |-> n, open |-> Front(s.open)]
  <2>1. (IF l.result = None THEN <<l.entry, s.cur>> ELSE <<l.result, s.cur>>) = <<first, c>>
    OBVIOUS
  <2> HIDE DEF first
  <2> QED BY <2>1 DEF LeaveIf, Innermost, Closed
<1>5. op \in 1 .. k /\ n = Phi(op) /\ h = Dominates(CreateNode(g, n, <<first, c>>), e, n)
  BY <1>2 DEF Frame
<1>6. n \notin DOMAIN g.args /\ e \in DOMAIN g.args /\ IsCore(e) /\ OpOf(e) < op
  BY <1>2 DEF Frame
<1>7. first \in DOMAIN g.args /\ IsCore(first)
  BY <1>2 DEF Frame
<1>8. n = Phi(Last(s.open).op) /\ X = Pending(s.open) /\ g = s.g
  OBVIOUS
<1> HIDE DEF h, n, g, c, e, op, X, l, first
<1>9. IsClosed(b, kept, g, X, n, n, k, h)
  BY ONLY <1>1, <1>3, <1>5, <1>6, <1>7, IfLeft
<1>10. IsClosed(b, kept, s.g, Pending(s.open), Phi(Last(s.open).op), n, k, h)
  BY <1>8, <1>9
<1>11. BuildState(b, kept, [g |-> h, cur |-> n, open |-> Front(s.open)], k + 1)
  BY ONLY <1>3, <1>10, Left
<1> QED BY <1>4, <1>11

LEMMA WhileOut ==
  ASSUME NEW b, NEW kept, NEW s, NEW k \in Nat, BuildState(b, kept, s, k), b[k + 1].kind = "end",
         Around(b, k + 1) # << >>, b[Last(s.open).op].kind = "while",
         Halfway(b, Last(s.open).op, k + 1)
  PROVE  BuildState(b, kept, LeaveWhile(s), k + 1)
<1> DEFINE l == Last(s.open)
           n == l.phi
           X == Pending(s.open)
           g == s.g
           c == s.cur
           e == l.entry
           op == l.op
           result == l.result
           h == SetArgument(SetArgument(g, n, 1, e), n, 2, c)
<1>1. GraphAt(b, kept, g, X, c, k)
  BY StateFacts
<1>2. OpenLoop(g, X, n, op, e, k) /\ n = Phi(op)
  BY LoopAround
<1>3. /\ BuildState(b, kept, s, k) /\ k \in Nat /\ b[k + 1].kind = "end" /\ Around(b, k + 1) # << >>
  OBVIOUS
<1>4. LeaveWhile(s) = [g |-> h, cur |-> result, open |-> Front(s.open)]
  BY DEF LeaveWhile, Innermost, Closed
<1>5. h = SetArgument(SetArgument(g, n, 1, e), n, 2, c)
  OBVIOUS
<1>6. g.dom[n] # None /\ result \in DOMAIN g.args /\ IsCore(result) /\ OpOf(result) <= k
  <2>1. Frame(g, b, l, k)
    BY Inner
  <2> QED BY <2>1 DEF Frame
<1>8. n = Phi(Last(s.open).op) /\ X = Pending(s.open) /\ g = s.g
  BY <1>2
<1> HIDE DEF h, n, g, c, e, op, X, l, result
<1>9. IsClosed(b, kept, g, X, n, result, k, h)
  BY ONLY <1>1, <1>2, <1>3, <1>5, <1>6, WhileLeft
<1>10. IsClosed(b, kept, s.g, Pending(s.open), Phi(Last(s.open).op), result, k, h)
  BY <1>8, <1>9
<1>11. BuildState(b, kept, [g |-> h, cur |-> result, open |-> Front(s.open)], k + 1)
  BY ONLY <1>3, <1>10, Left
<1> QED BY <1>4, <1>11

Structural == Openers \cup {"else", "do", "end"}

\* An operation that is no part of the structure has got its nodes.
LEMMA Accessed ==
  ASSUME NEW b, NEW kept, NEW s, NEW k \in Nat, BuildState(b, kept, s, k), b[k + 1].kind \notin Structural,
         NEW h, NEW cur, NEW N, \A n \in N : Type(n) # "Phi", Extends(s.g, h, N),
         GraphAt(b, kept, h, Pending(s.open), cur, k + 1),
         NEW t, t = [g |-> h, cur |-> cur, open |-> s.open]
  PROVE  BuildState(b, kept, t, k + 1)
<1> DEFINE g == s.g
           open == s.open
           stack == Around(b, k + 1)
<1>1. OpenAt(b, g, open, k, stack) /\ DOMAIN g.args \subseteq Nodes /\ IsStack(stack, k) /\ k \in Nat /\ Sound(g, Pending(open))
  BY StateFacts
<1>2. Plain(b, k + 1)
  BY DEF Plain, Structural
<1>3. Around(b, (k + 1) + 1) = stack
  <2>1. b[k + 1].kind \notin Openers /\ b[k + 1].kind # "end"
    BY DEF Structural
  <2> QED BY <2>1, StateFacts DEF Enter
<1>4. Extends(g, h, N) /\ \A n \in N : Type(n) # "Phi"
  OBVIOUS
<1>5. t.g = h /\ t.cur = cur /\ t.open = open /\ t = [g |-> t.g, cur |-> t.cur, open |-> t.open]
  OBVIOUS
<1>6. GraphAt(b, kept, h, Pending(open), cur, k + 1)
  OBVIOUS
<1> HIDE DEF g, open, stack
<1>7. Sound(h, Pending(open)) /\ DOMAIN g.args \subseteq DOMAIN h.args
  BY <1>4, <1>6 DEF GraphAt, Extends
<1>8. \A u \in DOMAIN g.args : DOMAIN h.args[u] = DOMAIN g.args[u]
  BY <1>1, <1>7, ShapeKept DEF SameShape
<1>9. OpenAt(b, h, open, k + 1, stack)
  BY ONLY <1>1, <1>2, <1>4, <1>8, OpenKept
<1> QED BY <1>3, <1>5, <1>6, <1>9 DEF BuildState

LEMMA GraphLater ==
  ASSUME NEW b, NEW kept, NEW g, NEW X, NEW cur, NEW k \in Nat, GraphAt(b, kept, g, X, cur, k)
  PROVE  GraphAt(b, kept, g, X, cur, k + 1) /\ \A n \in DOMAIN g.args : OpOf(n) <= k
<1>1. Sound(g, X) /\ Accesses(g, b, kept, k + 1)
  BY AccessesLater DEF GraphAt
<1>2. cur \in DOMAIN g.args /\ IsCore(cur) /\ OpOf(cur) <= k + 1
  BY CoreNodes
<1> QED BY <1>1, <1>2, CoreNodes DEF GraphAt

\* What the write of an operation leaves for its read.
HasWritten(b, kept, g, X, k, h, cur) ==
  /\ GraphAt(b, kept, h, X, cur, k + 1)
  /\ Extends(g, h, {Def(k + 1), Use(k + 1)})
  /\ Use(k + 1) \notin DOMAIN h.args
  /\ \A u \in DOMAIN g.args : DOMAIN h.args[u] = DOMAIN g.args[u]

LEMMA WriteDone ==
  ASSUME NEW b, NEW kept, NEW g, NEW X, NEW cur, NEW k \in Nat, GraphAt(b, kept, g, X, cur, k),
         k + 1 \in kept, Writes(b[k + 1]),
         NEW h, h = Dominates(CreateNode(g, Def(k + 1), <<cur>>), cur, Def(k + 1))
  PROVE  HasWritten(b, kept, g, X, k, h, Def(k + 1))
<1> DEFINE d == Def(k + 1)
           u == Use(k + 1)
           N == {d}
           M == {d, u}
<1>1. GraphAt(b, kept, h, X, d, k + 1) /\ Extends(g, h, N) /\ DOMAIN h.args = DOMAIN g.args \cup {d}
  BY WriteAdded
<1>2. \A n \in DOMAIN g.args : OpOf(n) <= k
  BY GraphLater
<1>3. u # d /\ OpOf(u) = k + 1 /\ k \in Nat
  BY DEF Def, Use, OpOf
<1>4. N \subseteq M
  OBVIOUS
<1>5. M = {Def(k + 1), Use(k + 1)} /\ d = Def(k + 1) /\ u = Use(k + 1)
  OBVIOUS
<1>6. Sound(g, X) /\ Sound(h, X)
  BY <1>1 DEF GraphAt
<1> HIDE DEF d, u, N, M
<1>7. Extends(g, h, M)
  BY ONLY <1>1, <1>4, ExtendsMore
<1>8. u \notin DOMAIN h.args
  BY <1>1, <1>2, <1>3
<1>9. \A v \in DOMAIN g.args : DOMAIN h.args[v] = DOMAIN g.args[v]
  BY <1>1, <1>6, ShapeKept DEF SameShape
<1> QED BY <1>1, <1>5, <1>7, <1>8, <1>9 DEF HasWritten

LEMMA NotWritten ==
  ASSUME NEW b, NEW kept, NEW g, NEW X, NEW cur, NEW k \in Nat, GraphAt(b, kept, g, X, cur, k)
  PROVE  HasWritten(b, kept, g, X, k, g, cur)
<1> DEFINE u == Use(k + 1)
           M == {Def(k + 1), u}
<1>1. GraphAt(b, kept, g, X, cur, k + 1) /\ \A n \in DOMAIN g.args : OpOf(n) <= k
  BY GraphLater
<1>2. OpOf(u) = k + 1 /\ k \in Nat
  BY DEF Use, OpOf
<1>3. M = {Def(k + 1), Use(k + 1)} /\ u = Use(k + 1)
  OBVIOUS
<1> HIDE DEF u, M
<1>4. Extends(g, g, M)
  BY ExtendsItself
<1>5. u \notin DOMAIN g.args
  BY <1>1, <1>2
<1> QED BY <1>1, <1>3, <1>4, <1>5 DEF HasWritten

LEMMA ReadDone ==
  ASSUME NEW b, NEW kept, NEW g, NEW X, NEW k \in Nat, NEW h, NEW cur, HasWritten(b, kept, g, X, k, h, cur),
         k + 1 \in kept, Reads(b[k + 1]),
         NEW l, l = CreateNode(h, Use(k + 1), <<cur>>)
  PROVE  GraphAt(b, kept, l, X, cur, k + 1) /\ Extends(g, l, {Def(k + 1), Use(k + 1)})
<1> DEFINE u == Use(k + 1)
           N == {u}
           M == {Def(k + 1), u}
<1>1. GraphAt(b, kept, h, X, cur, k + 1) /\ Extends(g, h, M) /\ u \notin DOMAIN h.args
      /\ \A v \in DOMAIN g.args : DOMAIN h.args[v] = DOMAIN g.args[v]
  BY DEF HasWritten
<1>2. GraphAt(b, kept, l, X, cur, k + 1) /\ Extends(h, l, N)
  BY <1>1, ReadAdded
<1>3. N \subseteq M
  OBVIOUS
<1>4. M = {Def(k + 1), Use(k + 1)}
  OBVIOUS
<1> HIDE DEF u, N, M
<1>5. Extends(h, l, M)
  BY ONLY <1>2, <1>3, ExtendsMore
<1>6. Extends(g, l, M)
  BY <1>1, <1>5, ExtendsTransitive DEF SameShape
<1> QED BY <1>2, <1>4, <1>6

LEMMA AccessIn ==
  ASSUME NEW b, NEW kept, NEW s, NEW k \in Nat, BuildState(b, kept, s, k), b[k + 1].kind \notin Structural,
         k + 1 \in kept
  PROVE  BuildState(b, kept, AddAccess(s, k + 1, b[k + 1]), k + 1)
<1> DEFINE X == Pending(s.open)
           g == s.g
           c == s.cur
           open == s.open
           w == IF ~Writes(b[k + 1]) THEN s
                ELSE [s EXCEPT !.g = Dominates(CreateNode(s.g, Def(k + 1), <<s.cur>>), s.cur, Def(k + 1)),
                               !.cur = Def(k + 1)]
           t == AddAccess(s, k + 1, b[k + 1])
           M == {Def(k + 1), Use(k + 1)}
<1>1. s = [g |-> g, cur |-> c, open |-> open] /\ GraphAt(b, kept, g, X, c, k) /\ k \in Nat /\ k + 1 \in kept
  BY StateFacts
<1>2. t = IF ~Reads(b[k + 1]) THEN w ELSE [w EXCEPT !.g = CreateNode(w.g, Use(k + 1), <<w.cur>>)]
  BY DEF AddAccess
<1>3. w = [g |-> w.g, cur |-> w.cur, open |-> open] /\ HasWritten(b, kept, g, X, k, w.g, w.cur)
  <2>1. CASE ~Writes(b[k + 1])
    <3>1. w = s
      BY <2>1
    <3>2. HasWritten(b, kept, g, X, k, g, c)
      <4> HIDE DEF g, X, c
      <4> QED BY <1>1, NotWritten
    <3> HIDE DEF w
    <3> QED BY <1>1, <3>1, <3>2
  <2>2. CASE Writes(b[k + 1])
    <3> DEFINE h == Dominates(CreateNode(g, Def(k + 1), <<c>>), c, Def(k + 1))
               d == Def(k + 1)
    <3>1. w = [s EXCEPT !.g = h, !.cur = d]
      BY <2>2
    <3>2. h = Dominates(CreateNode(g, Def(k + 1), <<c>>), c, Def(k + 1)) /\ d = Def(k + 1)
      OBVIOUS
    <3> HIDE DEF h, d, w, g, c, X, open
    <3>3. w = [g |-> h, cur |-> d, open |-> open]
      BY <1>1, <3>1
    <3>4. HasWritten(b, kept, g, X, k, h, Def(k + 1))
      BY ONLY <1>1, <2>2, <3>2, WriteDone
    <3> QED BY <3>2, <3>3, <3>4
  <2> QED BY <2>1, <2>2
<1>4. BuildState(b, kept, s, k) /\ b[k + 1].kind \notin Structural /\ g = s.g /\ X = Pending(s.open) /\ open = s.open
  OBVIOUS
<1>5. \A n \in M : Type(n) # "Phi"
  BY DEF Def, Use, Type
<1> HIDE DEF w, t
<1>6. CASE ~Reads(b[k + 1])
  <2> DEFINE h == w.g
             e == w.cur
  <2>1. t = [g |-> h, cur |-> e, open |-> s.open]
    BY <1>2, <1>3, <1>6
  <2>2. GraphAt(b, kept, h, X, e, k + 1) /\ Extends(g, h, M)
    BY <1>3 DEF HasWritten
  <2>3. GraphAt(b, kept, h, Pending(s.open), e, k + 1) /\ Extends(s.g, h, M)
    BY <1>4, <2>2
  <2> HIDE DEF h, e, M, X, g, c, open
  <2>4. BuildState(b, kept, t, k + 1)
    BY ONLY <1>1, <1>4, <1>5, <2>1, <2>3, Accessed
  <2> QED BY <2>4 DEF t
<1>7. CASE Reads(b[k + 1])
  <2> DEFINE h == CreateNode(w.g, Use(k + 1), <<w.cur>>)
             e == w.cur
             v == w.g
  <2>1. t = [w EXCEPT !.g = h]
    BY <1>2, <1>7
  <2>2. h = CreateNode(v, Use(k + 1), <<e>>) /\ HasWritten(b, kept, g, X, k, v, e) /\ w = [g |-> v, cur |-> e, open |-> open]
    BY <1>3
  <2>3. M = {Def(k + 1), Use(k + 1)}
    OBVIOUS
  <2> HIDE DEF h, e, v, M, X, g, c, open
  <2>4. t = [g |-> h, cur |-> e, open |-> s.open]
    BY <1>4, <2>1, <2>2
  <2>5. GraphAt(b, kept, h, X, e, k + 1) /\ Extends(g, h, {Def(k + 1), Use(k + 1)})
    BY ONLY <1>1, <1>7, <2>2, ReadDone
  <2>6. GraphAt(b, kept, h, Pending(s.open), e, k + 1) /\ Extends(s.g, h, M)
    BY <1>4, <2>3, <2>5
  <2>7. BuildState(b, kept, t, k + 1)
    BY ONLY <1>1, <1>4, <1>5, <2>4, <2>6, Accessed
  <2> QED BY <2>7 DEF t
<1> QED BY <1>6, <1>7

\* memSSAProcessRegion, one operation later.
LEMMA StepBuilds ==
  ASSUME NEW b, NEW kept, NEW s, NEW k \in Nat, BuildState(b, kept, s, k), Placed(b, k + 1),
         k + 1 \notin kept => b[k + 1].kind \in {"load", "store"}
  PROVE  BuildState(b, kept, ProcessIfThere(b, kept, s, k + 1), k + 1)
<1>1. CASE k + 1 \notin kept
  <2>1. b[k + 1].kind \notin Openers \cup {"else", "do", "end"}
    BY <1>1 DEF Openers
  <2> QED BY <1>1, <2>1, Skipped DEF ProcessIfThere
<1>2. CASE k + 1 \in kept
  <2> DEFINE kind == b[k + 1].kind
             opener == IF s.open = << >> THEN "none" ELSE b[Innermost(s).op].kind
             t == Process(s, k + 1, b[k + 1], opener)
  <2>1. ProcessIfThere(b, kept, s, k + 1) = t
    BY <1>2 DEF ProcessIfThere
  <2>2. CASE kind = "for"
    BY <2>1, <2>2, ForIn DEF Process
  <2>3. CASE kind = "if"
    BY <2>1, <2>3, IfIn DEF Process
  <2>4. CASE kind = "while"
    BY <2>1, <2>4, WhileIn DEF Process
  <2>5. CASE kind = "else"
    BY <2>1, <2>5, ElseIn DEF Process, Placed
  <2>6. CASE kind = "do"
    BY <2>1, <2>6, DoIn DEF Process, Placed
  <2>7. CASE kind = "end"
    <3> DEFINE op == Last(s.open).op
    <3>1. Around(b, k + 1) # << >> /\ b[Last(Around(b, k + 1))].kind \in Openers
          /\ (b[Last(Around(b, k + 1))].kind = "while" => Halfway(b, Last(Around(b, k + 1)), k + 1))
      BY <2>7 DEF Placed
    <3>2. op = Last(Around(b, k + 1)) /\ s.open # << >>
      BY <3>1, Inner
    <3>3. opener = b[op].kind
      BY <3>2 DEF Innermost
    <3>4. t = CASE opener = "for" -> LeaveFor(s) [] opener = "if" -> LeaveIf(s) [] opener = "while" -> LeaveWhile(s)
      BY <2>7 DEF Process
    <3> HIDE DEF opener, t
    <3>5. CASE b[op].kind = "for"
      BY <2>1, <2>7, <3>1, <3>3, <3>4, <3>5, ForOut
    <3>6. CASE b[op].kind = "if"
      BY <2>1, <2>7, <3>1, <3>3, <3>4, <3>6, IfOut
    <3>7. CASE b[op].kind = "while"
      <4>1. Halfway(b, op, k + 1)
        BY <3>1, <3>2, <3>7
      <4> QED BY <2>1, <2>7, <3>1, <3>3, <3>4, <3>7, <4>1, WhileOut
    <3> QED BY <3>1, <3>2, <3>5, <3>6, <3>7 DEF Openers
  <2>8. CASE kind \notin Structural
    <3>1. t = AddAccess(s, k + 1, b[k + 1])
      BY <2>8 DEF Process, Structural, Openers
    <3> QED BY <1>2, <2>1, <2>8, <3>1, AccessIn
  <2> QED BY <2>2, <2>3, <2>4, <2>5, <2>6, <2>7, <2>8 DEF Structural, Openers
<1> QED BY <1>1, <1>2

(***************************************************************************)
(* buildMemorySSA.                                                         *)
(***************************************************************************)

Beginning == [g |-> RootOnly, cur |-> Root, open |-> << >>]

\* buildMemorySSA takes one step for every operation.
LEMMA BuildFolds ==
  ASSUME NEW b, IsSeq(b), NEW kept
  PROVE  BuildMemorySSA(b, kept) = CreateNode(Stepped(<<"build", b, kept>>, Beginning, Len(b)).g, Term,
                                              <<Stepped(<<"build", b, kept>>, Beginning, Len(b)).cur>>)
<1> DEFINE n == Len(b)
           seq == [p \in DOMAIN b |-> p]
           what == <<"build", b, kept>>
           Is(u) == u = [k \in 0 .. Len(seq) |-> IF k = 0 THEN Beginning
                           ELSE CHOOSE r \in {ProcessIfThere(b, kept, t, seq[k]) : t \in {u[k - 1]}} : TRUE]
           U == CHOOSE u : Is(u)
           last == U[Len(seq)]
<1>1. BuildMemorySSA(b, kept) = CreateNode(last.g, Term, <<last.cur>>)
  BY DEF BuildMemorySSA, Fold, Beginning
<1>2. DOMAIN b = 1 .. n /\ n \in Nat
  BY LenProperties DEF IsSeq
<1> HIDE DEF n
<1>3. seq \in Seq(Nat) /\ DOMAIN seq = 1 .. n
  BY <1>2, SeqDef
<1>4. Len(seq) = n /\ \A k \in 1 .. n : seq[k] = k
  BY <1>2, <1>3, LenProperties
<1> HIDE DEF seq
<1>5. \A s, k : StepOf(what, s, k) = ProcessIfThere(b, kept, s, k)
  BY DEF StepOf
<1>6. ASSUME NEW u PROVE Is(u) <=> IsSteps(u, what, Beginning, n)
  <2>1. \A x : \A k \in 1 .. n : (CHOOSE r \in {ProcessIfThere(b, kept, t, seq[k]) : t \in {x}} : TRUE) = StepOf(what, x, k)
    <3> SUFFICES ASSUME NEW x, NEW k \in 1 .. n
                 PROVE (CHOOSE r \in {ProcessIfThere(b, kept, t, seq[k]) : t \in {x}} : TRUE) = StepOf(what, x, k)
      OBVIOUS
    <3>1. seq[k] = k
      BY <1>4
    <3>2. (CHOOSE r \in {ProcessIfThere(b, kept, t, seq[k]) : t \in {x}} : TRUE) = ProcessIfThere(b, kept, x, seq[k])
      OBVIOUS
    <3> QED BY <1>5, <3>1, <3>2
  <2>2. [k \in 0 .. Len(seq) |-> IF k = 0 THEN Beginning
                           ELSE CHOOSE r \in {ProcessIfThere(b, kept, t, seq[k]) : t \in {u[k - 1]}} : TRUE]
         = [k \in 0 .. n |-> IF k = 0 THEN Beginning ELSE StepOf(what, u[k - 1], k)]
    BY <1>2, <1>4, <2>1
  <2> QED BY <2>2 DEF IsSteps
<1>7. \E u : Is(u)
  BY <1>2, <1>6, StepsExist
<1> HIDE DEF Is
<1>8. Is(U)
  BY <1>7
<1>9. IsSteps(U, what, Beginning, n)
  BY <1>6, <1>8
<1>10. last = Stepped(what, Beginning, n)
  <2> HIDE DEF U, what
  <2> QED BY <1>2, <1>4, <1>9, SteppedIs
<1> HIDE DEF U, what
<1> QED BY <1>1, <1>10 DEF what, n

\* The graph of an empty function.
LEMMA RootSound == Sound(RootOnly, {})
<1> DEFINE D == {Root}
           g == RootOnly
<1>1. Root \in Nodes /\ Root # None
  BY NoneAssumption DEF Root, Nodes, NodeTypes
<1>2. /\ DOMAIN g.args = D /\ g.args[Root] = << >> /\ g.users[Root] = << >> /\ g.dom[Root] = None /\ g.pdom[Root] = None
      /\ g.nodes = <<Root>>
      /\ g = [nodes |-> g.nodes, args |-> g.args, users |-> g.users, dom |-> g.dom, pdom |-> g.pdom]
      /\ g.dom \in [D -> D \cup {None}] /\ g.pdom \in [D -> D \cup {None}]
      /\ g.args \in [D -> Seq(D \cup {None})] /\ g.users \in [D -> Seq(Nodes \X Nat)]
  BY DEF RootOnly
<1>3. IsInjective(<< >>) /\ Range(<< >>) = {}
  BY DEF IsInjective, Range
<1>4. Uses(g.args, Root) = {}
  BY <1>2 DEF Uses
<1> HIDE DEF g
<1>5. Listed(D, g.args, g.users)
  BY <1>1, <1>2, <1>3, <1>4 DEF Listed
<1>6. <<Root>> \in Seq(D) /\ IsInjective(<<Root>>) /\ Range(<<Root>>) = D
  BY DEF IsInjective, Range
<1>7. IsGraph(g) /\ Live(g) = D
  BY <1>2, <1>5, <1>6 DEF IsGraph, Live
<1>8. NodeFine(g, Root) /\ Settled(g, Root)
  BY <1>2, <1>7 DEF NodeFine, Settled, Arity
<1> QED BY <1>2, <1>7, <1>8 DEF Sound, g

LEMMA BuildBegins ==
  ASSUME NEW b, NEW kept
  PROVE  BuildState(b, kept, Beginning, 0)
<1> DEFINE s == Beginning
<1>1. s.g = RootOnly /\ s.cur = Root /\ s.open = << >> /\ s = [g |-> s.g, cur |-> s.cur, open |-> s.open]
  BY DEF Beginning
<1>2. DOMAIN RootOnly.args = {Root}
  BY DEF RootOnly
<1>3. IsCore(Root) /\ OpOf(Root) = 0
  BY DEF IsCore, Core, Root, Type, OpOf
<1>4. Pending(<< >>) = {}
  BY DEF Pending
<1>5. GraphAt(b, kept, RootOnly, {}, Root, 0)
  BY <1>2, <1>3, RootSound DEF GraphAt, Accesses
<1>6. Around(b, 0 + 1) = << >>
  BY AroundStart
<1>7. OpenAt(b, RootOnly, << >>, 0, << >>)
  BY DEF OpenAt, IsSeq
<1> HIDE DEF s
<1> QED BY <1>1, <1>4, <1>5, <1>6, <1>7 DEF BuildState, s

\* The bodies that are built: every operation that is gone was a load or a store.
Buildable(b, kept) ==
  /\ IsBody(b) /\ Around(b, Len(b) + 1) = << >>
  /\ \A p \in 1 .. Len(b) : p \notin kept => b[p].kind \in {"load", "store"}

LEMMA BuildGoesOn ==
  ASSUME NEW b, NEW kept, Buildable(b, kept), NEW k \in 0 .. Len(b)
  PROVE  BuildState(b, kept, Stepped(<<"build", b, kept>>, Beginning, k), k)
<1> DEFINE what == <<"build", b, kept>>
           n == Len(b)
           At(j) == BuildState(b, kept, Stepped(what, Beginning, j), j)
           T == {j \in 0 .. n : ~At(j)}
<1>1. n \in Nat
  BY LenProperties DEF Buildable, IsBody
<1>2. \A s, j : StepOf(what, s, j) = ProcessIfThere(b, kept, s, j)
  BY DEF StepOf
<1>3. \A p \in 1 .. n : Placed(b, p) /\ (p \notin kept => b[p].kind \in {"load", "store"})
  BY DEF Buildable, IsBody
<1>4. Stepped(what, Beginning, 0) = Beginning
  BY SteppedStart
<1> HIDE DEF n, what
<1>5. At(0)
  BY <1>4, BuildBegins
<1>6. ASSUME NEW j \in Nat, j + 1 \in 0 .. n, At(j) PROVE At(j + 1)
  <2> DEFINE s == Stepped(what, Beginning, j)
             t == Stepped(what, Beginning, j + 1)
  <2>1. t = ProcessIfThere(b, kept, s, j + 1)
    BY <1>2, SteppedNext
  <2>2. Placed(b, j + 1) /\ (j + 1 \notin kept => b[j + 1].kind \in {"load", "store"})
    BY <1>3, <1>6
  <2>3. BuildState(b, kept, s, j) /\ j \in Nat
    BY <1>6
  <2> HIDE DEF s, t
  <2>4. BuildState(b, kept, ProcessIfThere(b, kept, s, j + 1), j + 1)
    BY ONLY <2>2, <2>3, StepBuilds
  <2>5. BuildState(b, kept, t, j + 1)
    BY <2>1, <2>4
  <2> QED BY <2>5 DEF t
<1> HIDE DEF At
<1>7. T = {}
  <2> SUFFICES ASSUME T # {} PROVE FALSE
    OBVIOUS
  <2>1. T \in SUBSET Nat
    BY <1>1
  <2>2. PICK l \in T : \A m \in T : l <= m
    BY <2>1, LeastExists
  <2>3. l # 0 /\ l \in Nat /\ l \in 0 .. n /\ ~At(l)
    BY <1>1, <1>5, <2>2
  <2>4. l - 1 \in Nat /\ l - 1 \in 0 .. n /\ l - 1 \notin T /\ (l - 1) + 1 = l
    BY <1>1, <2>2, <2>3
  <2>5. At(l - 1)
    BY <2>4
  <2> QED BY <1>6, <2>3, <2>4, <2>5
<1>8. At(k)
  <2>1. k \in 0 .. n
    BY DEF n
  <2> QED BY <1>7, <2>1
<1> QED BY <1>8 DEF At, what

\* The graph of a function: each access has the kind of its operation, and the
\* operations of the live ones are there.
GraphOf(b, kept, g) ==
  /\ Sound(g, {})
  /\ \A n \in DOMAIN g.args :
       /\ OpOf(n) <= Len(b)
       /\ Type(n) \in {"Def", "Use"} => OpOf(n) \in 1 .. Len(b)
       /\ Type(n) = "Def" => Writes(b[OpOf(n)])
       /\ Type(n) = "Use" => Reads(b[OpOf(n)])
       /\ Type(n) \in {"Def", "Use"} /\ n \in Live(g) => OpOf(n) \in kept

LEMMA GraphBuilt ==
  ASSUME NEW b, NEW kept, Buildable(b, kept)
  PROVE  GraphOf(b, kept, BuildMemorySSA(b, kept))
<1> DEFINE n == Len(b)
           s == Stepped(<<"build", b, kept>>, Beginning, n)
           h == BuildMemorySSA(b, kept)
           g == s.g
           c == s.cur
<1>1. n \in Nat /\ IsSeq(b)
  BY LenProperties DEF Buildable, IsBody, IsSeq
<1>2. h = CreateNode(g, Term, <<c>>)
  BY <1>1, BuildFolds
<1>3. BuildState(b, kept, s, n)
  BY <1>1, BuildGoesOn
<1>4. Around(b, n + 1) = << >>
  BY DEF Buildable
<1> HIDE DEF n, s, h
<1>5. GraphAt(b, kept, g, Pending(s.open), c, n) /\ OpenAt(b, g, s.open, n, Around(b, n + 1))
  BY <1>1, <1>3, StateFacts
<1>6. Pending(s.open) = {}
  <2>1. Len(s.open) = 0
    BY <1>4, <1>5 DEF OpenAt
  <2> QED BY <2>1 DEF Pending
<1>7. Sound(g, {}) /\ Accesses(g, b, kept, n) /\ c \in DOMAIN g.args /\ IsCore(c) /\ c # None
  BY <1>1, <1>5, <1>6, CoreNodes DEF GraphAt
<1> HIDE DEF g, c
<1>8. Term \in Nodes /\ Term # Root /\ Arity(Term) = 1 /\ ~IsCore(Term) /\ Type(Term) = "Term"
  BY DEF Term, Root, Nodes, NodeTypes, Arity, IsCore, Core, Type
<1>9. Term \notin DOMAIN g.args
  BY <1>7, <1>8 DEF Accesses, Access
<1>10. CanCreate(g, Term, <<c>>)
  <2>1. <<c>> \in Seq(DOMAIN g.args \cup {None}) /\ Len(<<c>>) = 1 /\ DOMAIN <<c>> = {1} /\ <<c>>[1] = c
    BY <1>7, OneArgument
  <2>2. MayUse(Term, c)
    BY <1>7, <1>8 DEF MayUse, Before
  <2> QED BY <1>8, <1>9, <2>1, <2>2 DEF CanCreate
<1>11. IsCreated(g, {}, Term, <<c>>, h)
  BY <1>2, <1>7, <1>10, NodeCreated
<1>12. Sound(h, {Term}) /\ DOMAIN h.args = DOMAIN g.args \cup {Term} /\ h.args[Term] = <<c>>
  BY <1>11 DEF IsCreated
<1>13. Settled(h, Term)
  <2>1. DOMAIN <<c>> = {1} /\ <<c>>[1] = c
    OBVIOUS
  <2> QED BY <1>7, <1>8, <1>12, <2>1 DEF Settled
<1>14. Sound(h, {})
  <2>1. Sound(h, {Term} \ {Term})
    BY <1>12, <1>13, Closes
  <2>2. {Term} \ {Term} = {}
    OBVIOUS
  <2> QED BY <2>1, <2>2
<1>15. ASSUME NEW m \in DOMAIN h.args, Type(m) \in {"Def", "Use"}
       PROVE  /\ OpOf(m) \in 1 .. n /\ OpOf(m) \in kept
              /\ (Type(m) = "Def" => Writes(b[OpOf(m)])) /\ (Type(m) = "Use" => Reads(b[OpOf(m)]))
  <2>1. m \in DOMAIN g.args /\ m # Root
    BY <1>8, <1>12, <1>15 DEF Root, Type
  <2> QED BY <1>7, <1>15, <2>1 DEF Accesses, Access
<1>16. ASSUME NEW m \in DOMAIN h.args PROVE OpOf(m) <= n
  <2>1. OpOf(Term) = 0 /\ OpOf(Root) = 0
    BY DEF Term, Root, OpOf
  <2> QED BY <1>1, <1>7, <1>12, <2>1 DEF Accesses, Access
<1> QED BY <1>14, <1>15, <1>16 DEF GraphOf, n, h

(***************************************************************************)
(* The walk of getDef.                                                     *)
(***************************************************************************)

\* getDominator goes to a node before n.
LEMMA DominatorBefore ==
  ASSUME NEW g, Sound(g, {}), NEW n \in DOMAIN g.args
  PROVE  \/ Dominator(g, n) = None
         \/ Dominator(g, n) \in DOMAIN g.args /\ Before(Dominator(g, n), n)
<1>1. NodeFine(g, n) /\ Settled(g, n)
  BY DEF Sound
<1>2. g.dom \in [DOMAIN g.args -> DOMAIN g.args \cup {None}]
  BY DEF Sound, IsGraph
<1>3. CASE g.dom[n] # None
  BY <1>1, <1>2, <1>3 DEF Dominator, NodeFine
<1>4. CASE g.dom[n] = None /\ n = Root
  BY <1>4 DEF Dominator
<1>5. CASE g.dom[n] = None /\ n # Root
  <2> DEFINE a == g.args[n][1]
  <2>1. Dominator(g, n) = a
    BY <1>5 DEF Dominator
  <2>2. 1 \in DOMAIN g.args[n]
    BY <1>1, <1>5 DEF NodeFine, Arity
  <2>3. MayUse(n, a)
    BY <1>1, <2>2 DEF NodeFine
  <2>4. a = None \/ a \in DOMAIN g.args
    BY <2>2, GraphTypes DEF Sound
  <2>5. Type(n) = "Phi" => a = None
    BY <1>1, <1>5, <2>2 DEF NodeFine, Settled
  <2> QED BY <2>1, <2>3, <2>4, <2>5 DEF MayUse
<1> QED BY <1>3, <1>4, <1>5

\* How far from the root a node is at most, when no operation is behind position m.
Rank(n, m) == IF IsCore(n) THEN OpOf(n) ELSE m + 1

IsWalk(w, g, Stop, D) == w = [n \in D |-> IF n \in Stop THEN n ELSE w[Dominator(g, n)]]

\* Every walk that goes on where it may ends.
LEMMA WalkExists ==
  ASSUME NEW g, Sound(g, {}), NEW m \in Nat, \A n \in DOMAIN g.args : OpOf(n) <= m,
         NEW Stop, \A n \in DOMAIN g.args : Dominator(g, n) = None => n \in Stop
  PROVE  \E w : IsWalk(w, g, Stop, DOMAIN g.args)
<1> DEFINE D == DOMAIN g.args
           Up(k) == {n \in D : Rank(n, m) < k}
           Has(k) == \E w : IsWalk(w, g, Stop, Up(k))
           T == {k \in Nat : ~Has(k)}
<1>1. \A n \in D : Rank(n, m) \in Nat /\ Rank(n, m) < m + 2
  <2>1. \A n \in D : OpOf(n) \in Nat
    <3>1. D \subseteq Nodes
      BY GraphTypes DEF Sound
    <3> QED BY <3>1 DEF Nodes, OpOf
  <2> QED BY <2>1 DEF Rank
<1>2. \A n \in D \ Stop : Dominator(g, n) \in D /\ Rank(Dominator(g, n), m) < Rank(n, m)
  <2> SUFFICES ASSUME NEW n \in D \ Stop
               PROVE  Dominator(g, n) \in D /\ Rank(Dominator(g, n), m) < Rank(n, m)
    OBVIOUS
  <2> DEFINE d == Dominator(g, n)
  <2>1. d \in D /\ Before(d, n)
    BY DominatorBefore
  <2> HIDE DEF d
  <2>2. OpOf(d) \in Nat /\ OpOf(d) <= m
    <3>1. D \subseteq Nodes
      BY GraphTypes DEF Sound
    <3> QED BY <2>1, <3>1 DEF Nodes, OpOf
  <2>3. d \in D /\ Rank(d, m) < Rank(n, m)
    BY <2>1, <2>2 DEF Before, Rank
  <2> QED BY <2>3 DEF d
<1> HIDE DEF D
<1>3. Has(0)
  <2>1. Up(0) = {}
    BY <1>1
  <2> DEFINE w == [n \in {} |-> n]
  <2>2. IsWalk(w, g, Stop, {})
    BY DEF IsWalk
  <2> QED BY <2>1, <2>2
<1>4. ASSUME NEW k \in Nat, Has(k) PROVE Has(k + 1)
  <2>1. PICK w : IsWalk(w, g, Stop, Up(k))
    BY <1>4
  <2> DEFINE U == Up(k)
             V == Up(k + 1)
             v == [n \in V |-> IF n \in Stop THEN n ELSE w[Dominator(g, n)]]
  <2>2. U \subseteq V /\ \A n \in V \ Stop : Dominator(g, n) \in U
    <3>1. U \subseteq V
      BY <1>1
    <3>2. ASSUME NEW n \in V \ Stop PROVE Dominator(g, n) \in U
      <4> DEFINE d == Dominator(g, n)
      <4>1. n \in D /\ n \notin Stop /\ Rank(n, m) < k + 1
        OBVIOUS
      <4>2. d \in D /\ Rank(d, m) < Rank(n, m) /\ Rank(n, m) \in Nat /\ Rank(d, m) \in Nat
        BY <1>1, <1>2, <4>1
      <4> HIDE DEF d
      <4>3. Rank(d, m) < k
        BY <4>1, <4>2
      <4>4. d \in U
        BY <4>2, <4>3
      <4> QED BY <4>4 DEF d
    <3> QED BY <3>1, <3>2
  <2>3. w = [n \in U |-> IF n \in Stop THEN n ELSE w[Dominator(g, n)]]
    BY <2>1 DEF IsWalk
  <2> HIDE DEF U, V
  <2>4. \A n \in U : v[n] = w[n]
    BY <2>2, <2>3
  <2>5. v = [n \in V |-> IF n \in Stop THEN n ELSE v[Dominator(g, n)]]
    <3>1. \A n \in V : (IF n \in Stop THEN n ELSE w[Dominator(g, n)]) = (IF n \in Stop THEN n ELSE v[Dominator(g, n)])
      BY <2>2, <2>4
    <3> QED BY <3>1
  <2> HIDE DEF v
  <2>6. IsWalk(v, g, Stop, V)
    BY <2>5 DEF IsWalk
  <2> QED BY <2>6 DEF V
<1> HIDE DEF Has
<1>5. T = {}
  <2> SUFFICES ASSUME T # {} PROVE FALSE
    OBVIOUS
  <2>1. T \in SUBSET Nat
    OBVIOUS
  <2>2. PICK l \in T : \A j \in T : l <= j
    BY <2>1, LeastExists
  <2>3. l \in Nat /\ ~Has(l) /\ l # 0
    BY <1>3, <2>2
  <2>4. l - 1 \in Nat /\ l - 1 \notin T /\ (l - 1) + 1 = l
    BY <2>2, <2>3
  <2>5. Has(l - 1)
    BY <2>4
  <2> QED BY <1>4, <2>3, <2>4, <2>5
<1>6. Has(m + 2)
  BY <1>5
<1>7. Up(m + 2) = D
  BY <1>1
<1> QED BY <1>6, <1>7 DEF Has, D

\* A walk ends at a node that can be an argument.
LEMMA WalkEnds ==
  ASSUME NEW g, Sound(g, {}),
         NEW Stop, \A n \in DOMAIN g.args : Dominator(g, n) = None => n \in Stop,
         NEW w, IsWalk(w, g, Stop, DOMAIN g.args), NEW start \in DOMAIN g.args, IsCore(start)
  PROVE  w[start] \in DOMAIN g.args /\ IsCore(w[start]) /\ w[start] \in Stop
<1> DEFINE D == DOMAIN g.args
           Ends(n) == w[n] \in D /\ IsCore(w[n]) /\ w[n] \in Stop
           T == {OpOf(n) : n \in {x \in D : IsCore(x) /\ ~Ends(x)}}
<1>1. \A n \in D : OpOf(n) \in Nat
  <2>1. D \subseteq Nodes
    BY GraphTypes DEF Sound
  <2> QED BY <2>1 DEF Nodes, OpOf
<1>2. \A n \in D \ Stop : Dominator(g, n) \in D /\ Before(Dominator(g, n), n)
  BY DominatorBefore
<1>3. \A n \in D : w[n] = IF n \in Stop THEN n ELSE w[Dominator(g, n)]
  BY DEF IsWalk
<1> HIDE DEF D
<1>4. ASSUME NEW n \in D, IsCore(n), ~Ends(n)
      PROVE  \E d \in D : IsCore(d) /\ ~Ends(d) /\ OpOf(d) < OpOf(n)
  <2>1. n \notin Stop
    BY <1>3, <1>4
  <2>2. w[n] = w[Dominator(g, n)]
    BY <1>3, <2>1
  <2>3. Dominator(g, n) \in D /\ Before(Dominator(g, n), n)
    BY <1>2, <2>1
  <2> QED BY <1>4, <2>2, <2>3 DEF Before
<1>5. Ends(start)
  <2> SUFFICES ASSUME ~Ends(start) PROVE FALSE
    OBVIOUS
  <2>1. T \in SUBSET Nat
    BY <1>1
  <2>2. T # {}
    BY DEF D
  <2>3. PICK l \in T : \A j \in T : l <= j
    BY <2>1, <2>2, LeastExists
  <2>4. PICK n \in D : IsCore(n) /\ ~Ends(n) /\ l = OpOf(n)
    BY <2>3
  <2>5. PICK d \in D : IsCore(d) /\ ~Ends(d) /\ OpOf(d) < OpOf(n)
    BY <1>4, <2>4
  <2>6. OpOf(d) \in T
    BY <2>5
  <2>7. l <= OpOf(d)
    BY <2>3, <2>6
  <2> QED BY <1>1, <2>4, <2>5, <2>7
<1> QED BY <1>5 DEF D

\* Where getDef ends.
Stops(g, b, op) == {n \in DOMAIN g.args : Dominator(g, n) = None \/ Clobbers(g, b, n, op)}

LEMMA GetDefWalks ==
  ASSUME NEW g, Sound(g, {}), NEW m \in Nat, \A n \in DOMAIN g.args : OpOf(n) <= m, NEW b, NEW op
  PROVE  \E w : IsWalk(w, g, Stops(g, b, op), DOMAIN g.args) /\ \A start : GetDef(g, b, start, op) = w[start]
<1> DEFINE D == DOMAIN g.args
           S == Stops(g, b, op)
           Is(w) == w = [n \in D |-> IF Dominator(g, n) = None \/ Clobbers(g, b, n, op) THEN n
                                     ELSE w[Dominator(g, n)]]
           W == CHOOSE w : Is(w)
<1>1. \A start : GetDef(g, b, start, op) = W[start]
  BY DEF GetDef
<1>2. ASSUME NEW w PROVE Is(w) <=> IsWalk(w, g, S, D)
  <2>1. [n \in D |-> IF Dominator(g, n) = None \/ Clobbers(g, b, n, op) THEN n ELSE w[Dominator(g, n)]]
          = [n \in D |-> IF n \in S THEN n ELSE w[Dominator(g, n)]]
    BY DEF Stops
  <2> QED BY <2>1 DEF IsWalk
<1>3. \A n \in D : Dominator(g, n) = None => n \in S
  BY DEF Stops
<1> HIDE DEF S, Is
<1>4. \E w : IsWalk(w, g, S, D)
  BY <1>3, WalkExists
<1>5. Is(W)
  BY <1>2, <1>4
<1>6. IsWalk(W, g, S, D)
  BY <1>2, <1>5
<1> HIDE DEF W
<1> QED BY <1>1, <1>6 DEF S

\* getDef finds a node, and goes nowhere from it.
LEMMA DefFound ==
  ASSUME NEW g, Sound(g, {}), NEW m \in Nat, \A n \in DOMAIN g.args : OpOf(n) <= m,
         NEW b, NEW start \in DOMAIN g.args, IsCore(start), NEW op
  PROVE  /\ GetDef(g, b, start, op) \in DOMAIN g.args /\ IsCore(GetDef(g, b, start, op))
         /\ GetDef(g, b, start, op) \in Stops(g, b, op)
<1> DEFINE S == Stops(g, b, op)
<1>1. PICK w : IsWalk(w, g, S, DOMAIN g.args) /\ \A n : GetDef(g, b, n, op) = w[n]
  BY GetDefWalks
<1>2. \A n \in DOMAIN g.args : Dominator(g, n) = None => n \in S
  BY DEF Stops
<1> HIDE DEF S
<1>3. w[start] \in DOMAIN g.args /\ IsCore(w[start]) /\ w[start] \in S
  BY <1>1, <1>2, WalkEnds
<1> QED BY <1>1, <1>3 DEF S

(***************************************************************************)
(* The rewriting functions.                                                *)
(***************************************************************************)

\* optimizeUses at a live use.
LEMMA UseMoved ==
  ASSUME NEW b, NEW kept, NEW g, GraphOf(b, kept, g), Len(b) \in Nat, NEW n, n \in Live(g), Type(n) = "Use", NEW op, NEW to,
         to = GetDef(g, b, Dominator(g, n), op)
  PROVE  GraphOf(b, kept, SetArgument(g, n, 1, to))
<1> DEFINE d == Dominator(g, n)
           h == SetArgument(g, n, 1, to)
           m == Len(b)
<1>1. Sound(g, {}) /\ (\A x \in DOMAIN g.args : OpOf(x) <= m) /\ m \in Nat
  BY DEF GraphOf
<1>2. n \in DOMAIN g.args /\ None \notin DOMAIN g.args
  BY <1>1, GraphTypes DEF Sound
<1>3. NodeFine(g, n) /\ Settled(g, n) /\ n # Root /\ Arity(n) = 1 /\ ~IsCore(n)
  BY <1>1, <1>2 DEF Sound, Root, Type, Arity, IsCore, Core
<1>4. d # None
  BY <1>3 DEF Dominator, Settled, NodeFine
<1>5. d \in DOMAIN g.args /\ IsCore(d)
  BY <1>1, <1>2, <1>4, DominatorBefore DEF Before
<1>6. to \in DOMAIN g.args /\ IsCore(to)
  <2> HIDE DEF d, m
  <2>1. to = GetDef(g, b, d, op)
    BY DEF d
  <2> QED BY <1>1, <1>5, <2>1, DefFound
<1>7. MayUse(n, to) /\ 1 \in DOMAIN g.args[n] /\ to # None
  BY <1>2, <1>3, <1>6 DEF MayUse, Before, NodeFine
<1>8. CanSet(g, {}, n, 1, to)
  BY <1>1, <1>2, <1>6, <1>7 DEF CanSet
<1>9. IsSet(g, {}, n, 1, to, h)
  BY <1>8, OneSet
<1> HIDE DEF h
<1>10. Sound(h, {}) /\ DOMAIN h.args = DOMAIN g.args /\ Live(h) = Live(g)
  BY <1>9 DEF IsSet, SameNodes, Live
<1> QED BY <1>10 DEF GraphOf, h

\* A body whose operands are rewritten.
LEMMA SubstitutedSame ==
  ASSUME NEW b, IsSeq(b), NEW p, NEW value
  PROVE  SameKinds(b, Substituted(b, p, value))
<1> DEFINE c == Substituted(b, p, value)
           n == Len(b)
           At(i) == IF b[i].idx = <<"load", p>> THEN [b[i] EXCEPT !.idx = value] ELSE b[i]
<1>1. DOMAIN b = 1 .. n /\ n \in Nat
  BY LenProperties DEF IsSeq
<1> HIDE DEF n
<1>2. c = [i \in 1 .. n |-> At(i)]
  BY <1>1 DEF Substituted
<1>3. \A i \in 1 .. n : At(i).kind = b[i].kind
  OBVIOUS
<1> HIDE DEF At, c
<1>4. DOMAIN c = 1 .. n /\ \A i \in 1 .. n : c[i] = At(i)
  BY <1>2
<1>5. \A i \in 1 .. n : c[i] \in Range(c)
  BY <1>4 DEF Range
<1>6. c = [i \in 1 .. n |-> c[i]]
  BY <1>2, <1>4
<1>7. c \in [1 .. n -> Range(c)]
  BY <1>5, <1>6
<1>8. c \in Seq(Range(c))
  BY <1>1, <1>7, SeqDef
<1>9. Len(c) = n
  BY <1>1, <1>4, <1>8, LenProperties
<1> QED BY <1>3, <1>4, <1>8, <1>9 DEF SameKinds, IsSeq, c, n

LEMMA SubstitutedBuildable ==
  ASSUME NEW b, NEW kept, Buildable(b, kept), NEW c, SameKinds(b, c), NEW p, b[p].kind \in {"load", "store"}
  PROVE  Buildable(c, kept \ {p})
<1>1. IsBody(c) /\ Around(c, Len(c) + 1) = << >>
  BY BodySame DEF Buildable
<1>2. \A q \in 1 .. Len(c) : q \notin kept \ {p} => c[q].kind \in {"load", "store"}
  BY DEF Buildable, SameKinds
<1> QED BY <1>1, <1>2 DEF Buildable

\* The node of a load or of a store is erased with its operation.
LEMMA AccessErased ==
  ASSUME NEW b, NEW kept, NEW g, GraphOf(b, kept, g), Buildable(b, kept), NEW c, SameKinds(b, c),
         NEW n \in DOMAIN g.args, Type(n) \in {"Def", "Use"}, Type(n) = "Def" => n \in Live(g),
         b[OpOf(n)].kind \in {"load", "store"}
  PROVE  /\ GraphOf(c, kept \ {OpOf(n)}, EraseNode(g, n))
         /\ Buildable(c, kept \ {OpOf(n)})
         /\ DOMAIN EraseNode(g, n).args = DOMAIN g.args
<1> DEFINE h == EraseNode(g, n)
           p == OpOf(n)
           k2 == kept \ {p}
<1>1. Sound(g, {}) /\ DOMAIN g.args \subseteq Nodes
  BY GraphTypes DEF GraphOf, Sound
<1>2. n # Root
  BY DEF Root, Type
<1>3. Type(n) = "Def" => g.args[n][1] # None
  <2>1. NodeFine(g, n) /\ Settled(g, n)
    BY <1>1 DEF Sound
  <2>2. Type(n) = "Def" => Arity(n) = 1
    BY <1>2 DEF Arity
  <2> QED BY <1>2, <2>1, <2>2 DEF NodeFine, Settled
<1>4. Sound(h, {}) /\ DOMAIN h.args = DOMAIN g.args /\ Live(h) = Live(g) \ {n}
  <2>1. Sound(h, {} \ {n}) /\ DOMAIN h.args = DOMAIN g.args /\ Live(h) = Live(g) \ {n}
    BY <1>1, <1>2, <1>3, NodeErased
  <2>2. {} \ {n} = {}
    OBVIOUS
  <2> QED BY <2>1, <2>2
<1>5. Buildable(c, k2)
  BY SubstitutedBuildable
<1> HIDE DEF h
<1>6. ASSUME NEW m \in DOMAIN h.args
      PROVE  /\ OpOf(m) <= Len(c)
             /\ Type(m) \in {"Def", "Use"} => OpOf(m) \in 1 .. Len(c)
             /\ Type(m) = "Def" => Writes(c[OpOf(m)])
             /\ Type(m) = "Use" => Reads(c[OpOf(m)])
  BY <1>4 DEF GraphOf, SameKinds, Writes, Reads
<1>7. ASSUME NEW m \in DOMAIN h.args, Type(m) \in {"Def", "Use"}, m \in Live(h)
      PROVE  OpOf(m) \in k2
  <2>1. m \in DOMAIN g.args /\ m \in Live(g) /\ m # n
    BY <1>4, <1>7
  <2>2. OpOf(m) \in kept
    BY <1>7, <2>1 DEF GraphOf
  <2>3. OpOf(m) # p
    <3> SUFFICES ASSUME OpOf(m) = p PROVE FALSE
      OBVIOUS
    <3>1. Type(m) # Type(n)
      <4>1. m = <<Type(m), OpOf(m)>> /\ n = <<Type(n), OpOf(n)>>
        BY <1>1, <2>1 DEF Nodes, Type, OpOf
      <4> QED BY <2>1, <4>1
    <3>2. Writes(b[p]) /\ Reads(b[p])
      BY <1>7, <2>1, <3>1 DEF GraphOf
    <3>3. b[p].kind \in {"load", "store"}
      OBVIOUS
    <3> QED BY <3>2, <3>3 DEF Writes, Reads
  <2> QED BY <2>2, <2>3
<1>8. GraphOf(c, k2, h)
  BY <1>4, <1>6, <1>7 DEF GraphOf
<1> QED BY <1>4, <1>5, <1>8 DEF h

(***************************************************************************)
(* loadCSE at one node.                                                    *)
(***************************************************************************)

\* The loads that have a node.
Loads(b, D) == {p \in 1 .. Len(b) : Use(p) \in D /\ b[p].kind = "load"}

CseState(b, D, K, s) ==
  /\ s = [body |-> s.body, repl |-> s.repl, there |-> s.there, graph |-> s.graph, map |-> s.map]
  /\ SameKinds(b, s.body)
  /\ DOMAIN s.repl = 1 .. Len(b) /\ s.there \subseteq 1 .. Len(b) /\ s.there \subseteq K
  /\ Buildable(s.body, s.there) /\ GraphOf(s.body, s.there, s.graph)
  /\ DOMAIN s.graph.args = D
  /\ \A p \in DOMAIN s.map : p \in Loads(b, D) /\ s.map[p] \in Loads(b, D)

\* One load takes the place of another.
LEMMA Replaced ==
  ASSUME NEW b, NEW D, NEW K, NEW s, CseState(b, D, K, s), NEW old \in Loads(b, D), NEW new \in Loads(b, D),
         NEW map, \A p \in DOMAIN map : p \in Loads(b, D) /\ map[p] \in Loads(b, D),
         NEW t, t = [body  |-> Substituted(s.body, old, <<"load", new>>),
                     repl  |-> Redirected(s.repl, old, <<"load", new>>),
                     there |-> s.there \ {old},
                     graph |-> EraseNode(s.graph, Use(old)),
                     map   |-> map]
  PROVE  CseState(b, D, K, t)
<1> DEFINE c == Substituted(s.body, old, <<"load", new>>)
           h == EraseNode(s.graph, Use(old))
           n == Use(old)
           g == s.graph
           kept == s.there
           e == s.body
<1>1. /\ t.body = c /\ t.repl = Redirected(s.repl, old, <<"load", new>>) /\ t.there = kept \ {old}
      /\ t.graph = h /\ t.map = map
      /\ t = [body |-> t.body, repl |-> t.repl, there |-> t.there, graph |-> t.graph, map |-> t.map]
  OBVIOUS
<1>2. DOMAIN t.repl = DOMAIN s.repl
  BY <1>1 DEF Redirected
<1>3. SameKinds(b, e) /\ IsSeq(e)
  BY DEF CseState, SameKinds, IsSeq
<1>4. SameKinds(e, c)
  BY <1>3, SubstitutedSame
<1>5. SameKinds(b, c)
  <2> HIDE DEF c, e
  <2> QED BY <1>3, <1>4 DEF SameKinds
<1>6. Buildable(e, kept) /\ GraphOf(e, kept, g) /\ DOMAIN g.args = D
  BY DEF CseState
<1>7. n \in D /\ Type(n) = "Use" /\ OpOf(n) = old
  BY DEF Loads, Use, Type, OpOf
<1>8. e[old].kind = "load"
  BY <1>3 DEF Loads, SameKinds
<1> HIDE DEF c, n, g, kept, e
<1>9. GraphOf(c, kept \ {old}, EraseNode(g, n)) /\ Buildable(c, kept \ {old}) /\ DOMAIN EraseNode(g, n).args = D
  BY <1>4, <1>6, <1>7, <1>8, AccessErased
<1>10. h = EraseNode(g, n)
  BY DEF g, n
<1> HIDE DEF h
<1> QED BY <1>1, <1>2, <1>5, <1>9, <1>10 DEF CseState, kept

LEMMA Visited ==
  ASSUME NEW b, NEW D, NEW K, D \subseteq Nodes, NEW s, CseState(b, D, K, s), NEW u \in D
  PROVE  CseState(b, D, K, Visit(s, u))
<1>1. CASE Type(u) # "Use" \/ s.body[OpOf(u)].kind # "load"
  BY <1>1 DEF Visit
<1>2. CASE Type(u) = "Use" /\ s.body[OpOf(u)].kind = "load"
  <2> DEFINE p == OpOf(u)
             same == {k \in DOMAIN s.map : MustAlias(s.body[p], s.body[k])}
             first == s.map[CHOOSE k \in same : TRUE]
  <2>1. p \in Loads(b, D)
    <3>1. u = Use(p)
      BY <1>2 DEF Nodes, Type, OpOf, Use
    <3>2. p \in 1 .. Len(s.body)
      BY <1>2 DEF CseState, GraphOf
    <3>3. p \in 1 .. Len(b) /\ b[p].kind = "load"
      BY <1>2, <3>2 DEF CseState, SameKinds
    <3> QED BY <3>1, <3>3 DEF Loads
  <2>2. CASE same = {}
    <3> DEFINE m == With(s.map, p, p)
               t == [s EXCEPT !.map = m]
    <3>1. Visit(s, u) = t
      BY <1>2, <2>2 DEF Visit
    <3>2. s = [body |-> s.body, repl |-> s.repl, there |-> s.there, graph |-> s.graph, map |-> s.map]
      BY DEF CseState
    <3>3. \A q \in DOMAIN m : q \in Loads(b, D) /\ m[q] \in Loads(b, D)
      BY <2>1 DEF CseState, With
    <3>4. t = [s EXCEPT !.map = m]
      OBVIOUS
    <3> HIDE DEF m, t
    <3>5. t.body = s.body /\ t.repl = s.repl /\ t.there = s.there /\ t.graph = s.graph /\ t.map = m
          /\ t = [body |-> t.body, repl |-> t.repl, there |-> t.there, graph |-> t.graph, map |-> t.map]
      BY <3>2, <3>4
    <3>6. CseState(b, D, K, t)
      BY <3>3, <3>5 DEF CseState
    <3> QED BY <3>1, <3>6
  <2>3. CASE same # {}
    <3>1. Visit(s, u) = Merged(s, p, first)
      BY <1>2, <2>3 DEF Visit
    <3>2. first \in Loads(b, D)
      BY <2>3 DEF CseState
    <3> HIDE DEF p, same, first
    <3>3. CASE ProperlyDominates(s.body, p, first)
      <4> DEFINE m == [k \in DOMAIN s.map |-> IF s.map[k] = first THEN p ELSE s.map[k]]
                 t == Merged(s, p, first)
      <4>1. t = [body  |-> Substituted(s.body, first, <<"load", p>>),
                 repl  |-> Redirected(s.repl, first, <<"load", p>>),
                 there |-> s.there \ {first},
                 graph |-> EraseNode(s.graph, Use(first)),
                 map   |-> m]
        BY <3>3 DEF Merged
      <4>2. \A k \in DOMAIN m : k \in Loads(b, D) /\ m[k] \in Loads(b, D)
        BY <2>1 DEF CseState
      <4> HIDE DEF m, t
      <4>3. CseState(b, D, K, t)
        BY <2>1, <3>2, <4>1, <4>2, Replaced
      <4> QED BY <3>1, <4>3 DEF t
    <3>4. CASE ~ProperlyDominates(s.body, p, first) /\ ProperlyDominates(s.body, first, p)
      <4> DEFINE m == s.map
                 t == Merged(s, p, first)
      <4>1. t = [body  |-> Substituted(s.body, p, <<"load", first>>),
                 repl  |-> Redirected(s.repl, p, <<"load", first>>),
                 there |-> s.there \ {p},
                 graph |-> EraseNode(s.graph, Use(p)),
                 map   |-> m]
        BY <3>4 DEF Merged
      <4>2. \A k \in DOMAIN m : k \in Loads(b, D) /\ m[k] \in Loads(b, D)
        BY DEF CseState
      <4> HIDE DEF m, t
      <4>3. CseState(b, D, K, t)
        BY <2>1, <3>2, <4>1, <4>2, Replaced
      <4> QED BY <3>1, <4>3 DEF t
    <3>5. CASE ~ProperlyDominates(s.body, p, first) /\ ~ProperlyDominates(s.body, first, p)
      BY <3>1, <3>5 DEF Merged
    <3> QED BY <3>3, <3>4, <3>5
  <2> QED BY <2>2, <2>3
<1> QED BY <1>1, <1>2

LEMMA VisitsFold ==
  ASSUME NEW us, IsSeq(us), NEW base
  PROVE  Fold(Visit, base, us) = Stepped(<<"cse", us>>, base, Len(us))
<1> DEFINE n == Len(us)
           what == <<"cse", us>>
           Is(u) == u = [k \in 0 .. n |-> IF k = 0 THEN base
                           ELSE CHOOSE r \in {Visit(t, us[k]) : t \in {u[k - 1]}} : TRUE]
           U == CHOOSE u : Is(u)
<1>1. Fold(Visit, base, us) = U[n]
  BY DEF Fold
<1>2. n \in Nat
  BY LenProperties DEF IsSeq
<1> HIDE DEF n
<1>3. \A s, k : StepOf(what, s, k) = Visit(s, us[k])
  BY DEF StepOf
<1>4. ASSUME NEW u PROVE Is(u) <=> IsSteps(u, what, base, n)
  <2>1. \A x : \A k \in 1 .. n : (CHOOSE r \in {Visit(t, us[k]) : t \in {x}} : TRUE) = StepOf(what, x, k)
    <3> SUFFICES ASSUME NEW x, NEW k \in 1 .. n
                 PROVE (CHOOSE r \in {Visit(t, us[k]) : t \in {x}} : TRUE) = StepOf(what, x, k)
      OBVIOUS
    <3>1. (CHOOSE r \in {Visit(t, us[k]) : t \in {x}} : TRUE) = Visit(x, us[k])
      OBVIOUS
    <3> QED BY <1>3, <3>1
  <2>2. [k \in 0 .. n |-> IF k = 0 THEN base ELSE CHOOSE r \in {Visit(t, us[k]) : t \in {u[k - 1]}} : TRUE]
         = [k \in 0 .. n |-> IF k = 0 THEN base ELSE StepOf(what, u[k - 1], k)]
    BY <1>2, <2>1
  <2> QED BY <2>2 DEF IsSteps
<1>5. \E u : Is(u)
  BY <1>2, <1>4, StepsExist
<1> HIDE DEF Is
<1>6. Is(U)
  BY <1>5
<1>7. IsSteps(U, what, base, n)
  BY <1>4, <1>6
<1> HIDE DEF U, what
<1> QED BY <1>1, <1>2, <1>7, SteppedIs DEF what, n

LEMMA VisitsDone ==
  ASSUME NEW b, NEW D, NEW K, D \subseteq Nodes, NEW base, CseState(b, D, K, base), NEW us \in Seq(D)
  PROVE  CseState(b, D, K, Fold(Visit, base, us))
<1> DEFINE what == <<"cse", us>>
           n == Len(us)
           At(j) == CseState(b, D, K, Stepped(what, base, j))
           T == {j \in 0 .. n : ~At(j)}
<1>1. n \in Nat /\ IsSeq(us) /\ \A k \in 1 .. n : us[k] \in D
  BY AnySeq, ElementOfSeq
<1>2. \A s, j : StepOf(what, s, j) = Visit(s, us[j])
  BY DEF StepOf
<1>3. Stepped(what, base, 0) = base
  BY SteppedStart
<1>4. Fold(Visit, base, us) = Stepped(what, base, n)
  BY <1>1, VisitsFold
<1> HIDE DEF n, what
<1>5. At(0)
  BY <1>3
<1>6. ASSUME NEW j \in Nat, j + 1 \in 0 .. n, At(j) PROVE At(j + 1)
  <2> DEFINE s == Stepped(what, base, j)
             t == Stepped(what, base, j + 1)
             u == us[j + 1]
  <2>1. t = Visit(s, u)
    BY <1>2, SteppedNext
  <2>2. u \in D
    BY <1>1, <1>6
  <2>3. CseState(b, D, K, s)
    BY <1>6
  <2> HIDE DEF s, t, u
  <2>4. CseState(b, D, K, t)
    BY <2>1, <2>2, <2>3, Visited
  <2> QED BY <2>4 DEF t
<1> HIDE DEF At
<1>7. T = {}
  <2> SUFFICES ASSUME T # {} PROVE FALSE
    OBVIOUS
  <2>1. T \in SUBSET Nat
    BY <1>1
  <2>2. PICK l \in T : \A m \in T : l <= m
    BY <2>1, LeastExists
  <2>3. l # 0 /\ l \in Nat /\ l \in 0 .. n /\ ~At(l)
    BY <1>1, <1>5, <2>2
  <2>4. l - 1 \in Nat /\ l - 1 \in 0 .. n /\ l - 1 \notin T /\ (l - 1) + 1 = l
    BY <1>1, <2>2, <2>3
  <2>5. At(l - 1)
    BY <2>4
  <2> QED BY <1>6, <2>3, <2>4, <2>5
<1>8. At(n)
  BY <1>1, <1>7
<1> QED BY <1>4, <1>8 DEF At

(***************************************************************************)
(* The invariant.                                                          *)
(***************************************************************************)

Phases == {"write", "build", "optimize", "start", "run", "done"}

IInv ==
  /\ phase \in Phases /\ pass \in DOMAIN Passes
  /\ there \subseteq DOMAIN body /\ DOMAIN repl = DOMAIN body
  /\ IsSeq(body) /\ IsSeq(left)
  /\ GraphOf(body, there, graph)
  /\ phase = "write" => IsBody(source) /\ graph = RootOnly
  /\ phase # "write" => Buildable(body, there)

LEMMA RootGraph ==
  ASSUME NEW b, NEW kept, Len(b) \in Nat
  PROVE  GraphOf(b, kept, RootOnly)
<1>1. DOMAIN RootOnly.args = {Root} /\ OpOf(Root) = 0 /\ Type(Root) = "Root"
  BY DEF RootOnly, Root, OpOf, Type
<1> QED BY <1>1, RootSound DEF GraphOf

LEMMA InitHolds ==
  ASSUME Init
  PROVE  IInv
<1>1. IsSeq(<< >>) /\ DOMAIN << >> = {} /\ Len(<< >>) = 0
  BY DEF IsSeq
<1>2. GraphOf(<< >>, {}, RootOnly)
  BY <1>1, RootGraph
<1>3. IsBody(<< >>)
  BY <1>1 DEF IsBody, IsSeq
<1>4. pass \in DOMAIN Passes
  BY DEF Init, Passes
<1> QED BY <1>1, <1>2, <1>3, <1>4 DEF Init, IInv, Phases

\* An operation that fits makes a body of a body.
LEMMA WrittenBody ==
  ASSUME IsBody(source), NEW op, Fits(op)
  PROVE  IsBody(Append(source, op))
<1> DEFINE b == source
           c == Append(source, op)
           n == Len(b)
<1>1. IsSeq(b) /\ n \in Nat /\ \A p \in 1 .. n : Placed(b, p)
  BY LenProperties DEF IsBody, IsSeq
<1>2. IsSeq(c) /\ Len(c) = n + 1 /\ c[n + 1] = op /\ \A i \in 1 .. n : c[i] = b[i]
  BY <1>1, SeqAppended
<1>3. ASSUME NEW p \in 0 .. n PROVE Around(b, p + 1) = Around(c, p + 1)
  <2> HIDE DEF c
  <2>1. p \in Nat /\ \A i \in 1 .. p : b[i].kind = c[i].kind
    BY <1>1, <1>2
  <2> QED BY <2>1, AroundSame
<1>4. ASSUME NEW p \in 1 .. n PROVE Placed(c, p)
  <2> DEFINE q == p - 1
  <2>1. q \in Nat /\ q + 1 = p
    BY <1>1
  <2> HIDE DEF q, c, n
  <2>2. \A i \in 1 .. q + 1 : b[i].kind = c[i].kind
    BY <1>1, <1>2, <2>1
  <2>3. Placed(b, q + 1)
    BY <1>1, <2>1
  <2>4. Placed(c, q + 1)
    BY <2>1, <2>2, <2>3, PlacedSame
  <2> QED BY <2>1, <2>4
<1> DEFINE open == Around(b, n + 1)
           opener == IF open = << >> THEN "none" ELSE b[Last(open)].kind
           mids == IF open = << >> THEN {}
                   ELSE {i \in Last(open) + 1 .. n : b[i].kind \in {"else", "do"}
                                                     /\ Last(Around(b, i)) = Last(open)}
<1>5. open = Around(c, n + 1) /\ (open # << >> => Last(open) \in 1 .. n)
  BY <1>1, <1>3, LastAround
<1>6. /\ op.kind = "else" => opener = "if"
      /\ op.kind = "do" => opener = "while"
      /\ op.kind = "end" => opener \in {"for", "if"} \/ (opener = "while" /\ mids # {})
  BY DEF Fits
<1>7. Placed(c, n + 1)
  <2>1. open # << >> => opener = c[Last(open)].kind
    BY <1>2, <1>5
  <2>2. open # << >> /\ mids # {} => Halfway(c, Last(open), n + 1)
    <3> SUFFICES ASSUME open # << >>, mids # {} PROVE Halfway(c, Last(open), n + 1)
      OBVIOUS
    <3>1. PICK i \in Last(open) + 1 .. n : b[i].kind \in {"else", "do"} /\ Last(Around(b, i)) = Last(open)
      OBVIOUS
    <3>2. i \in 1 .. n /\ i - 1 \in 0 .. n /\ (i - 1) + 1 = i /\ i \in Last(open) + 1 .. (n + 1) - 1
      BY <1>1, <1>5, <3>1
    <3>3. Around(c, i) = Around(b, i) /\ c[i] = b[i]
      BY <1>2, <1>3, <3>2
    <3> QED BY <3>1, <3>2, <3>3 DEF Halfway
  <2> HIDE DEF c, opener, mids, open
  <2>3. opener # "none" => open # << >>
    BY <1>1 DEF opener, open
  <2>4. op.kind \in {"else", "do", "end"} => open # << >>
    BY <1>6 DEF opener
  <2> QED BY <1>2, <1>5, <1>6, <2>1, <2>2, <2>4 DEF Placed, Openers
<1>8. \A p \in 1 .. n + 1 : Placed(c, p)
  BY <1>1, <1>4, <1>7
<1> QED BY <1>1, <1>2, <1>8 DEF IsBody, IsSeq

\* What is left behind the element at position i.
LEMMA RestOf ==
  ASSUME NEW s, IsSeq(s), NEW i \in DOMAIN s, NEW t, t = SubSeq(s, i + 1, Len(s))
  PROVE  s[Len(s) - Len(t)] = s[i] /\ IsSeq(t)
<1> DEFINE n == Len(s)
<1>1. DOMAIN s = 1 .. n /\ n \in Nat
  BY LenProperties DEF IsSeq
<1>2. \A j \in 1 .. n : s[j] \in Range(s)
  BY <1>1 DEF Range
<1> HIDE DEF n
<1>3. i + 1 \in Int /\ n \in Int /\ \A j \in i + 1 .. n : s[j] \in Range(s)
  BY <1>1, <1>2
<1>4. SubSeq(s, i + 1, n) \in Seq(Range(s)) /\ Len(SubSeq(s, i + 1, n)) = IF i + 1 <= n THEN n - (i + 1) + 1 ELSE 0
  BY <1>3, SubSeqProperties
<1>5. t = SubSeq(s, i + 1, n)
  BY DEF n
<1>6. Len(t) = n - i
  BY <1>1, <1>4, <1>5
<1>7. n - (n - i) = i
  BY <1>1
<1>8. IsSeq(t)
  BY <1>4, <1>5, AnySeq
<1> QED BY <1>6, <1>7, <1>8 DEF n

LEMMA LiveNode ==
  ASSUME NEW g, IsGraph(g), NEW n, IsLive(g, n)
  PROVE  n \in Live(g) /\ n \in DOMAIN g.args
<1>1. n \in Range(g.nodes)
  <2>1. g.nodes \in Seq(DOMAIN g.args)
    BY DEF IsGraph
  <2> QED BY <2>1, LenProperties DEF IsLive, Contains, Range
<1> QED BY <1>1, GraphTypes DEF Live

\* The first node at which a function changes something.
LEMMA FirstUse ==
  ASSUME IsSeq(left), FirstWith(UseMoves)
  PROVE  UseMoves(Current) /\ IsSeq(left')
<1> DEFINE i == CHOOSE j \in DOMAIN left : UseMoves(left[j]) /\ \A k \in 1 .. j - 1 : ~UseMoves(left[k])
           T == {j \in DOMAIN left : UseMoves(left[j])}
<1>1. left' = SubSeq(left, i + 1, Len(left)) /\ T # {}
  BY DEF FirstWith
<1>2. DOMAIN left = 1 .. Len(left) /\ Len(left) \in Nat
  BY LenProperties DEF IsSeq
<1>3. \E j \in DOMAIN left : UseMoves(left[j]) /\ \A k \in 1 .. j - 1 : ~UseMoves(left[k])
  <2>1. T \in SUBSET Nat /\ T # {}
    BY <1>1, <1>2
  <2>2. PICK j \in T : \A k \in T : j <= k
    <3> HIDE DEF T
    <3> QED BY <2>1, LeastExists
  <2>3. \A k \in 1 .. j - 1 : k \in DOMAIN left /\ k \notin T
    BY <1>2, <2>2
  <2> QED BY <2>2, <2>3
<1>4. i \in DOMAIN left /\ UseMoves(left[i])
  BY <1>3
<1> HIDE DEF i
<1>5. left[Len(left) - Len(left')] = left[i] /\ IsSeq(left')
  BY <1>1, <1>4, RestOf
<1> QED BY <1>4, <1>5 DEF Current

LEMMA FirstFold ==
  ASSUME IsSeq(left), FirstWith(LoadFolds)
  PROVE  LoadFolds(Current) /\ IsSeq(left')
<1> DEFINE i == CHOOSE j \in DOMAIN left : LoadFolds(left[j]) /\ \A k \in 1 .. j - 1 : ~LoadFolds(left[k])
           T == {j \in DOMAIN left : LoadFolds(left[j])}
<1>1. left' = SubSeq(left, i + 1, Len(left)) /\ T # {}
  BY DEF FirstWith
<1>2. DOMAIN left = 1 .. Len(left) /\ Len(left) \in Nat
  BY LenProperties DEF IsSeq
<1>3. \E j \in DOMAIN left : LoadFolds(left[j]) /\ \A k \in 1 .. j - 1 : ~LoadFolds(left[k])
  <2>1. T \in SUBSET Nat /\ T # {}
    BY <1>1, <1>2
  <2>2. PICK j \in T : \A k \in T : j <= k
    <3> HIDE DEF T
    <3> QED BY <2>1, LeastExists
  <2>3. \A k \in 1 .. j - 1 : k \in DOMAIN left /\ k \notin T
    BY <1>2, <2>2
  <2> QED BY <2>2, <2>3
<1>4. i \in DOMAIN left /\ LoadFolds(left[i])
  BY <1>3
<1> HIDE DEF i
<1>5. left[Len(left) - Len(left')] = left[i] /\ IsSeq(left')
  BY <1>1, <1>4, RestOf
<1> QED BY <1>4, <1>5 DEF Current

LEMMA FirstDead ==
  ASSUME IsSeq(left), FirstWith(StoreDies)
  PROVE  StoreDies(Current) /\ IsSeq(left')
<1> DEFINE i == CHOOSE j \in DOMAIN left : StoreDies(left[j]) /\ \A k \in 1 .. j - 1 : ~StoreDies(left[k])
           T == {j \in DOMAIN left : StoreDies(left[j])}
<1>1. left' = SubSeq(left, i + 1, Len(left)) /\ T # {}
  BY DEF FirstWith
<1>2. DOMAIN left = 1 .. Len(left) /\ Len(left) \in Nat
  BY LenProperties DEF IsSeq
<1>3. \E j \in DOMAIN left : StoreDies(left[j]) /\ \A k \in 1 .. j - 1 : ~StoreDies(left[k])
  <2>1. T \in SUBSET Nat /\ T # {}
    BY <1>1, <1>2
  <2>2. PICK j \in T : \A k \in T : j <= k
    <3> HIDE DEF T
    <3> QED BY <2>1, LeastExists
  <2>3. \A k \in 1 .. j - 1 : k \in DOMAIN left /\ k \notin T
    BY <1>2, <2>2
  <2> QED BY <2>2, <2>3
<1>4. i \in DOMAIN left /\ StoreDies(left[i])
  BY <1>3
<1> HIDE DEF i
<1>5. left[Len(left) - Len(left')] = left[i] /\ IsSeq(left')
  BY <1>1, <1>4, RestOf
<1> QED BY <1>4, <1>5 DEF Current

LEMMA FirstMerge ==
  ASSUME IsSeq(left), FirstWith(LoadsMerge)
  PROVE  LoadsMerge(Current) /\ IsSeq(left')
<1> DEFINE i == CHOOSE j \in DOMAIN left : LoadsMerge(left[j]) /\ \A k \in 1 .. j - 1 : ~LoadsMerge(left[k])
           T == {j \in DOMAIN left : LoadsMerge(left[j])}
<1>1. left' = SubSeq(left, i + 1, Len(left)) /\ T # {}
  BY DEF FirstWith
<1>2. DOMAIN left = 1 .. Len(left) /\ Len(left) \in Nat
  BY LenProperties DEF IsSeq
<1>3. \E j \in DOMAIN left : LoadsMerge(left[j]) /\ \A k \in 1 .. j - 1 : ~LoadsMerge(left[k])
  <2>1. T \in SUBSET Nat /\ T # {}
    BY <1>1, <1>2
  <2>2. PICK j \in T : \A k \in T : j <= k
    <3> HIDE DEF T
    <3> QED BY <2>1, LeastExists
  <2>3. \A k \in 1 .. j - 1 : k \in DOMAIN left /\ k \notin T
    BY <1>2, <2>2
  <2> QED BY <2>2, <2>3
<1>4. i \in DOMAIN left /\ LoadsMerge(left[i])
  BY <1>3
<1> HIDE DEF i
<1>5. left[Len(left) - Len(left')] = left[i] /\ IsSeq(left')
  BY <1>1, <1>4, RestOf
<1> QED BY <1>4, <1>5 DEF Current

LEMMA WriteKeeps ==
  ASSUME IInv, Write
  PROVE  IInv'
<1>1. PICK op : Fits(op) /\ source' = Append(source, op)
  BY DEF Write
<1>2. IsBody(source) /\ phase = "write"
  BY DEF Write, IInv
<1>3. IsBody(source')
  BY <1>1, <1>2, WrittenBody
<1>4. UNCHANGED <<body, there, repl, phase, graph, pass, left>>
  BY DEF Write, optVars
<1> QED BY <1>2, <1>3, <1>4 DEF IInv

LEMMA WrittenKeeps ==
  ASSUME IInv, Written
  PROVE  IInv'
<1>1. /\ phase = "write" /\ phase' = "build" /\ Around(source, Len(source) + 1) = << >>
      /\ body' = source /\ there' = DOMAIN source
      /\ repl' = [p \in DOMAIN source |-> <<"load", p>>]
      /\ UNCHANGED <<source, graph, pass, left>>
  BY DEF Written, optVars
<1>2. IsBody(source) /\ IsSeq(source) /\ DOMAIN source = 1 .. Len(source) /\ Len(source) \in Nat /\ graph = RootOnly
  BY <1>1, LenProperties DEF IInv, IsBody, IsSeq
<1>3. Buildable(body', there')
  BY <1>1, <1>2 DEF Buildable
<1>4. GraphOf(body', there', graph')
  BY <1>1, <1>2, RootGraph
<1> QED BY <1>1, <1>2, <1>3, <1>4 DEF IInv, Phases

LEMMA BuildKeeps ==
  ASSUME IInv, Build
  PROVE  IInv'
<1>1. /\ phase = "build" /\ phase' = "optimize" /\ graph' = BuildMemorySSA(body, there) /\ pass' = 1
      /\ left' = graph'.nodes
      /\ UNCHANGED <<source, body, there, repl>>
  BY DEF Build
<1>2. Buildable(body, there)
  BY <1>1 DEF IInv
<1>3. GraphOf(body, there, graph')
  BY <1>1, <1>2, GraphBuilt
<1>4. IsSeq(left')
  BY <1>1, <1>3, AnySeq DEF GraphOf, Sound, IsGraph
<1>5. pass' \in DOMAIN Passes
  BY <1>1 DEF Passes
<1> QED BY <1>1, <1>2, <1>3, <1>4, <1>5 DEF IInv, Phases

LEMMA OptimizeUseKeeps ==
  ASSUME IInv, OptimizeUse
  PROVE  IInv'
<1> DEFINE n == Current
<1>1. /\ phase = "optimize" /\ FirstWith(UseMoves) /\ graph' = SetArgument(graph, n, 1, Nearest(n))
      /\ UNCHANGED <<source, body, there, repl, phase, pass>>
  BY DEF OptimizeUse, Running
<1>2. UseMoves(n) /\ IsSeq(left')
  BY <1>1, FirstUse DEF IInv
<1> HIDE DEF n
<1>3. GraphOf(body, there, graph) /\ IsGraph(graph) /\ Buildable(body, there) /\ IsSeq(body)
  BY <1>1 DEF IInv, GraphOf, Sound
<1>4. n \in Live(graph) /\ Type(n) = "Use"
  BY <1>2, <1>3, LiveNode DEF UseMoves
<1>5. Nearest(n) = GetDef(graph, body, Dominator(graph, n), body[OpOf(n)]) /\ Len(body) \in Nat
  BY <1>3, LenProperties DEF Nearest, IsSeq
<1>6. GraphOf(body, there, graph')
  <2> DEFINE to == Nearest(n)
             op == body[OpOf(n)]
  <2>1. to = GetDef(graph, body, Dominator(graph, n), op)
    BY <1>5
  <2> HIDE DEF to, op
  <2>2. GraphOf(body, there, SetArgument(graph, n, 1, to))
    BY <1>3, <1>4, <1>5, <2>1, UseMoved
  <2> QED BY <1>1, <2>2 DEF to
<1> QED BY <1>1, <1>2, <1>6 DEF IInv

LEMMA FoldLoadKeeps ==
  ASSUME IInv, FoldLoad
  PROVE  IInv'
<1> DEFINE n == Current
           p == OpOf(n)
           value == <<"val", OpOf(graph.args[n][1])>>
           c == Substituted(body, p, value)
<1>1. /\ phase = "optimize" /\ FirstWith(LoadFolds)
      /\ body' = c /\ repl' = Redirected(repl, p, value) /\ there' = there \ {p}
      /\ graph' = EraseNode(graph, n)
      /\ UNCHANGED <<source, phase, pass>>
  BY DEF FoldLoad, Running
<1>2. LoadFolds(n) /\ IsSeq(left')
  BY <1>1, FirstFold DEF IInv
<1> HIDE DEF n
<1>3. GraphOf(body, there, graph) /\ IsGraph(graph) /\ Buildable(body, there) /\ IsSeq(body)
  BY <1>1 DEF IInv, GraphOf, Sound
<1>4. n \in Live(graph) /\ n \in DOMAIN graph.args /\ Type(n) = "Use" /\ body[p].kind \in {"load", "store"}
  BY <1>2, <1>3, LiveNode DEF LoadFolds, MustAlias, IsAccess
<1>5. SameKinds(body, c)
  BY <1>3, SubstitutedSame
<1> HIDE DEF c
<1>6. GraphOf(c, there \ {p}, EraseNode(graph, n)) /\ Buildable(c, there \ {p})
  BY <1>3, <1>4, <1>5, AccessErased
<1>7. DOMAIN repl' = DOMAIN repl /\ DOMAIN c = DOMAIN body /\ IsSeq(c)
  BY <1>1, <1>5, LenProperties DEF Redirected, SameKinds, IsSeq
<1> QED BY <1>1, <1>2, <1>6, <1>7 DEF IInv

LEMMA EraseDeadStoreKeeps ==
  ASSUME IInv, EraseDeadStore
  PROVE  IInv'
<1> DEFINE n == Current
           p == OpOf(n)
<1>1. /\ phase = "optimize" /\ FirstWith(StoreDies)
      /\ there' = there \ {p} /\ graph' = EraseNode(graph, n)
      /\ UNCHANGED <<source, body, repl, phase, pass>>
  BY DEF EraseDeadStore, Running
<1>2. StoreDies(n) /\ IsSeq(left')
  BY <1>1, FirstDead DEF IInv
<1> HIDE DEF n
<1>3. GraphOf(body, there, graph) /\ IsGraph(graph) /\ Buildable(body, there) /\ IsSeq(body)
  BY <1>1 DEF IInv, GraphOf, Sound
<1>4. n \in Live(graph) /\ n \in DOMAIN graph.args /\ Type(n) = "Def" /\ body[p].kind \in {"load", "store"}
  BY <1>2, <1>3, LiveNode DEF StoreDies, MustAlias, IsAccess
<1>5. SameKinds(body, body)
  BY <1>3 DEF SameKinds, IsSeq
<1>6. GraphOf(body, there \ {p}, EraseNode(graph, n)) /\ Buildable(body, there \ {p})
  BY <1>3, <1>4, <1>5, AccessErased
<1> QED BY <1>1, <1>2, <1>6 DEF IInv

\* What loadCSE goes over at one node.
CseUsers(n) == [i \in DOMAIN graph.users[n] |-> graph.users[n][i][1]]
CseStart    == [body |-> body, repl |-> repl, there |-> there, graph |-> graph, map |-> << >>]

LEMMA CseBegins ==
  ASSUME IInv, phase = "optimize", NEW n, LoadsMerge(n)
  PROVE  /\ CseUsers(n) \in Seq(DOMAIN graph.args) /\ DOMAIN graph.args \subseteq Nodes
         /\ CseState(body, DOMAIN graph.args, there, CseStart)
         /\ CseAt(n) = Fold(Visit, CseStart, CseUsers(n))
         /\ CseStart.graph = graph /\ CseStart.body = body
<1> DEFINE s == CseAt(n)
           D == DOMAIN graph.args
           us == CseUsers(n)
           base == CseStart
<1>1. s = Fold(Visit, base, us) /\ base.graph = graph /\ base.body = body
  BY DEF CseAt, CseStart, CseUsers
<1> HIDE DEF s
<1>2. /\ GraphOf(body, there, graph) /\ IsGraph(graph) /\ Buildable(body, there) /\ IsSeq(body) /\ D \subseteq Nodes
      /\ there \subseteq DOMAIN body /\ DOMAIN repl = DOMAIN body
  BY GraphTypes DEF IInv, GraphOf, Sound
<1>3. n \in D
  BY <1>2, LiveNode DEF LoadsMerge
<1>4. us \in Seq(D)
  <2> DEFINE list == graph.users[n]
             m == Len(list)
  <2>1. list \in Seq(Nodes \X Nat) /\ Range(list) = Uses(graph.args, n)
    BY <1>2, <1>3 DEF IsGraph, Listed
  <2>2. DOMAIN list = 1 .. m /\ m \in Nat
    BY <2>1, LenProperties
  <2>3. \A i \in 1 .. m : list[i] \in Uses(graph.args, n)
    BY <2>1, <2>2 DEF Range
  <2>4. \A i \in 1 .. m : list[i][1] \in D
    BY <2>3 DEF Uses
  <2>5. us = [i \in 1 .. m |-> list[i][1]]
    BY <2>2 DEF CseUsers
  <2> HIDE DEF list, m, D, us
  <2>6. us \in [1 .. m -> D]
    BY <2>4, <2>5
  <2> QED BY <2>2, <2>6, SeqDef
<1>5. CseState(body, D, there, base)
  <2>1. /\ base.body = body /\ base.repl = repl /\ base.there = there /\ base.graph = graph /\ base.map = << >>
        /\ base = [body |-> base.body, repl |-> base.repl, there |-> base.there, graph |-> base.graph, map |-> base.map]
    BY DEF CseStart
  <2>2. SameKinds(body, body) /\ DOMAIN body = 1 .. Len(body)
    BY <1>2, LenProperties DEF SameKinds, IsSeq
  <2>3. DOMAIN << >> = {}
    OBVIOUS
  <2> HIDE DEF base
  <2> QED BY <1>2, <2>1, <2>2, <2>3 DEF CseState
<1> QED BY <1>1, <1>2, <1>4, <1>5 DEF s

\* What loadCSE does at one node.
LEMMA CseDone ==
  ASSUME IInv, phase = "optimize", NEW n, LoadsMerge(n)
  PROVE  CseState(body, DOMAIN graph.args, there, CseAt(n))
BY CseBegins, VisitsDone

LEMMA LoadCSEKeeps ==
  ASSUME IInv, LoadCSE
  PROVE  IInv'
<1> DEFINE n == Current
           s == CseAt(n)
<1>1. /\ phase = "optimize" /\ FirstWith(LoadsMerge)
      /\ body' = s.body /\ repl' = s.repl /\ there' = s.there /\ graph' = s.graph
      /\ UNCHANGED <<source, phase, pass>>
  BY DEF LoadCSE, Running
<1>2. LoadsMerge(n) /\ IsSeq(left')
  BY <1>1, FirstMerge DEF IInv
<1> HIDE DEF n
<1>3. CseState(body, DOMAIN graph.args, there, s)
  BY <1>1, <1>2, CseDone
<1> HIDE DEF s
<1>4. /\ SameKinds(body, body') /\ DOMAIN repl' = 1 .. Len(body) /\ there' \subseteq 1 .. Len(body)
      /\ Buildable(body', there') /\ GraphOf(body', there', graph')
  BY <1>1, <1>3 DEF CseState
<1>5. IsSeq(body') /\ DOMAIN body' = 1 .. Len(body)
  BY <1>4, LenProperties DEF SameKinds, IsSeq
<1> QED BY <1>1, <1>2, <1>4, <1>5 DEF IInv

LEMMA PassEndsKeeps ==
  ASSUME IInv, PassEnds
  PROVE  IInv'
<1>1. /\ phase = "optimize" /\ left' = graph.nodes /\ UNCHANGED <<source, body, there, repl, graph>>
      /\ phase' \in {"optimize", "build", "start"}
      /\ pass' = IF pass = Len(Passes) THEN 2 ELSE pass + 1
  BY DEF PassEnds
<1>2. pass' \in DOMAIN Passes
  <2>1. pass \in 1 .. 5 /\ Len(Passes) = 5 /\ DOMAIN Passes = 1 .. 5
    BY DEF IInv, Passes
  <2> QED BY <1>1, <2>1
<1>3. IsSeq(left')
  BY <1>1, AnySeq DEF IInv, GraphOf, Sound, IsGraph
<1>4. Buildable(body', there') /\ GraphOf(body', there', graph')
  BY <1>1 DEF IInv
<1> QED BY <1>1, <1>2, <1>3, <1>4 DEF IInv, Phases

LEMMA OthersKeep ==
  ASSUME IInv, Execute \/ Ended \/ UNCHANGED vars
  PROVE  IInv'
<1>1. /\ UNCHANGED <<source, body, there, repl, graph, pass, left>>
      /\ phase' = phase \/ (phase # "write" /\ phase' \in {"run", "done"})
  BY DEF Execute, Start, Load, Store, Overwrite, Branch, End, Finish, RunOnly, Ended, vars, optVars, Executing
<1>2. phase' \in Phases
  BY <1>1 DEF IInv, Phases
<1> QED BY <1>1, <1>2 DEF IInv

LEMMA InvHolds == Spec => []IInv
<1>1. Init => IInv
  BY InitHolds
<1>2. IInv /\ [Next]_vars => IInv'
  <2> SUFFICES ASSUME IInv, [Next]_vars PROVE IInv'
    OBVIOUS
  <2>1. CASE Write
    BY <2>1, WriteKeeps
  <2>2. CASE Written
    BY <2>2, WrittenKeeps
  <2>3. CASE Build
    BY <2>3, BuildKeeps
  <2>4. CASE OptimizeUse
    BY <2>4, OptimizeUseKeeps
  <2>5. CASE FoldLoad
    BY <2>5, FoldLoadKeeps
  <2>6. CASE EraseDeadStore
    BY <2>6, EraseDeadStoreKeeps
  <2>7. CASE LoadCSE
    BY <2>7, LoadCSEKeeps
  <2>8. CASE PassEnds
    BY <2>8, PassEndsKeeps
  <2>9. CASE Execute \/ Ended \/ UNCHANGED vars
    BY <2>9, OthersKeep
  <2> QED BY <2>1, <2>2, <2>3, <2>4, <2>5, <2>6, <2>7, <2>8, <2>9 DEF Next, Optimize
<1> QED BY <1>1, <1>2, PTL DEF Spec

\* The nodes of the analysis, for every body of every family: each live access is
\* the node of an operation that has not been erased, and only the root is
\* without arguments (memory_ssa.cpp, memory_rewrites.cpp).
THEOREM TypesHold == Spec => []TypeOK
<1>1. IInv => TypeOK
  <2> SUFFICES ASSUME IInv PROVE TypeOK
    OBVIOUS
  <2>1. Sound(graph, {}) /\ IsGraph(graph) /\ Live(graph) \subseteq DOMAIN graph.args /\ DOMAIN graph.args \subseteq Nodes
    BY GraphTypes DEF IInv, GraphOf, Sound
  <2>2. ASSUME NEW i \in DOMAIN graph.nodes
        PROVE  LET n == graph.nodes[i]
               IN  /\ Type(n) \in {"Root", "Term", "Phi", "Def", "Use"}
                   /\ Type(n) \in {"Def", "Use"} => OpOf(n) \in there
                   /\ Type(n) # "Root" => None \notin Range(graph.args[n])
    <3> DEFINE n == graph.nodes[i]
    <3>1. n \in Live(graph)
      BY DEF Live, Range
    <3> HIDE DEF n
    <3>2. n \in DOMAIN graph.args /\ n \in Nodes
      BY <2>1, <3>1
    <3>3. Type(n) \in {"Root", "Term", "Phi", "Def", "Use"}
      BY <3>2 DEF Nodes, NodeTypes, Type
    <3>4. Type(n) \in {"Def", "Use"} => OpOf(n) \in there
      BY <3>1, <3>2 DEF IInv, GraphOf
    <3>5. Type(n) # "Root" => None \notin Range(graph.args[n])
      <4>1. Settled(graph, n)
        BY <2>1, <3>2 DEF Sound
      <4>2. Type(Root) = "Root"
        BY DEF Type, Root
      <4> QED BY <3>1, <4>1, <4>2 DEF Settled, Range
    <3> QED BY <3>3, <3>4, <3>5 DEF n
  <2> QED BY <2>2 DEF TypeOK, IInv, Phases
<1> QED BY <1>1, InvHolds, PTL

\* Through setArgument, createNode and eraseNode the list of users of every node
\* has each argument that is this node, once.
THEOREM UseListsHold == Spec => []UseListsAgree
<1>1. IInv => UseListsAgree
  <2> SUFFICES ASSUME IInv, NEW n \in Range(graph.nodes)
               PROVE  /\ Range(graph.users[n]) =
                           {use \in Range(graph.nodes) \X (1 .. 2) :
                              use[2] \in DOMAIN graph.args[use[1]] /\ graph.args[use[1]][use[2]] = n}
                      /\ IsInjective(graph.users[n])
    BY DEF UseListsAgree
  <2> DEFINE L == Range(graph.nodes)
             args == graph.args
             D == DOMAIN args
  <2>1. Sound(graph, {}) /\ L \subseteq D /\ D \subseteq Nodes /\ None \notin D /\ L = Live(graph)
    BY GraphTypes DEF IInv, GraphOf, Sound, Live
  <2>2. n \in D /\ n # None
    BY <2>1
  <2>3. Range(graph.users[n]) = Uses(args, n) /\ IsInjective(graph.users[n])
    BY <2>1, <2>2 DEF Sound, IsGraph, Listed
  <2>4. \A u \in D : \A i \in DOMAIN args[u] : i \in 1 .. 2 /\ i \in Nat
    <3>1. \A u \in D : DOMAIN args[u] = 1 .. Arity(u)
      BY <2>1 DEF Sound, NodeFine
    <3>2. \A u : Arity(u) \in 0 .. 2
      BY DEF Arity
    <3> QED BY <3>1, <3>2
  <2>5. \A u \in D : u \notin L => \A i \in DOMAIN args[u] : args[u][i] # n
    BY <2>1, <2>2 DEF Sound, NodeFine
  <2> HIDE DEF L, args
  <2>6. Uses(args, n) = {use \in L \X (1 .. 2) : use[2] \in DOMAIN args[use[1]] /\ args[use[1]][use[2]] = n}
    BY <2>1, <2>4, <2>5 DEF Uses
  <2> QED BY <2>3, <2>6 DEF L, args
<1> QED BY <1>1, InvHolds, PTL

(***************************************************************************)
(* Where the uses end up: optimizeUses moves a use to a node from which    *)
(* getDef goes nowhere, and to move a use changes no walk of another.      *)
(***************************************************************************)

Cores(g) == {n \in DOMAIN g.args : IsCore(n)}

\* The nodes that getDef visits have what they had.
SameCores(g, h) ==
  /\ Sound(g, {}) /\ Sound(h, {}) /\ IsFiniteSet(DOMAIN g.args)
  /\ DOMAIN h.args = DOMAIN g.args
  /\ \A n \in Cores(g) : h.args[n] = g.args[n] /\ h.dom[n] = g.dom[n]

LEMMA FiniteNodes ==
  ASSUME NEW g, Sound(g, {}), NEW m \in Nat, \A n \in DOMAIN g.args : OpOf(n) <= m
  PROVE  IsFiniteSet(DOMAIN g.args)
<1>1. DOMAIN g.args \subseteq Nodes
  BY GraphTypes DEF Sound
<1>2. \A n \in DOMAIN g.args : n \in NodeTypes \X (0 .. m)
  BY <1>1 DEF Nodes, OpOf
<1>3. IsFiniteSet(0 .. m)
  BY FS_Interval
<1>4. IsFiniteSet(NodeTypes)
  <2>1. IsFiniteSet({"Root"})
    BY FS_Singleton
  <2>2. IsFiniteSet({"Root"} \cup {"Term"})
    BY <2>1, FS_AddElement
  <2>3. IsFiniteSet(({"Root"} \cup {"Term"}) \cup {"Def"})
    BY <2>2, FS_AddElement
  <2>4. IsFiniteSet((({"Root"} \cup {"Term"}) \cup {"Def"}) \cup {"Use"})
    BY <2>3, FS_AddElement
  <2>5. IsFiniteSet(((({"Root"} \cup {"Term"}) \cup {"Def"}) \cup {"Use"}) \cup {"Phi"})
    BY <2>4, FS_AddElement
  <2>6. NodeTypes = ((({"Root"} \cup {"Term"}) \cup {"Def"}) \cup {"Use"}) \cup {"Phi"}
    BY DEF NodeTypes
  <2> QED BY <2>5, <2>6
<1>5. IsFiniteSet(NodeTypes \X (0 .. m))
  BY <1>3, <1>4, FS_Product
<1> QED BY <1>2, <1>5, FS_Subset

\* Node u of g becomes a use of node to.
IsMoved(g, u, to, h) ==
  /\ Sound(g, {}) /\ Sound(h, {}) /\ IsFiniteSet(DOMAIN g.args)
  /\ u \in DOMAIN g.args /\ Type(u) = "Use" /\ to \in Cores(g)
  /\ DOMAIN h.args = DOMAIN g.args /\ SameNodes(g, h)
  /\ h.args[u][1] = to
  /\ \A v \in DOMAIN g.args : v # u => h.args[v] = g.args[v]

LEMMA DominatorMoved ==
  ASSUME NEW g, NEW u, NEW to, NEW h, IsMoved(g, u, to, h)
  PROVE  /\ \A v \in DOMAIN g.args : v # u => Dominator(h, v) = Dominator(g, v)
         /\ Dominator(h, u) = to
         /\ u \notin Cores(g)
<1>1. u # Root /\ ~IsCore(u)
  BY DEF IsMoved, IsCore, Core, Root, Type
<1>2. g.dom[u] = None
  <2>1. NodeFine(g, u)
    BY DEF IsMoved, Sound
  <2> QED BY <1>1, <2>1 DEF NodeFine
<1>3. h.dom = g.dom
  BY DEF IsMoved, SameNodes
<1> QED BY <1>1, <1>2, <1>3 DEF IsMoved, Dominator, Cores

LEMMA CorePredecessors ==
  ASSUME NEW g, Sound(g, {}), NEW n \in Cores(g), NEW stop
  PROVE  Predecessors(g, n, stop) \subseteq Cores(g)
<1>1. n \in DOMAIN g.args
  BY DEF Cores
<1>2. Dominator(g, n) = None \/ Dominator(g, n) \in Cores(g)
  BY <1>1, DominatorBefore DEF Before, Cores
<1>3. \A i \in DOMAIN g.args[n] : g.args[n][i] = None \/ g.args[n][i] \in Cores(g)
  <2>1. \A i \in DOMAIN g.args[n] : MayUse(n, g.args[n][i])
    BY <1>1 DEF Sound, NodeFine
  <2>2. \A i \in DOMAIN g.args[n] : g.args[n][i] = None \/ g.args[n][i] \in DOMAIN g.args
    BY <1>1, GraphTypes DEF Sound
  <2> QED BY <2>1, <2>2 DEF MayUse, Cores
<1> QED BY <1>2, <1>3 DEF Predecessors, Range

LEMMA MovedSame ==
  ASSUME NEW g, NEW u, NEW to, NEW h, IsMoved(g, u, to, h)
  PROVE  SameCores(g, h)
<1>1. \A n \in Cores(g) : n \in DOMAIN g.args /\ n # u
  BY DominatorMoved DEF Cores
<1> QED BY <1>1 DEF IsMoved, SameNodes, SameCores

LEMMA DominatorSame ==
  ASSUME NEW g, NEW h, SameCores(g, h), NEW n \in Cores(g)
  PROVE  Dominator(h, n) = Dominator(g, n)
BY DEF SameCores, Dominator

LEMMA BehindSame ==
  ASSUME NEW g, NEW h, SameCores(g, h), NEW stop, NEW reached, reached \subseteq Cores(g)
  PROVE  Behind(h, stop, reached) = Behind(g, stop, reached) /\ Behind(g, stop, reached) \subseteq Cores(g)
<1>1. ASSUME NEW n \in reached
      PROVE  Predecessors(h, n, stop) = Predecessors(g, n, stop) /\ Predecessors(g, n, stop) \subseteq Cores(g)
  <2>1. n \in Cores(g)
    OBVIOUS
  <2>2. Dominator(h, n) = Dominator(g, n) /\ h.args[n] = g.args[n]
    BY <2>1, DominatorSame DEF SameCores
  <2>3. Predecessors(g, n, stop) \subseteq Cores(g)
    BY <2>1, CorePredecessors DEF SameCores
  <2> QED BY <2>2, <2>3 DEF Predecessors
<1>2. UNION {Predecessors(h, n, stop) : n \in reached} = UNION {Predecessors(g, n, stop) : n \in reached}
  BY <1>1
<1>3. UNION {Predecessors(g, n, stop) : n \in reached} \subseteq Cores(g)
  BY <1>1
<1> QED BY <1>2, <1>3 DEF Behind

\* The first nodes of checkPhisAlias.
Ins(g, phi, stop) == Range(g.args[phi]) \ {stop, None}

LEMMA PathFolds ==
  ASSUME NEW g, NEW phi, NEW stop, IsFiniteSet(DOMAIN g.args)
  PROVE  PathNodes(g, phi, stop) = Stepped(<<"path", g, stop>>, Ins(g, phi, stop), Cardinality(DOMAIN g.args))
<1> DEFINE n == Cardinality(DOMAIN g.args)
           us == Steps(g)
           base == Ins(g, phi, stop)
           what == <<"path", g, stop>>
           Is(u) == u = [k \in 0 .. n |-> IF k = 0 THEN base
                           ELSE CHOOSE r \in {Behind(g, stop, t) : t \in {u[k - 1]}} : TRUE]
           U == CHOOSE u : Is(u)
<1>2. n \in Nat
  BY FS_CardinalityType
<1>0. Len(us) = n
  <2> HIDE DEF n
  <2>1. [i \in 1 .. n |-> i] \in Seq(Nat)
    BY <1>2
  <2> QED BY <1>2, <2>1 DEF Steps, n
<1>1. PathNodes(g, phi, stop) = U[n]
  BY <1>0 DEF PathNodes, Fold, Ins
<1> HIDE DEF n, base
<1>3. \A s, k : StepOf(what, s, k) = Behind(g, stop, s)
  BY DEF StepOf
<1>4. ASSUME NEW u PROVE Is(u) <=> IsSteps(u, what, base, n)
  <2>1. \A x : \A k \in 1 .. n : (CHOOSE r \in {Behind(g, stop, t) : t \in {x}} : TRUE) = StepOf(what, x, k)
    <3> SUFFICES ASSUME NEW x, NEW k \in 1 .. n
                 PROVE (CHOOSE r \in {Behind(g, stop, t) : t \in {x}} : TRUE) = StepOf(what, x, k)
      OBVIOUS
    <3>1. (CHOOSE r \in {Behind(g, stop, t) : t \in {x}} : TRUE) = Behind(g, stop, x)
      OBVIOUS
    <3> QED BY <1>3, <3>1
  <2>2. [k \in 0 .. n |-> IF k = 0 THEN base ELSE CHOOSE r \in {Behind(g, stop, t) : t \in {u[k - 1]}} : TRUE]
         = [k \in 0 .. n |-> IF k = 0 THEN base ELSE StepOf(what, u[k - 1], k)]
    BY <1>2, <2>1
  <2> QED BY <2>2 DEF IsSteps
<1>5. \E u : Is(u)
  BY <1>2, <1>4, StepsExist
<1> HIDE DEF Is
<1>6. Is(U)
  BY <1>5
<1>7. IsSteps(U, what, base, n)
  BY <1>4, <1>6
<1> HIDE DEF U, what
<1> QED BY <1>1, <1>2, <1>7, SteppedIs DEF what, n, base

LEMMA PathSame ==
  ASSUME NEW g, NEW h, SameCores(g, h), NEW stop, NEW phi \in Cores(g)
  PROVE  PathNodes(h, phi, stop) = PathNodes(g, phi, stop)
<1> DEFINE G == <<"path", g, stop>>
           H == <<"path", h, stop>>
           base == Ins(g, phi, stop)
           n == Cardinality(DOMAIN g.args)
           Same(k) == Stepped(G, base, k) = Stepped(H, base, k) /\ Stepped(G, base, k) \subseteq Cores(g)
           T == {k \in Nat : ~Same(k)}
<1>1. IsFiniteSet(DOMAIN g.args) /\ DOMAIN h.args = DOMAIN g.args /\ n \in Nat
  BY FS_CardinalityType DEF SameCores
<1>2. Ins(h, phi, stop) = base
  BY DEF SameCores, Ins
<1>3. base \subseteq Cores(g)
  <2>1. phi \in DOMAIN g.args
    BY DEF Cores
  <2>2. Sound(g, {})
    BY DEF SameCores
  <2>3. \A i \in DOMAIN g.args[phi] : MayUse(phi, g.args[phi][i])
    BY <2>1, <2>2 DEF Sound, NodeFine
  <2>4. \A i \in DOMAIN g.args[phi] : g.args[phi][i] = None \/ g.args[phi][i] \in DOMAIN g.args
    BY <2>1, <2>2, GraphTypes DEF Sound
  <2> QED BY <2>3, <2>4 DEF MayUse, Cores, Ins, Range
<1>4. \A s, k : StepOf(G, s, k) = Behind(g, stop, s) /\ StepOf(H, s, k) = Behind(h, stop, s)
  BY DEF StepOf
<1>5. PathNodes(g, phi, stop) = Stepped(G, base, n) /\ PathNodes(h, phi, stop) = Stepped(H, base, n)
  BY <1>1, <1>2, PathFolds
<1> HIDE DEF G, H, base, n
<1>6. Same(0)
  BY <1>3, SteppedStart
<1>7. ASSUME NEW k \in Nat, Same(k) PROVE Same(k + 1)
  <2> DEFINE s == Stepped(G, base, k)
  <2>1. Stepped(G, base, k + 1) = Behind(g, stop, s) /\ Stepped(H, base, k + 1) = Behind(h, stop, s)
    BY <1>4, <1>7, SteppedNext
  <2>2. s \subseteq Cores(g)
    BY <1>7
  <2> HIDE DEF s
  <2>3. Behind(h, stop, s) = Behind(g, stop, s) /\ Behind(g, stop, s) \subseteq Cores(g)
    BY <2>2, BehindSame
  <2> QED BY <2>1, <2>3
<1> HIDE DEF Same
<1>8. T = {}
  <2> SUFFICES ASSUME T # {} PROVE FALSE
    OBVIOUS
  <2>1. T \in SUBSET Nat
    OBVIOUS
  <2>2. PICK l \in T : \A m \in T : l <= m
    BY <2>1, LeastExists
  <2>3. l # 0 /\ l \in Nat /\ ~Same(l)
    BY <1>6, <2>2
  <2>4. l - 1 \in Nat /\ l - 1 \notin T /\ (l - 1) + 1 = l
    BY <2>2, <2>3
  <2>5. Same(l - 1)
    BY <2>4
  <2> QED BY <1>7, <2>3, <2>4, <2>5
<1>9. Same(n)
  BY <1>1, <1>8
<1> QED BY <1>5, <1>9 DEF Same

LEMMA ClobbersSame ==
  ASSUME NEW g, NEW h, SameCores(g, h), NEW n \in Cores(g), NEW b, NEW op
  PROVE  Clobbers(h, b, n, op) = Clobbers(g, b, n, op)
<1>1. Dominator(h, n) = Dominator(g, n)
  BY DominatorSame
<1>2. PathNodes(h, n, Dominator(g, n)) = PathNodes(g, n, Dominator(g, n))
  BY PathSame
<1> QED BY <1>1, <1>2 DEF Clobbers

\* A node from which getDef went nowhere is still one, and no other is.
LEMMA StopsSame ==
  ASSUME NEW g, NEW h, SameCores(g, h), NEW b, NEW op, NEW n \in Cores(g)
  PROVE  n \in Stops(h, b, op) <=> n \in Stops(g, b, op)
<1>1. n \in DOMAIN g.args /\ DOMAIN h.args = DOMAIN g.args
  BY DEF SameCores, Cores
<1>2. Dominator(h, n) = Dominator(g, n)
  BY DominatorSame
<1>3. Clobbers(h, b, n, op) = Clobbers(g, b, n, op)
  BY ClobbersSame
<1> QED BY <1>1, <1>2, <1>3 DEF Stops

LEMMA WalkMoved ==
  ASSUME NEW g, NEW u, NEW to, NEW h, IsMoved(g, u, to, h), NEW S, NEW T, \A n \in Cores(g) : n \in S <=> n \in T,
         \A n \in DOMAIN g.args : Dominator(g, n) = None => n \in S,
         NEW w, IsWalk(w, g, S, DOMAIN g.args), NEW v, IsWalk(v, h, T, DOMAIN g.args), NEW start \in Cores(g)
  PROVE  w[start] = v[start]
<1> DEFINE D == DOMAIN g.args
           Late == {OpOf(n) : n \in {x \in Cores(g) : w[x] # v[x]}}
<1>1. \A n \in D : OpOf(n) \in Nat
  <2>1. D \subseteq Nodes
    BY GraphTypes DEF IsMoved, Sound
  <2> QED BY <2>1 DEF Nodes, OpOf
<1>2. \A n \in Cores(g) : n \in D /\ IsCore(n) /\ n # u
  BY DominatorMoved DEF Cores
<1>3. \A n \in D : /\ w[n] = IF n \in S THEN n ELSE w[Dominator(g, n)]
                   /\ v[n] = IF n \in T THEN n ELSE v[Dominator(h, n)]
  BY DEF IsWalk
<1>4. ASSUME NEW n \in Cores(g), w[n] # v[n]
      PROVE  \E d \in Cores(g) : w[d] # v[d] /\ OpOf(d) < OpOf(n)
  <2>1. n \notin S /\ n \notin T /\ n \in D /\ n # u
    BY <1>2, <1>3, <1>4
  <2>2. Dominator(g, n) \in D /\ Before(Dominator(g, n), n)
    BY <2>1, DominatorBefore DEF IsMoved
  <2>3. Dominator(h, n) = Dominator(g, n)
    BY <2>1, DominatorMoved
  <2>4. w[Dominator(g, n)] # v[Dominator(g, n)]
    BY <1>3, <1>4, <2>1, <2>3
  <2> QED BY <1>2, <2>2, <2>4 DEF Before, Cores
<1> SUFFICES ASSUME w[start] # v[start] PROVE FALSE
  OBVIOUS
<1>5. Late \in SUBSET Nat /\ Late # {}
  BY <1>1, <1>2
<1>6. PICK l \in Late : \A j \in Late : l <= j
  <2> HIDE DEF Late
  <2> QED BY <1>5, LeastExists
<1>7. PICK n \in Cores(g) : w[n] # v[n] /\ l = OpOf(n)
  BY <1>6
<1>8. PICK d \in Cores(g) : w[d] # v[d] /\ OpOf(d) < OpOf(n)
  BY <1>4, <1>7
<1>9. OpOf(d) \in Late
  BY <1>8
<1> QED BY <1>1, <1>2, <1>6, <1>7, <1>8, <1>9

LEMMA GetDefMoved ==
  ASSUME NEW g, NEW u, NEW to, NEW h, IsMoved(g, u, to, h), NEW m \in Nat, \A n \in DOMAIN g.args : OpOf(n) <= m,
         NEW b, NEW op, NEW start \in Cores(g)
  PROVE  GetDef(h, b, start, op) = GetDef(g, b, start, op)
<1>1. Sound(g, {}) /\ Sound(h, {}) /\ DOMAIN h.args = DOMAIN g.args
  BY DEF IsMoved
<1>2. PICK w : IsWalk(w, g, Stops(g, b, op), DOMAIN g.args) /\ \A n : GetDef(g, b, n, op) = w[n]
  BY <1>1, GetDefWalks
<1>3. PICK v : IsWalk(v, h, Stops(h, b, op), DOMAIN g.args) /\ \A n : GetDef(h, b, n, op) = v[n]
  BY <1>1, GetDefWalks
<1> DEFINE S == Stops(g, b, op)
           T == Stops(h, b, op)
<1>4. \A n \in Cores(g) : n \in S <=> n \in T
  BY StopsSame, MovedSame
<1>5. \A n \in DOMAIN g.args : Dominator(g, n) = None => n \in S
  BY DEF Stops
<1> HIDE DEF S, T
<1>6. w[start] = v[start]
  BY <1>2, <1>3, <1>4, <1>5, WalkMoved DEF S, T
<1> QED BY <1>2, <1>3, <1>6

\* getDef from where it ended.
LEMMA GetDefStays ==
  ASSUME NEW g, Sound(g, {}), NEW m \in Nat, \A n \in DOMAIN g.args : OpOf(n) <= m,
         NEW b, NEW op, NEW n \in Stops(g, b, op)
  PROVE  GetDef(g, b, n, op) = n
<1>1. PICK w : IsWalk(w, g, Stops(g, b, op), DOMAIN g.args) /\ \A x : GetDef(g, b, x, op) = w[x]
  BY GetDefWalks
<1>2. n \in DOMAIN g.args
  BY DEF Stops
<1>3. w[n] = n
  BY <1>1, <1>2 DEF IsWalk
<1> QED BY <1>1, <1>3

\* Whether optimizeUses moves a use.
Moves(g, b, n) == GetDef(g, b, Dominator(g, n), b[OpOf(n)]) # Dominator(g, n)

LEMMA UseDominator ==
  ASSUME NEW g, Sound(g, {}), NEW n \in Live(g), Type(n) = "Use"
  PROVE  n \in DOMAIN g.args /\ Dominator(g, n) \in Cores(g)
<1>1. n \in DOMAIN g.args /\ None \notin DOMAIN g.args
  BY GraphTypes DEF Sound
<1>2. NodeFine(g, n) /\ Settled(g, n) /\ n # Root /\ Arity(n) = 1 /\ ~IsCore(n)
  BY <1>1 DEF Sound, Root, Type, Arity, IsCore, Core
<1>3. Dominator(g, n) # None
  BY <1>2 DEF Dominator, Settled, NodeFine
<1> QED BY <1>1, <1>3, DominatorBefore DEF Before, Cores

\* After a use has moved it stays, and the others move if they would have.
LEMMA MovedOnce ==
  ASSUME NEW b, NEW kept, NEW g, GraphOf(b, kept, g), Len(b) \in Nat, NEW u \in Live(g), Type(u) = "Use",
         NEW to, to = GetDef(g, b, Dominator(g, u), b[OpOf(u)]),
         NEW h, h = SetArgument(g, u, 1, to)
  PROVE  /\ Live(h) = Live(g)
         /\ ~Moves(h, b, u)
         /\ \A v \in Live(g) : Type(v) = "Use" /\ v # u => (Moves(h, b, v) <=> Moves(g, b, v))
<1> DEFINE m == Len(b)
           d == Dominator(g, u)
           op == b[OpOf(u)]
<1>1. Sound(g, {}) /\ (\A n \in DOMAIN g.args : OpOf(n) <= m) /\ m \in Nat
  BY DEF GraphOf
<1>2. u \in DOMAIN g.args /\ d \in Cores(g)
  BY <1>1, UseDominator
<1>3. to \in Cores(g) /\ to \in Stops(g, b, op)
  <2> HIDE DEF m, op, d
  <2>1. to = GetDef(g, b, d, op)
    BY DEF d, op
  <2>2. d \in DOMAIN g.args /\ IsCore(d)
    BY <1>2 DEF Cores
  <2>3. to \in DOMAIN g.args /\ IsCore(to) /\ to \in Stops(g, b, op)
    BY <1>1, <2>1, <2>2, DefFound
  <2> QED BY <2>3 DEF Cores
<1> HIDE DEF m, op, d
<1>4. IsSet(g, {}, u, 1, to, h)
  <2>1. NodeFine(g, u) /\ Arity(u) = 1 /\ ~IsCore(u) /\ None \notin DOMAIN g.args
    <3>1. NodeFine(g, u) /\ None \notin DOMAIN g.args
      BY <1>1, <1>2, GraphTypes DEF Sound
    <3>2. u # Root /\ Arity(u) = 1 /\ ~IsCore(u)
      BY DEF Root, Type, Arity, IsCore, Core
    <3> QED BY <3>1, <3>2
  <2>2. 1 \in DOMAIN g.args[u] /\ MayUse(u, to) /\ to \in DOMAIN g.args /\ to # None
    BY <1>3, <2>1 DEF NodeFine, MayUse, Before, Cores
  <2>3. CanSet(g, {}, u, 1, to)
    BY <1>1, <1>2, <2>2 DEF CanSet
  <2> QED BY <2>3, OneSet
<1>5. IsMoved(g, u, to, h)
  BY <1>1, <1>2, <1>3, <1>4, FiniteNodes DEF IsSet, IsMoved
<1>6. Live(h) = Live(g)
  BY <1>4 DEF IsSet, SameNodes, Live
<1>7. Dominator(h, u) = to /\ \A v \in DOMAIN g.args : v # u => Dominator(h, v) = Dominator(g, v)
  BY <1>5, DominatorMoved
<1>8. GetDef(h, b, to, op) = to
  <2>1. GetDef(g, b, to, op) = to
    BY <1>1, <1>3, GetDefStays
  <2> QED BY <1>1, <1>3, <1>5, <2>1, GetDefMoved
<1>9. ~Moves(h, b, u)
  BY <1>7, <1>8 DEF Moves, op
<1>10. ASSUME NEW v \in Live(g), Type(v) = "Use", v # u PROVE Moves(h, b, v) <=> Moves(g, b, v)
  <2>1. v \in DOMAIN g.args /\ Dominator(g, v) \in Cores(g)
    BY <1>1, <1>10, UseDominator
  <2>2. Dominator(h, v) = Dominator(g, v)
    BY <1>7, <1>10, <2>1
  <2>3. GetDef(h, b, Dominator(g, v), b[OpOf(v)]) = GetDef(g, b, Dominator(g, v), b[OpOf(v)])
    BY <1>1, <1>5, <2>1, GetDefMoved
  <2> QED BY <2>2, <2>3 DEF Moves
<1> QED BY <1>6, <1>9, <1>10

(***************************************************************************)
(* Nothing is repeated without an erasure.                                 *)
(***************************************************************************)

\* While nothing has been erased since the graph was built, the functions have
\* changed nothing after the constructor of the analysis has moved the uses, and no
\* use that it has visited would move again.
RInv ==
  phase = "optimize" =>
    /\ changed = [round |-> changed.round, any |-> changed.any, of |-> changed.of]
    /\ there \subseteq changed.of
    /\ there = changed.of =>
         /\ ~changed.any /\ ~changed.round
         /\ \A n \in Live(graph) :
              Type(n) = "Use" /\ (pass = 1 => n \notin Range(left)) => ~Moves(graph, body, n)

LEMMA UseMovesIs ==
  ASSUME IsGraph(graph), NEW n
  PROVE  UseMoves(n) <=> n \in Live(graph) /\ Type(n) = "Use" /\ Moves(graph, body, n)
<1>1. IsLive(graph, n) <=> n \in Live(graph)
  <2>1. graph.nodes \in Seq(DOMAIN graph.args)
    BY DEF IsGraph
  <2> QED BY <2>1, LenProperties DEF IsLive, Contains, Range, Live
<1> QED BY <1>1 DEF UseMoves, Nearest, Moves

\* The elements that FirstWith goes over would not move, but the one it stops at.
LEMMA PassedBy ==
  ASSUME IsSeq(left), FirstWith(UseMoves), NEW n \in Range(left), n \notin Range(left'), n # Current
  PROVE  ~UseMoves(n)
<1> DEFINE i == CHOOSE j \in DOMAIN left : UseMoves(left[j]) /\ \A k \in 1 .. j - 1 : ~UseMoves(left[k])
           T == {j \in DOMAIN left : UseMoves(left[j])}
<1>1. left' = SubSeq(left, i + 1, Len(left)) /\ T # {}
  BY DEF FirstWith
<1>2. DOMAIN left = 1 .. Len(left) /\ Len(left) \in Nat
  BY LenProperties DEF IsSeq
<1>3. \E j \in DOMAIN left : UseMoves(left[j]) /\ \A k \in 1 .. j - 1 : ~UseMoves(left[k])
  <2>1. T \in SUBSET Nat /\ T # {}
    BY <1>1, <1>2
  <2>2. PICK j \in T : \A k \in T : j <= k
    <3> HIDE DEF T
    <3> QED BY <2>1, LeastExists
  <2>3. \A k \in 1 .. j - 1 : k \in DOMAIN left /\ k \notin T
    BY <1>2, <2>2
  <2> QED BY <2>2, <2>3
<1>4. i \in DOMAIN left /\ \A k \in 1 .. i - 1 : ~UseMoves(left[k])
  BY <1>3
<1> HIDE DEF i
<1>5. left[Len(left) - Len(left')] = left[i] /\ IsSeq(left')
  BY <1>1, <1>4, RestOf
<1>6. n # left[i]
  BY <1>5 DEF Current
<1>7. PICK j \in DOMAIN left : n = left[j]
  BY DEF Range
<1>8. ~(i < j)
  <2> SUFFICES ASSUME i < j PROVE FALSE
    OBVIOUS
  <2> DEFINE len == Len(left)
             e == Range(left)
  <2>1. i + 1 \in Int /\ len \in Int /\ \A k \in i + 1 .. len : left[k] \in e
    BY <1>2, <1>4 DEF Range
  <2> HIDE DEF len, e
  <2>2. /\ SubSeq(left, i + 1, len) \in Seq(e)
        /\ Len(SubSeq(left, i + 1, len)) = IF i + 1 <= len THEN len - (i + 1) + 1 ELSE 0
        /\ \A k \in 1 .. len - (i + 1) + 1 : SubSeq(left, i + 1, len)[k] = left[(i + 1) + k - 1]
    BY <2>1, SubSeqProperties
  <2>3. left' = SubSeq(left, i + 1, len)
    BY <1>1 DEF len
  <2>4. j \in 1 .. len /\ i \in 1 .. len /\ len \in Nat
    BY <1>2, <1>4, <1>7 DEF len
  <2>5. i + 1 <= len /\ len - (i + 1) + 1 = len - i /\ j - i \in 1 .. len - i /\ (i + 1) + (j - i) - 1 = j
    BY <2>4
  <2>6. left'[j - i] = left[j] /\ Len(left') = len - i
    BY <2>2, <2>3, <2>5
  <2>7. DOMAIN left' = 1 .. len - i
    BY <1>5, <2>6, LenProperties DEF IsSeq
  <2>8. left[j] \in Range(left')
    BY <2>5, <2>6, <2>7 DEF Range
  <2> QED BY <1>7, <2>8
<1>9. j \in 1 .. i - 1
  BY <1>2, <1>4, <1>6, <1>7, <1>8
<1> QED BY <1>4, <1>7, <1>9

\* The record of what has changed.
LEMMA ChangedSet ==
  ASSUME NEW c, c = [round |-> c.round, any |-> c.any, of |-> c.of], NEW t,
         t = [c EXCEPT !.round = TRUE, !.any = TRUE] \/ t = [c EXCEPT !.round = FALSE]
  PROVE  /\ t = [round |-> t.round, any |-> t.any, of |-> t.of] /\ t.of = c.of
         /\ t = [c EXCEPT !.round = FALSE] => t.any = c.any /\ ~t.round
<1>1. CASE t = [c EXCEPT !.round = TRUE, !.any = TRUE]
  <2>1. t = [round |-> TRUE, any |-> TRUE, of |-> c.of]
    BY <1>1
  <2> QED BY <2>1
<1>2. CASE t = [c EXCEPT !.round = FALSE]
  <2>1. t = [round |-> FALSE, any |-> c.any, of |-> c.of]
    BY <1>2
  <2> QED BY <2>1
<1> QED BY <1>1, <1>2

LEMMA OptimizeUseRepeats ==
  ASSUME IInv, RInv, OptimizeUse
  PROVE  RInv'
<1> DEFINE n == Current
<1>1. /\ phase = "optimize" /\ phase' = "optimize" /\ FirstWith(UseMoves)
      /\ graph' = SetArgument(graph, n, 1, Nearest(n))
      /\ UNCHANGED <<body, there, pass>>
  BY DEF OptimizeUse, Running
<1>2. UseMoves(n) /\ IsSeq(left) /\ IsSeq(left')
  BY <1>1, FirstUse DEF IInv
<1>3. GraphOf(body, there, graph) /\ Sound(graph, {}) /\ IsGraph(graph) /\ Len(body) \in Nat
  BY <1>1, LenProperties DEF IInv, GraphOf, Sound, IsSeq
<1>4. n \in Live(graph) /\ Type(n) = "Use" /\ Moves(graph, body, n)
  BY <1>2, <1>3, UseMovesIs
<1>5. /\ changed = [round |-> changed.round, any |-> changed.any, of |-> changed.of]
      /\ there \subseteq changed.of
      /\ there = changed.of =>
           /\ ~changed.any /\ ~changed.round
           /\ \A v \in Live(graph) :
                Type(v) = "Use" /\ (pass = 1 => v \notin Range(left)) => ~Moves(graph, body, v)
  BY <1>1 DEF RInv
<1>6. CASE there # changed.of
  <2>1. changed' = changed \/ changed' = [round |-> TRUE, any |-> TRUE, of |-> changed.of]
    BY <1>5, ChangedSet DEF OptimizeUse
  <2>2. /\ changed' = [round |-> changed'.round, any |-> changed'.any, of |-> changed'.of]
        /\ changed'.of = changed.of
    BY <1>5, <2>1
  <2> QED BY <1>1, <1>5, <1>6, <2>2 DEF RInv
<1>7. CASE there = changed.of
  <2>1. pass = 1
    BY <1>4, <1>5, <1>7
  <2>2. changed' = changed
    <3>1. Running("constructor")
      BY <1>1, <2>1 DEF Running, Passes
    <3> QED BY <3>1 DEF OptimizeUse
  <2>3. Nearest(n) = GetDef(graph, body, Dominator(graph, n), body[OpOf(n)])
    BY DEF Nearest
  <2> DEFINE to == Nearest(n)
             h == graph'
  <2>4. to = GetDef(graph, body, Dominator(graph, n), body[OpOf(n)]) /\ h = SetArgument(graph, n, 1, to)
    BY <1>1, <2>3
  <2>5. n = Current
    OBVIOUS
  <2> HIDE DEF to, h, n
  <2>6. /\ Live(h) = Live(graph) /\ ~Moves(h, body, n)
        /\ \A v \in Live(graph) : Type(v) = "Use" /\ v # n => (Moves(h, body, v) <=> Moves(graph, body, v))
    BY <1>3, <1>4, <2>4, MovedOnce
  <2>7. ASSUME NEW v \in Live(h), Type(v) = "Use", v \notin Range(left') PROVE ~Moves(h, body, v)
    <3>1. CASE v = n
      BY <2>6, <3>1
    <3>2. CASE v # n
      <4>1. CASE v \notin Range(left)
        BY <1>5, <1>7, <2>6, <2>7, <3>2, <4>1
      <4>2. CASE v \in Range(left)
        <5>1. ~UseMoves(v)
          BY <1>1, <1>2, <2>5, <2>7, <3>2, <4>2, PassedBy
        <5>2. ~Moves(graph, body, v)
          BY <1>3, <2>6, <2>7, <5>1, UseMovesIs
        <5> QED BY <2>6, <2>7, <3>2, <5>2
      <4> QED BY <4>1, <4>2
    <3> QED BY <3>1, <3>2
  <2>8. h = graph'
    BY DEF h
  <2> HIDE DEF h
  <2>9. \A v \in Live(graph') : Type(v) = "Use" /\ (pass' = 1 => v \notin Range(left')) => ~Moves(graph', body', v)
    BY <1>1, <2>1, <2>7, <2>8
  <2> QED BY <1>1, <1>5, <1>7, <2>2, <2>9 DEF RInv
<1> QED BY <1>6, <1>7

LEMMA BuildRepeats ==
  ASSUME IInv, Build
  PROVE  RInv'
<1>1. /\ pass' = 1 /\ left' = graph'.nodes /\ there' = there
      /\ changed' = [round |-> FALSE, any |-> FALSE, of |-> there]
  BY DEF Build
<1>2. Live(graph') = Range(left')
  BY <1>1 DEF Live
<1> QED BY <1>1, <1>2 DEF RInv

\* An erasure makes fewer operations.
LEMMA ErasedRepeats ==
  ASSUME RInv, phase = "optimize", there' \subseteq there, there' # there,
         changed' = [changed EXCEPT !.round = TRUE, !.any = TRUE]
  PROVE  RInv'
<1>1. changed = [round |-> changed.round, any |-> changed.any, of |-> changed.of] /\ there \subseteq changed.of
  BY DEF RInv
<1>2. changed' = [round |-> TRUE, any |-> TRUE, of |-> changed.of]
  BY <1>1, ChangedSet
<1>3. changed' = [round |-> changed'.round, any |-> changed'.any, of |-> changed'.of] /\ changed'.of = changed.of
  BY <1>2
<1>4. there' \subseteq changed'.of /\ there' # changed'.of
  BY <1>1, <1>3
<1> QED BY <1>3, <1>4 DEF RInv

LEMMA FoldLoadRepeats ==
  ASSUME IInv, RInv, FoldLoad
  PROVE  RInv'
<1> DEFINE n == Current
<1>1. /\ phase = "optimize" /\ FirstWith(LoadFolds) /\ there' = there \ {OpOf(n)}
      /\ changed' = [changed EXCEPT !.round = TRUE, !.any = TRUE]
  BY DEF FoldLoad, Running
<1>2. LoadFolds(n)
  BY <1>1, FirstFold DEF IInv
<1> HIDE DEF n
<1>3. GraphOf(body, there, graph) /\ IsGraph(graph)
  BY DEF IInv, GraphOf, Sound
<1>4. OpOf(n) \in there
  BY <1>2, <1>3, LiveNode DEF LoadFolds, GraphOf
<1> QED BY <1>1, <1>4, ErasedRepeats

LEMMA EraseDeadStoreRepeats ==
  ASSUME IInv, RInv, EraseDeadStore
  PROVE  RInv'
<1> DEFINE n == Current
<1>1. /\ phase = "optimize" /\ FirstWith(StoreDies) /\ there' = there \ {OpOf(n)}
      /\ changed' = [changed EXCEPT !.round = TRUE, !.any = TRUE]
  BY DEF EraseDeadStore, Running
<1>2. StoreDies(n)
  BY <1>1, FirstDead DEF IInv
<1> HIDE DEF n
<1>3. GraphOf(body, there, graph) /\ IsGraph(graph)
  BY DEF IInv, GraphOf, Sound
<1>4. OpOf(n) \in there
  BY <1>2, <1>3, LiveNode DEF StoreDies, GraphOf
<1> QED BY <1>1, <1>4, ErasedRepeats

LEMMA LoadCSERepeats ==
  ASSUME IInv, RInv, LoadCSE
  PROVE  RInv'
<1> DEFINE n == Current
<1>1. /\ phase = "optimize" /\ FirstWith(LoadsMerge) /\ there' = CseAt(n).there
      /\ changed' = [changed EXCEPT !.round = TRUE, !.any = TRUE]
  BY DEF LoadCSE, Running
<1>2. LoadsMerge(n)
  BY <1>1, FirstMerge DEF IInv
<1> HIDE DEF n
<1>3. CseAt(n).there # there
  BY <1>2 DEF LoadsMerge
<1>4. CseAt(n).there \subseteq there
  BY <1>1, <1>2, CseDone DEF CseState
<1> QED BY <1>1, <1>3, <1>4, ErasedRepeats

LEMMA PassEndsRepeats ==
  ASSUME IInv, RInv, PassEnds
  PROVE  /\ RInv'
         /\ phase' = "build" => there # changed.of
<1>1. /\ phase = "optimize" /\ UNCHANGED <<body, there, graph>>
      /\ pass' = IF pass = Len(Passes) THEN 2 ELSE pass + 1
      /\ changed' = IF pass = Len(Passes) THEN [changed EXCEPT !.round = FALSE] ELSE changed
      /\ phase' = "build" => changed.any
  BY DEF PassEnds
<1>2. /\ changed = [round |-> changed.round, any |-> changed.any, of |-> changed.of]
      /\ there \subseteq changed.of
      /\ there = changed.of =>
           /\ ~changed.any /\ ~changed.round
           /\ \A v \in Live(graph) :
                Type(v) = "Use" /\ (pass = 1 => v \notin Range(left)) => ~Moves(graph, body, v)
  BY <1>1 DEF RInv
<1>3. pass' # 1
  <2>1. pass \in 1 .. 5 /\ Len(Passes) = 5
    BY DEF IInv, Passes
  <2> QED BY <1>1, <2>1
<1>4. changed' = changed \/ changed' = [round |-> FALSE, any |-> changed.any, of |-> changed.of]
  BY <1>1, <1>2, ChangedSet
<1>5. /\ changed' = [round |-> changed'.round, any |-> changed'.any, of |-> changed'.of]
      /\ changed'.of = changed.of /\ changed'.any = changed.any
      /\ changed'.round => changed.round
  BY <1>2, <1>4
<1>6. ASSUME there = changed.of, NEW v \in Live(graph), Type(v) = "Use" PROVE ~Moves(graph, body, v)
  <2>1. CASE pass # 1 \/ v \notin Range(left)
    BY <1>2, <1>6, <2>1
  <2>2. CASE pass = 1 /\ v \in Range(left)
    <3>1. NoneWith(UseMoves)
      <4>1. /\ Running("constructor") /\ ~Running("optimizeUses") /\ ~Running("foldLoads")
            /\ ~Running("deadStoreElemination") /\ ~Running("loadCSE")
        BY <1>1, <2>2 DEF Running, Passes
      <4> QED BY <4>1 DEF PassEnds
    <3>2. ~UseMoves(v)
      BY <2>2, <3>1 DEF NoneWith, Range
    <3>3. IsGraph(graph)
      BY DEF IInv, GraphOf, Sound
    <3> QED BY <1>6, <3>2, <3>3, UseMovesIs
  <2> QED BY <2>1, <2>2
<1>7. RInv'
  BY <1>1, <1>2, <1>3, <1>5, <1>6 DEF RInv
<1> QED BY <1>1, <1>2, <1>7

LEMMA OthersRepeat ==
  ASSUME IInv, RInv, Write \/ Written \/ Execute \/ Ended \/ UNCHANGED vars
  PROVE  RInv'
<1>1. CASE Write \/ Written \/ Execute
  <2>1. phase' # "optimize"
    BY <1>1 DEF Write, Written, Execute, Start, Load, Store, Overwrite, Branch, End, Finish, RunOnly, Executing
  <2> QED BY <2>1 DEF RInv
<1>2. CASE Ended \/ UNCHANGED vars
  BY <1>2 DEF Ended, vars, optVars, RInv
<1> QED BY <1>1, <1>2

\* applyOptimizations repeats optimizeMemoryOps, with a new analysis, only after an
\* operation was erased: in a graph as it was built the constructor of the analysis
\* has left no use to move, whatever the body (memory_rewrites.cpp, memory_ssa.cpp).
THEOREM RepeatsHold == Spec => RepeatsAfterErasure
<1> DEFINE Step == phase = "optimize" /\ phase' = "build" => there # changed.of
<1>1. Init => RInv
  BY DEF Init, RInv
<1>2. IInv /\ RInv /\ [Next]_vars => RInv' /\ [Step]_vars
  <2> SUFFICES ASSUME IInv, RInv, [Next]_vars PROVE RInv' /\ [Step]_vars
    OBVIOUS
  <2>1. CASE Build
    BY <2>1, BuildRepeats DEF Build
  <2>2. CASE OptimizeUse
    BY <2>2, OptimizeUseRepeats DEF OptimizeUse
  <2>3. CASE FoldLoad
    BY <2>3, FoldLoadRepeats DEF FoldLoad
  <2>4. CASE EraseDeadStore
    BY <2>4, EraseDeadStoreRepeats DEF EraseDeadStore
  <2>5. CASE LoadCSE
    BY <2>5, LoadCSERepeats DEF LoadCSE
  <2>6. CASE PassEnds
    BY <2>6, PassEndsRepeats
  <2>7. CASE Write \/ Written \/ Execute \/ Ended \/ UNCHANGED vars
    <3>1. phase # "optimize" \/ UNCHANGED vars
      BY <2>7 DEF Write, Written, Execute, Start, Load, Store, Overwrite, Branch, End, Finish, Executing, Ended
    <3> QED BY <2>7, <3>1, OthersRepeat
  <2> QED BY <2>1, <2>2, <2>3, <2>4, <2>5, <2>6, <2>7 DEF Next, Optimize
<1>3. IInv /\ RInv /\ [Next]_vars => RInv'
  BY <1>2
<1>4. IInv /\ RInv /\ [Next]_vars => [Step]_vars
  BY <1>2
<1>5. Spec => []IInv
  BY InvHolds
<1>6. Spec => []RInv
  BY <1>1, <1>3, <1>5, PTL DEF Spec
<1>7. Spec => [][Step]_vars
  BY <1>4, <1>5, <1>6, PTL DEF Spec
<1> QED BY <1>7 DEF RepeatsAfterErasure
==============================================================================
