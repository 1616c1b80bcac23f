----------------------- MODULE PipelineRegistryProofs -----------------------
(***************************************************************************)
(* Theorems about PipelineRegistry, for every set of names and every       *)
(* sequence of registrations: the depth-first sort is a topological sort,  *)
(* it only refuses what has to be refused, and the stages that the order   *)
(* is cut into serve every jump.                                           *)
(***************************************************************************)
EXTENDS PipelineRegistry, SequenceTheorems, WellFoundedInduction, TLAPS

(***************************************************************************)
(* The inductive invariant.                                                *)
(***************************************************************************)

\* TypeOK of everything the sort works with.
SortTypeOK ==
  /\ phase \in {"register", "sort", "done", "error", "aborted"}
  /\ calls \in Seq(Declarations)
  /\ ordered \subseteq Pipelines
  /\ known \subseteq ordered
  /\ prev \in [Pipelines -> SUBSET Pipelines]
  /\ next \in [Pipelines -> SUBSET Pipelines]
  /\ jumps \in [Pipelines -> SUBSET Pipelines]
  /\ roots \subseteq Pipelines
  /\ visited \subseteq Pipelines
  /\ stack \in Seq(Pipelines)
  /\ todo \in [Pipelines -> SUBSET Pipelines]
  /\ order \in Seq(Pipelines)

Sorting == phase \in {"sort", "done"}

Injective(s) == \A i, j \in DOMAIN s : s[i] = s[j] => i = j

\* Nothing has been visited while calls of sink are handled.
NotStarted == phase = "register" => stack = << >> /\ order = << >> /\ visited = {}

\* Names come into a dependency on either side only together with ordered.
Mentioned ==
  \A n \in Pipelines :
    /\ prev[n] \cup next[n] \subseteq ordered
    /\ prev[n] \cup next[n] # {} => n \in ordered

\* After LinkDeps the two sides agree, and every name has a registration.
Linked ==
  Sorting =>
    /\ ordered \subseteq known
    /\ \A n, m \in Pipelines : n \in next[m] <=> m \in prev[n]

\* A visited pipeline is either in the order or being visited, and only once.
Partition ==
  /\ Injective(order)
  /\ Injective(stack)
  /\ visited = Members(order) \cup Members(stack)
  /\ Members(order) \cap Members(stack) = {}

\* The loop over the ordered set reaches every name.
Covered ==
  Sorting =>
    /\ visited \subseteq ordered
    /\ ordered \subseteq visited \cup roots
    /\ roots \subseteq ordered
    /\ phase = "done" => stack = << >> /\ roots = {}

\* The predecessors that a visit is done with are in the order already.
Worklist ==
  Sorting =>
    \A n \in Pipelines :
      /\ todo[n] \subseteq prev[n]
      /\ n \notin visited => todo[n] = prev[n]
      /\ prev[n] \ todo[n] \subseteq Members(order)

\* Every predecessor of a pipeline in the order is in front of it.
Sorted ==
  Sorting =>
    \A i \in DOMAIN order : \A p \in prev[order[i]] : \E j \in 1 .. i - 1 : order[j] = p

\* The ranks that would prove the dependencies satisfiable.
Respects(rank) == \A n \in ordered : \A p \in prev[n] : rank[p] < rank[n]
Ranks == {r \in [ordered -> 1 .. Cardinality(ordered)] : Respects(r)}

\* The active visits are a path of predecessors: any rank falls along it.
Descends ==
  Sorting =>
    \A rank \in Ranks : \A i, j \in DOMAIN stack : i < j => rank[stack[j]] < rank[stack[i]]

RegistryInv ==
  /\ SortTypeOK
  /\ NotStarted
  /\ Mentioned
  /\ Linked
  /\ Partition
  /\ Covered
  /\ Worklist
  /\ Sorted
  /\ Descends
  /\ RefusedFor

(***************************************************************************)
(* Sequences without repetitions.                                          *)
(***************************************************************************)

\* Appending a new member.
LEMMA AppendMember ==
  ASSUME NEW S, NEW s \in Seq(S), NEW e \in S
  PROVE  /\ Members(Append(s, e)) = Members(s) \cup {e}
         /\ Injective(s) /\ e \notin Members(s) => Injective(Append(s, e))
<1> DEFINE t == Append(s, e)
<1>1. /\ t \in Seq(S)
      /\ Len(t) = Len(s) + 1
      /\ \A i \in 1 .. Len(s) : t[i] = s[i]
      /\ t[Len(s) + 1] = e
  BY AppendProperties
<1>2. DOMAIN t = 1 .. Len(s) + 1 /\ DOMAIN s = 1 .. Len(s) /\ Len(s) \in Nat
  BY <1>1, LenProperties
<1> HIDE DEF t
<1>3. Members(t) = Members(s) \cup {e}
  BY <1>1, <1>2 DEF Members
<1>4. ASSUME Injective(s), e \notin Members(s) PROVE Injective(t)
  BY <1>1, <1>2, <1>4 DEF Members, Injective
<1> QED BY <1>3, <1>4 DEF t

\* Dropping the last member.
LEMMA DropLast ==
  ASSUME NEW S, NEW s \in Seq(S), s # << >>, Injective(s)
  PROVE  LET r == SubSeq(s, 1, Len(s) - 1)
             last == s[Len(s)]
         IN  /\ r \in Seq(S)
             /\ last \in S
             /\ last \in Members(s)
             /\ DOMAIN r \subseteq DOMAIN s
             /\ \A i \in DOMAIN r : r[i] = s[i]
             /\ Injective(r)
             /\ Members(r) = Members(s) \ {last}
<1> DEFINE r == SubSeq(s, 1, Len(s) - 1)
<1>1. DOMAIN s = 1 .. Len(s) /\ Len(s) \in Nat \ {0} /\ \A i \in 1 .. Len(s) : s[i] \in S
  BY LenProperties, EmptySeq, ElementOfSeq
<1>2. r \in Seq(S) /\ Len(r) = Len(s) - 1 /\ \A i \in 1 .. Len(s) - 1 : r[i] = s[i]
  BY <1>1, SubSeqProperties
<1>3. DOMAIN r = 1 .. Len(s) - 1
  BY <1>1, <1>2, LenProperties
<1> HIDE DEF r
<1>4. Injective(r)
  BY <1>1, <1>2, <1>3 DEF Injective
<1>5. s[Len(s)] \in Members(s)
  BY <1>1 DEF Members
<1>6. Members(r) = Members(s) \ {s[Len(s)]}
  BY <1>1, <1>2, <1>3 DEF Members, Injective
<1> QED BY <1>1, <1>2, <1>3, <1>4, <1>5, <1>6 DEF r

\* A set of names has a first one.
LEMMA LeastExists ==
  ASSUME NEW S \in SUBSET Nat, S # {}
  PROVE  \E n \in S : \A m \in S : n <= m
<1>1. IsWellFoundedOn(OpToRel(<, Nat), Nat)
  BY NatLessThanWellFounded
<1>2. PICK n \in S : \A m \in S : ~(<<m, n>> \in OpToRel(<, Nat))
  BY <1>1, WFMin
<1>3. ASSUME NEW m \in S PROVE n <= m
  <2>1. ~(m < n)
    BY <1>2 DEF OpToRel
  <2> QED BY <2>1
<1> QED BY <1>3

\* What holds of the innermost active visit.
LEMMA TopOfStack ==
  ASSUME SortTypeOK, stack # << >>
  PROVE  Len(stack) \in Nat \ {0} /\ DOMAIN stack = 1 .. Len(stack)
         /\ Top \in Pipelines /\ Top \in Members(stack)
BY LenProperties, EmptySeq, ElementOfSeq DEF SortTypeOK, Top, Members

\* The ranks depend on the dependencies only.
LEMMA RanksKept == UNCHANGED <<ordered, prev>> => Ranks' = Ranks
BY DEF Ranks, Respects

(***************************************************************************)
(* Each action keeps the invariant.                                        *)
(***************************************************************************)

\* No sink call has been handled.
LEMMA InitRegistry == Init => RegistryInv
<1> SUFFICES ASSUME Init PROVE RegistryInv
  OBVIOUS
<1>1. SortTypeOK
  BY RegistrationsAssumption, EmptySeq DEF Init, SortTypeOK, NoPipelines
<1>2. Partition
  BY DEF Init, Partition, Injective, Members
<1>3. Mentioned
  BY DEF Init, Mentioned, NoPipelines
<1> QED
  BY <1>1, <1>2, <1>3
  DEF Init, RegistryInv, NotStarted, Linked, Covered, Worklist, Sorted, Descends,
      Sorting, RefusedFor

\* A sink call adds its names to ordered together with its dependencies.
LEMMA RegisterKeeps == RegistryInv /\ Register => RegistryInv'
<1> SUFFICES ASSUME RegistryInv, Register PROVE RegistryInv'
  OBVIOUS
<1> USE DEF RegistryInv
<1> DEFINE call == Head(calls)
<1>1. call \in Declarations /\ Tail(calls) \in Seq(Declarations)
  BY HeadTailProperties DEF Register, SortTypeOK
<1>2. /\ call.name \in Pipelines
      /\ call.prev \subseteq Pipelines
      /\ call.next \subseteq Pipelines
      /\ call.jumps \subseteq Pipelines
  BY <1>1 DEF Declarations
<1> HIDE DEF call
<1>3. CASE call.name \in known
  BY <1>3
  DEF Register, Fail, call, deps, walk, SortTypeOK, NotStarted, Mentioned, Linked, Partition,
      Covered, Worklist, Sorted, Descends, Sorting, RefusedFor
<1>4. CASE call.name \notin known
  <2>1. /\ phase' = "register" /\ phase = "register"
        /\ calls' = Tail(calls)
        /\ ordered' = ordered \cup {call.name} \cup call.prev \cup call.next
        /\ known' = known \cup {call.name}
        /\ prev' = [prev EXCEPT ![call.name] = call.prev]
        /\ next' = [next EXCEPT ![call.name] = call.next]
        /\ jumps' = [jumps EXCEPT ![call.name] = call.jumps]
        /\ UNCHANGED <<roots, visited, stack, todo, order>>
    BY <1>4 DEF Register, call, walk
  <2>2. SortTypeOK'
    BY <1>1, <1>2, <2>1 DEF SortTypeOK
  <2>3. Mentioned'
    BY <1>2, <2>1 DEF SortTypeOK, Mentioned
  <2> QED
    BY <2>1, <2>2, <2>3
    DEF NotStarted, Linked, Partition, Covered, Worklist, Sorted, Descends, Sorting,
        RefusedFor
<1> QED BY <1>3, <1>4

\* Making the dependencies bidirectional keeps them among the ordered names.
LEMMA LinkDepsKeeps == RegistryInv /\ LinkDeps => RegistryInv'
<1> SUFFICES ASSUME RegistryInv, LinkDeps PROVE RegistryInv'
  OBVIOUS
<1> USE DEF RegistryInv
<1>1. CASE ~(ordered \subseteq known)
  BY <1>1
  DEF LinkDeps, Fail, SortTypeOK, NotStarted, Mentioned, Linked, Partition, Covered, Worklist,
      Sorted, Descends, Sorting, RefusedFor
<1>2. CASE ordered \subseteq known
  <2>1. /\ phase' = "sort" /\ phase = "register"
        /\ prev' = [n \in Pipelines |-> prev[n] \cup {m \in Pipelines : n \in next[m]}]
        /\ next' = [n \in Pipelines |-> next[n] \cup {m \in Pipelines : n \in prev[m]}]
        /\ todo' = prev'
        /\ roots' = ordered
        /\ UNCHANGED <<calls, ordered, known, jumps, visited, stack, order, stages>>
    BY <1>2 DEF LinkDeps
  <2>2. stack = << >> /\ order = << >> /\ visited = {}
    BY <2>1 DEF NotStarted
  <2>3. SortTypeOK'
    BY <2>1 DEF SortTypeOK
  <2>4. Mentioned'
    BY <2>1 DEF SortTypeOK, Mentioned
  <2>5. Linked'
    BY <1>2, <2>1 DEF SortTypeOK, Linked
  <2>6. Covered' /\ Worklist' /\ Sorted' /\ Descends' /\ Partition'
    BY <2>1, <2>2 DEF SortTypeOK, Partition, Covered, Worklist, Sorted, Descends
  <2> QED
    BY <2>1, <2>3, <2>4, <2>5, <2>6 DEF NotStarted, RefusedFor
<1> QED BY <1>1, <1>2

\* A root that was not visited starts a path of its own.
LEMMA VisitRootKeeps == RegistryInv /\ VisitRoot => RegistryInv'
<1> SUFFICES ASSUME RegistryInv, VisitRoot PROVE RegistryInv'
  OBVIOUS
<1> USE DEF RegistryInv
<1>1. PICK n \in roots : /\ roots' = roots \ {n}
                         /\ visited' = visited \cup {n}
                         /\ stack' = IF n \in visited THEN << >> ELSE <<n>>
  <2>1. \E n \in roots : \A m \in roots : n <= m
    BY NamesAssumption, LeastExists DEF VisitRoot, SortTypeOK
  <2> QED BY <2>1 DEF VisitRoot, Least
<1>2. /\ phase = "sort" /\ phase' = "sort" /\ stack = << >>
      /\ UNCHANGED <<calls, ordered, known, prev, next, jumps, todo, order, stages>>
  BY DEF VisitRoot, deps
<1>3. n \in Pipelines
  BY <1>1 DEF SortTypeOK
<1>4. Members(stack) = {} /\ visited = Members(order)
  BY <1>2 DEF Partition, Members
<1>5. /\ stack' \in Seq(Pipelines)
      /\ Members(stack') = IF n \in visited THEN {} ELSE {n}
      /\ Injective(stack')
  <2>1. CASE n \in visited
    BY <1>1, <2>1, EmptySeq DEF Members, Injective
  <2>2. CASE n \notin visited
    <3>1. stack' = <<n>>
      BY <1>1, <2>2
    <3> QED BY <1>3, <2>2, <3>1 DEF Members, Injective
  <2> QED BY <2>1, <2>2
<1>6. SortTypeOK'
  BY <1>1, <1>2, <1>3, <1>5 DEF SortTypeOK
<1>7. Partition'
  BY <1>1, <1>2, <1>4, <1>5 DEF Partition, Members
<1>8. Covered'
  BY <1>1, <1>2 DEF Covered, Sorting
<1>9. Worklist' /\ Sorted'
  BY <1>1, <1>2 DEF Worklist, Sorted, Sorting, Members
<1>10. Descends'
  <2>1. \A i, j \in DOMAIN stack' : ~(i < j)
    BY <1>1
  <2> QED BY <2>1 DEF Descends
<1> QED
  BY <1>2, <1>6, <1>7, <1>8, <1>9, <1>10
  DEF NotStarted, Mentioned, Linked, Sorting, RefusedFor

\* A predecessor that is being visited refutes every rank; one that was not
\* visited extends the path; one that was visited is in the order.
LEMMA VisitPrevKeeps == RegistryInv /\ VisitPrev => RegistryInv'
<1> SUFFICES ASSUME RegistryInv, VisitPrev PROVE RegistryInv'
  OBVIOUS
<1> USE DEF RegistryInv
<1>1. /\ phase = "sort" /\ Sorting
      /\ Len(stack) \in Nat \ {0} /\ DOMAIN stack = 1 .. Len(stack)
      /\ Top \in Pipelines /\ Top \in Members(stack)
      /\ Top = stack[Len(stack)]
  BY TopOfStack DEF VisitPrev, Sorting, Top
<1>2. /\ UNCHANGED <<calls, ordered, known, prev, next, jumps, roots, order, stages>>
  BY DEF VisitPrev, deps
<1>3. PICK p \in todo[Top] :
        \/ /\ p \in Members(stack)
           /\ phase' = "error"
           /\ UNCHANGED <<visited, stack, todo>>
        \/ /\ p \notin visited
           /\ visited' = visited \cup {p}
           /\ stack' = Append(stack, p)
           /\ UNCHANGED <<phase, todo>>
        \/ /\ p \in visited
           /\ p \notin Members(stack)
           /\ todo' = [todo EXCEPT ![Top] = @ \ {p}]
           /\ UNCHANGED <<phase, visited, stack>>
  <2>1. todo[Top] \in SUBSET Nat /\ todo[Top] # {}
    BY <1>1, NamesAssumption DEF VisitPrev, SortTypeOK
  <2>2. \E n \in todo[Top] : \A m \in todo[Top] : n <= m
    BY <2>1, LeastExists
  <2> QED BY <2>2 DEF VisitPrev, Least, Fail
<1>4. p \in Pipelines /\ p \in prev[Top] /\ Top \in ordered /\ p \in ordered
  BY <1>1 DEF SortTypeOK, Worklist, Mentioned
<1>5. ASSUME NEW rank \in Ranks PROVE rank[p] < rank[Top]
  BY <1>4 DEF Ranks, Respects
<1>6. ASSUME NEW rank \in Ranks, NEW n \in ordered PROVE rank[n] \in Int
  BY DEF Ranks
<1>7. \A i \in DOMAIN stack : stack[i] \in ordered
  BY <1>1 DEF Partition, Covered, Members
<1>8. CASE p \in Members(stack) /\ phase' = "error" /\ UNCHANGED <<visited, stack, todo>>
  <2>1. PICK i \in DOMAIN stack : stack[i] = p
    BY <1>8 DEF Members
  <2>2. ASSUME NEW rank \in Ranks PROVE FALSE
    <3>1. rank[p] < rank[Top] /\ rank[p] \in Int /\ rank[Top] \in Int
      BY <1>4, <1>5, <1>6
    <3>2. i < Len(stack) => rank[Top] < rank[p]
      BY <1>1, <2>1 DEF Descends
    <3>3. i = Len(stack) => p = Top
      BY <1>1, <2>1
    <3> QED BY <1>1, <3>1, <3>2, <3>3
  <2>3. ASSUME NEW rank \in [ordered -> 1 .. Cardinality(ordered)]
        PROVE  \E n \in ordered : \E q \in prev[n] : rank[q] >= rank[n]
    <3>1. PICK n \in ordered : \E q \in prev[n] : ~(rank[q] < rank[n])
      BY <2>2 DEF Ranks, Respects
    <3>2. PICK q \in prev[n] : ~(rank[q] < rank[n])
      BY <3>1
    <3>3. q \in ordered
      BY <3>1, <3>2 DEF Mentioned, SortTypeOK
    <3>4. rank[q] \in Int /\ rank[n] \in Int
      BY <3>3
    <3> QED BY <3>1, <3>2, <3>4
  <2>4. RefusedFor'
    BY <1>2, <2>3 DEF RefusedFor
  <2> QED
    BY <1>2, <1>8, <2>4
    DEF SortTypeOK, NotStarted, Mentioned, Linked, Partition, Covered, Worklist, Sorted,
        Descends, Sorting
<1>9. CASE /\ p \notin visited
           /\ visited' = visited \cup {p}
           /\ stack' = Append(stack, p)
           /\ UNCHANGED <<phase, todo>>
  <2>1. stack \in Seq(Pipelines) /\ Injective(stack) /\ p \notin Members(stack)
    BY <1>9 DEF SortTypeOK, Partition
  <2>2. /\ stack' \in Seq(Pipelines)
        /\ Members(stack') = Members(stack) \cup {p}
        /\ Injective(stack')
        /\ DOMAIN stack' = 1 .. Len(stack) + 1
        /\ \A i \in DOMAIN stack : stack'[i] = stack[i]
        /\ stack'[Len(stack) + 1] = p
    BY <1>1, <1>4, <1>9, <2>1, AppendMember, AppendProperties, LenProperties
  <2>3. SortTypeOK'
    BY <1>2, <1>4, <1>9, <2>2 DEF SortTypeOK
  <2>4. Partition'
    BY <1>2, <1>9, <2>2 DEF Partition, Members
  <2>5. Covered' /\ Worklist' /\ Sorted'
    BY <1>1, <1>2, <1>4, <1>9 DEF Covered, Worklist, Sorted, Sorting, Members
  <2>6. ASSUME NEW rank \in Ranks, NEW i \in DOMAIN stack', NEW j \in DOMAIN stack', i < j
        PROVE  rank[stack'[j]] < rank[stack'[i]]
    <3>1. CASE j \in DOMAIN stack
      BY <1>1, <2>2, <2>6, <3>1 DEF Descends
    <3>2. CASE j = Len(stack) + 1
      <4>1. i \in DOMAIN stack /\ stack'[i] = stack[i] /\ stack'[j] = p
        BY <1>1, <2>2, <2>6, <3>2
      <4>2. rank[Top] <= rank[stack[i]]
        <5>1. CASE i = Len(stack)
          BY <1>1, <1>6, <1>7, <4>1, <5>1
        <5>2. CASE i < Len(stack)
          <6>1. rank[Top] < rank[stack[i]]
            BY <1>1, <4>1, <5>2 DEF Descends
          <6> QED BY <1>4, <1>6, <1>7, <4>1, <6>1
        <5> QED BY <1>1, <4>1, <5>1, <5>2
      <4>3. rank[p] \in Int /\ rank[Top] \in Int /\ rank[stack[i]] \in Int
        BY <1>4, <1>6, <1>7, <4>1
      <4> QED BY <1>5, <4>1, <4>2, <4>3
    <3> QED BY <1>1, <2>2, <3>1, <3>2
  <2>7. Descends'
    BY <1>2, <2>6, RanksKept DEF Descends
  <2> QED
    BY <1>1, <1>2, <1>9, <2>3, <2>4, <2>5, <2>7
    DEF NotStarted, Mentioned, Linked, Sorting, RefusedFor
<1>10. CASE /\ p \in visited
            /\ p \notin Members(stack)
            /\ todo' = [todo EXCEPT ![Top] = @ \ {p}]
            /\ UNCHANGED <<phase, visited, stack>>
  <2>1. p \in Members(order)
    BY <1>10 DEF Partition
  <2>2. SortTypeOK'
    BY <1>2, <1>10 DEF SortTypeOK
  <2>3. Worklist'
    BY <1>1, <1>2, <1>10, <2>1 DEF Worklist, SortTypeOK, Partition, Members, Sorting
  <2>4. Partition' /\ Covered' /\ Sorted' /\ Linked'
    BY <1>1, <1>2, <1>10 DEF Partition, Covered, Sorted, Linked, Sorting
  <2>5. Descends'
    BY <1>1, <1>2, <1>10, RanksKept DEF Descends
  <2> QED
    BY <1>1, <1>2, <1>10, <2>2, <2>3, <2>4, <2>5 DEF NotStarted, Mentioned, RefusedFor
<1> QED BY <1>3, <1>8, <1>9, <1>10

\* A visit ends when all predecessors are in the order.
LEMMA LeaveKeeps == RegistryInv /\ Leave => RegistryInv'
<1> SUFFICES ASSUME RegistryInv, Leave PROVE RegistryInv'
  OBVIOUS
<1> USE DEF RegistryInv
<1>1. /\ phase = "sort" /\ Sorting /\ stack # << >> /\ todo[Top] = {}
      /\ order' = Append(order, Top)
      /\ stack' = SubSeq(stack, 1, Len(stack) - 1)
      /\ UNCHANGED <<phase, calls, ordered, known, prev, next, jumps, roots, visited, todo,
                     stages>>
  BY DEF Leave, deps, Sorting
<1>2. Top \in Pipelines /\ Top \in Members(stack) /\ Top = stack[Len(stack)]
  BY <1>1, TopOfStack DEF Top
<1>3. stack \in Seq(Pipelines) /\ order \in Seq(Pipelines) /\ Injective(stack)
      /\ Injective(order) /\ Top \notin Members(order)
  BY <1>2 DEF SortTypeOK, Partition
<1>4. /\ stack' \in Seq(Pipelines)
      /\ DOMAIN stack' \subseteq DOMAIN stack
      /\ \A i \in DOMAIN stack' : stack'[i] = stack[i]
      /\ Injective(stack')
      /\ Members(stack') = Members(stack) \ {Top}
  BY <1>1, <1>2, <1>3, DropLast
<1>5. /\ order' \in Seq(Pipelines)
      /\ Members(order') = Members(order) \cup {Top}
      /\ Injective(order')
      /\ DOMAIN order' = 1 .. Len(order) + 1 /\ DOMAIN order = 1 .. Len(order)
      /\ Len(order) \in Nat
      /\ \A i \in DOMAIN order : order'[i] = order[i]
      /\ order'[Len(order) + 1] = Top
  BY <1>1, <1>2, <1>3, AppendMember, AppendProperties, LenProperties
<1>6. SortTypeOK'
  BY <1>1, <1>4, <1>5 DEF SortTypeOK
<1>7. Partition'
  BY <1>1, <1>2, <1>4, <1>5 DEF Partition
<1>8. Covered'
  BY <1>1 DEF Covered, Sorting
<1>9. Worklist'
  BY <1>1, <1>5 DEF Worklist, Sorting
<1>10. Sorted'
  <2>1. ASSUME NEW i \in DOMAIN order', NEW q \in prev[order'[i]]
        PROVE  \E j \in 1 .. i - 1 : order'[j] = q
    <3>1. CASE i \in DOMAIN order
      <4>1. PICK j \in 1 .. i - 1 : order[j] = q
        BY <1>1, <1>5, <2>1, <3>1 DEF Sorted
      <4>2. j \in DOMAIN order
        BY <1>5, <3>1
      <4> QED BY <1>5, <4>1, <4>2
    <3>2. CASE i = Len(order) + 1
      <4>1. q \in Members(order)
        BY <1>1, <1>2, <1>5, <2>1, <3>2 DEF Worklist
      <4>2. PICK j \in DOMAIN order : order[j] = q
        BY <4>1 DEF Members
      <4> QED BY <1>5, <3>2, <4>2
    <3> QED BY <1>5, <3>1, <3>2
  <2> QED BY <1>1, <2>1 DEF Sorted
<1>11. Descends'
  BY <1>1, <1>4, RanksKept DEF Descends
<1> QED
  BY <1>1, <1>6, <1>7, <1>8, <1>9, <1>10, <1>11
  DEF NotStarted, Mentioned, Linked, Sorting, RefusedFor

\* The order is complete when it is cut.
LEMMA CutKeeps == RegistryInv /\ Cut => RegistryInv'
<1> SUFFICES ASSUME RegistryInv, Cut PROVE RegistryInv'
  OBVIOUS
<1> USE DEF RegistryInv
<1>1. /\ phase = "sort" /\ stack = << >> /\ roots = {} /\ Sorting
      /\ UNCHANGED <<calls, ordered, known, prev, next, jumps, roots, visited, stack, todo,
                     order>>
  BY DEF Cut, deps, walk, Sorting
<1>2. phase' \in {"done", "error", "aborted"}
  BY DEF Cut, Fail, Abort
<1>3. RefusedFor'
  <2>1. CASE phase' = "error"
    <3>1. ~(UNION {jumps[n] : n \in Members(order)} \subseteq known)
      BY <2>1 DEF Cut, Abort
    <3>2. Members(order) \subseteq known
      BY <1>1 DEF Partition, Covered, Linked
    <3> QED BY <1>1, <3>1, <3>2 DEF RefusedFor
  <2> QED BY <1>2, <2>1 DEF RefusedFor
<1> QED
  BY <1>1, <1>2, <1>3, RanksKept
  DEF SortTypeOK, NotStarted, Mentioned, Linked, Partition, Covered, Worklist, Sorted, Descends,
      Sorting

\* Every step keeps the invariant.
LEMMA RegistryNext == RegistryInv /\ [Next]_vars => RegistryInv'
<1> SUFFICES ASSUME RegistryInv, [Next]_vars PROVE RegistryInv'
  OBVIOUS
<1>1. CASE UNCHANGED vars
  <2>1. /\ UNCHANGED <<phase, calls, ordered, known, prev, next, jumps, roots>>
        /\ UNCHANGED <<visited, stack, todo, order>>
    BY <1>1 DEF vars
  <2>2. SortTypeOK' /\ NotStarted' /\ Mentioned' /\ Linked' /\ RefusedFor'
    BY <2>1
    DEF RegistryInv, SortTypeOK, NotStarted, Mentioned, Linked, Sorting, RefusedFor
  <2>3. Partition' /\ Covered' /\ Worklist' /\ Sorted'
    BY <2>1 DEF RegistryInv, Partition, Covered, Worklist, Sorted, Sorting
  <2>4. Descends'
    BY <2>1, RanksKept DEF RegistryInv, Descends, Sorting
  <2> QED BY <2>2, <2>3, <2>4 DEF RegistryInv
<1> QED
  BY <1>1, RegisterKeeps, LinkDepsKeeps, VisitRootKeeps, VisitPrevKeeps, LeaveKeeps, CutKeeps
  DEF Next, Finished

(***************************************************************************)
(* The theorems.                                                           *)
(***************************************************************************)

\* The invariant holds of every registry.
LEMMA RegistryInvariant == Spec => []RegistryInv
BY InitRegistry, RegistryNext, PTL DEF Spec

\* Whatever was registered, the order that topo_visit makes has every name once
\* and respects the dependencies given on either side.
THEOREM OrderIsTopological == Spec => []OrderRespectsDeps
<1>1. RegistryInv => OrderRespectsDeps
  <2> SUFFICES ASSUME RegistryInv, phase = "done" PROVE OrderRespectsDeps
    BY DEF OrderRespectsDeps
  <2>1. Sorting
    BY DEF Sorting
  <2>2. Members(order) = ordered /\ Members(order) \subseteq Pipelines
    BY <2>1 DEF RegistryInv, Partition, Covered, Members, SortTypeOK
  <2>3. DOMAIN order = 1 .. Len(order) /\ Len(order) \in Nat
    BY LenProperties DEF RegistryInv, SortTypeOK
  <2>4. ASSUME NEW i \in DOMAIN order, NEW j \in DOMAIN order, order[i] \in prev[order[j]]
        PROVE  i < j
    <3>1. PICK k \in 1 .. j - 1 : order[k] = order[i]
      BY <2>1, <2>4 DEF RegistryInv, Sorted
    <3>2. k \in DOMAIN order
      BY <2>3
    <3>3. k = i
      BY <3>1, <3>2 DEF RegistryInv, Partition, Injective
    <3> QED BY <2>3, <3>3
  <2>5. ASSUME NEW i \in DOMAIN order, NEW j \in DOMAIN order, order[j] \in next[order[i]]
        PROVE  i < j
    <3>1. order[i] \in Pipelines /\ order[j] \in Pipelines
      BY <2>2 DEF Members
    <3>2. order[i] \in prev[order[j]]
      BY <2>1, <2>5, <3>1 DEF RegistryInv, Linked
    <3> QED BY <2>4, <3>2
  <2>6. Injective(order)
    BY DEF RegistryInv, Partition
  <2> QED BY <2>2, <2>4, <2>5, <2>6 DEF OrderRespectsDeps, Injective
<1> QED BY <1>1, RegistryInvariant, PTL

(***************************************************************************)
(* The stages that the order is cut into. StagesOf is a loop over the      *)
(* order; what it computes is shown by looking at the first iteration that *)
(* would break FoldInv.                                                    *)
(***************************************************************************)

(***************************************************************************)
(* The loop of StagesOf and its invariant.                                 *)
(***************************************************************************)

Stages == MaybeName \X (SUBSET Pipelines) \X Seq(Pipelines)
States == [ok : BOOLEAN,
           cur : [name : MaybeName, jumps : SUBSET Pipelines, funcs : Seq(Pipelines)],
           out : Seq(Stages)]

FirstState == [ok |-> TRUE, cur |-> Open(<<order[1]>>), out |-> << >>]

\* fold is the function that StagesOf calls Folded, for the first n pipelines.
IsFold(fold, n) ==
  fold = [k \in 0 .. n |-> IF k = 0 THEN FirstState ELSE AddPipeline(fold[k - 1], order[k])]

Fold == CHOOSE fold : IsFold(fold, Len(order))

\* A stage with at least one pipeline: it is named after its first one, and only
\* its last one may have jumps, which are those of the stage.
StageOK(name, jumpsOf, funcs) ==
  /\ funcs # << >>
  /\ name = <<funcs[1]>>
  /\ funcs[Len(funcs)] \in Members(order)
  /\ jumpsOf = jumps[funcs[Len(funcs)]]
  /\ \A i \in DOMAIN funcs : jumps[funcs[i]] # {} => i = Len(funcs)

\* upTo[k] is the concatenation of the first k stages.
IsUpTo(upTo, out) ==
  upTo = [k \in 0 .. Len(out) |-> IF k = 0 THEN << >> ELSE upTo[k - 1] \o out[k][3]]

Covers(f, k) ==
  \E upTo \in [0 .. Len(f.out) -> Seq(Pipelines)] :
    IsUpTo(upTo, f.out) /\ upTo[Len(f.out)] \o f.cur.funcs = SubSeq(order, 1, k)

\* Every jump target among the first k pipelines has a stage.
TargetsOpen(f, k) ==
  \A j \in 1 .. k : order[j] \in JumpTargets =>
    f.cur.name = <<order[j]>> \/ \E s \in DOMAIN f.out : f.out[s][1] = <<order[j]>>

\* cuts[s] is the place in the order of the last pipeline of the s-th stage.
IsCut(cuts, out) ==
  /\ cuts[0] = 0
  /\ \A s, t \in 0 .. Len(out) : s < t => cuts[s] < cuts[t]
  /\ \A s \in 1 .. Len(out) :
       /\ out[s][3][1] = order[cuts[s - 1] + 1]
       /\ out[s][3][Len(out[s][3])] = order[cuts[s]]

CutsSoFar(f, k) ==
  \E cuts \in [0 .. Len(f.out) -> Nat] :
    /\ IsCut(cuts, f.out)
    /\ k > 0 => /\ \A s \in 0 .. Len(f.out) : cuts[s] < k
                /\ f.cur.funcs[1] = order[cuts[Len(f.out)] + 1]

\* An assertion only fails when the first pipeline is a target.
AssertionsHold(f) == order[1] \notin JumpTargets => f.ok = TRUE

FoldInv(f, k) ==
  /\ f \in States
  /\ IF k = 0 THEN f = FirstState
     ELSE /\ StageOK(f.cur.name, f.cur.jumps, f.cur.funcs)
          /\ f.cur.funcs[Len(f.cur.funcs)] = order[k]
  /\ \A s \in DOMAIN f.out : StageOK(f.out[s][1], f.out[s][2], f.out[s][3])
  /\ Covers(f, k)
  /\ CutsSoFar(f, k)
  /\ TargetsOpen(f, k)
  /\ AssertionsHold(f)

(***************************************************************************)
(* The functions defined by recursion exist, and are the only ones.        *)
(***************************************************************************)

\* The loop has a state after every number of iterations.
LEMMA FoldExists ==
  ASSUME order \in Seq(Pipelines)
  PROVE  IsFold(Fold, Len(order))
<1> DEFINE T == {n \in 0 .. Len(order) : ~ \E fold : IsFold(fold, n)}
<1>1. Len(order) \in Nat
  BY LenProperties
<1>2. SUFFICES T = {}
  <2>1. Len(order) \in 0 .. Len(order)
    BY <1>1
  <2>2. \E fold : IsFold(fold, Len(order))
    BY <1>2, <2>1
  <2> QED BY <2>2 DEF Fold
<1>3. SUFFICES ASSUME T # {} PROVE FALSE
  OBVIOUS
<1>4. PICK n \in T : \A m \in T : n <= m
  <2>1. T \in SUBSET Nat
    OBVIOUS
  <2> QED BY <1>3, <2>1, LeastExists
<1>5. n \in 0 .. Len(order) /\ ~ \E fold : IsFold(fold, n)
  OBVIOUS
<1>6. CASE n = 0
  <2> DEFINE first == [k \in 0 .. 0 |-> FirstState]
  <2>1. IsFold(first, 0)
    BY DEF IsFold
  <2> QED BY <1>5, <1>6, <2>1
<1>7. CASE n # 0
  <2>1. n - 1 \in 0 .. Len(order) /\ n - 1 \notin T
    BY <1>1, <1>4, <1>5, <1>7
  <2>2. PICK fold : IsFold(fold, n - 1)
    BY <2>1
  <2> HIDE DEF T
  <2> DEFINE more == [k \in 0 .. n |-> IF k = n THEN AddPipeline(fold[n - 1], order[n])
                                      ELSE fold[k]]
  <2>3. ASSUME NEW k \in 0 .. n
        PROVE  more[k] = IF k = 0 THEN FirstState ELSE AddPipeline(more[k - 1], order[k])
    <3>1. CASE k = n
      <4>1. more[k - 1] = fold[n - 1]
        BY <1>1, <1>5, <1>7, <3>1
      <4> QED BY <1>7, <3>1, <4>1
    <3>2. CASE k # n /\ k = 0
      BY <1>5, <2>2, <3>2 DEF IsFold
    <3>3. CASE k # n /\ k # 0
      <4>1. k \in 0 .. n - 1 /\ k - 1 \in 0 .. n /\ k - 1 # n
        BY <1>5, <3>3
      <4>2. more[k - 1] = fold[k - 1] /\ more[k] = fold[k]
        BY <3>3, <4>1
      <4>3. fold[k] = AddPipeline(fold[k - 1], order[k])
        BY <2>2, <3>3, <4>1 DEF IsFold
      <4> QED BY <3>3, <4>2, <4>3
    <3> QED BY <3>1, <3>2, <3>3
  <2>4. IsFold(more, n)
    BY <2>3 DEF IsFold
  <2> QED BY <1>5, <2>4
<1> QED BY <1>6, <1>7

\* A property of the state that each iteration keeps holds of every state.
LEMMA StagesOfIsFold ==
  ASSUME order \in Seq(Pipelines)
  PROVE  /\ StagesOf = Flushed(Fold[Len(order)])
         /\ Fold[0] = FirstState
         /\ \A k \in 1 .. Len(order) : Fold[k] = AddPipeline(Fold[k - 1], order[k])
<1>1. StagesOf = Flushed(Fold[Len(order)])
  BY DEF StagesOf, Fold, IsFold, FirstState
<1>2. Len(order) \in Nat
  BY LenProperties
<1>3. Fold = [k \in 0 .. Len(order) |-> IF k = 0 THEN FirstState
                                       ELSE AddPipeline(Fold[k - 1], order[k])]
  BY FoldExists DEF IsFold
<1>4. Fold[0] = FirstState
  BY <1>2, <1>3
<1>5. \A k \in 1 .. Len(order) : Fold[k] = AddPipeline(Fold[k - 1], order[k])
  BY <1>2, <1>3
<1> QED BY <1>1, <1>4, <1>5

\* There is only one way to concatenate the stages.
LEMMA UpToUnique ==
  ASSUME NEW out \in Seq(Stages), NEW u, NEW v, IsUpTo(u, out), IsUpTo(v, out)
  PROVE  u = v
<1> DEFINE T == {k \in 0 .. Len(out) : u[k] # v[k]}
<1>1. Len(out) \in Nat
  BY LenProperties
<1>2. u = [k \in 0 .. Len(out) |-> u[k]] /\ v = [k \in 0 .. Len(out) |-> v[k]]
  BY DEF IsUpTo
<1>3. SUFFICES ASSUME T # {} PROVE FALSE
  BY <1>2
<1>4. PICK n \in T : \A m \in T : n <= m
  <2>1. T \in SUBSET Nat
    OBVIOUS
  <2> QED BY <1>3, <2>1, LeastExists
<1>5. n # 0
  BY <1>1 DEF IsUpTo
<1>6. n - 1 \in 0 .. Len(out) /\ n - 1 \notin T
  BY <1>1, <1>4, <1>5
<1>7. u[n] = u[n - 1] \o out[n][3] /\ v[n] = v[n - 1] \o out[n][3]
  BY <1>5 DEF IsUpTo
<1> QED BY <1>6, <1>7

(***************************************************************************)
(* One iteration of the loop.                                              *)
(***************************************************************************)

\* add_stage appends the open stage.
LEMMA CloseStage ==
  ASSUME NEW f \in States, NEW k, Covers(f, k)
  PROVE  LET st   == <<f.cur.name, f.cur.jumps, f.cur.funcs>>
             more == Append(f.out, st)
         IN  /\ more \in Seq(Stages)
             /\ DOMAIN more = 1 .. Len(f.out) + 1 /\ Len(more) = Len(f.out) + 1
             /\ Len(f.out) \in Nat /\ DOMAIN f.out = 1 .. Len(f.out)
             /\ \A s \in DOMAIN f.out : more[s] = f.out[s]
             /\ more[Len(f.out) + 1] = st
             /\ \E upTo \in [0 .. Len(more) -> Seq(Pipelines)] :
                  IsUpTo(upTo, more) /\ upTo[Len(more)] = SubSeq(order, 1, k)
<1> DEFINE st   == <<f.cur.name, f.cur.jumps, f.cur.funcs>>
           more == Append(f.out, st)
           m    == Len(f.out)
<1>1. st \in Stages /\ st[3] = f.cur.funcs /\ f.out \in Seq(Stages)
      /\ f.cur.funcs \in Seq(Pipelines)
  BY DEF States, Stages
<1>2. /\ more \in Seq(Stages) /\ Len(more) = m + 1 /\ m \in Nat
      /\ DOMAIN more = 1 .. m + 1 /\ DOMAIN f.out = 1 .. m
      /\ \A s \in DOMAIN f.out : more[s] = f.out[s]
      /\ more[m + 1] = st
  BY <1>1, AppendProperties, LenProperties
<1>3. PICK upTo \in [0 .. m -> Seq(Pipelines)] :
        IsUpTo(upTo, f.out) /\ upTo[m] \o f.cur.funcs = SubSeq(order, 1, k)
  BY DEF Covers
<1> HIDE DEF m, more, st
<1> DEFINE all == upTo[m] \o f.cur.funcs
           longer == [j \in 0 .. m + 1 |-> IF j = m + 1 THEN all ELSE upTo[j]]
<1>4. all \in Seq(Pipelines)
  <2>1. upTo[m] \in Seq(Pipelines)
    BY <1>2, <1>3
  <2> QED BY <1>1, <2>1, ConcatProperties
<1> HIDE DEF all
<1>5. longer \in [0 .. m + 1 -> Seq(Pipelines)]
  BY <1>2, <1>3, <1>4
<1>6. /\ longer[m + 1] = all
      /\ \A j \in 0 .. m : longer[j] = upTo[j]
      /\ longer = [j \in 0 .. m + 1 |-> longer[j]]
  BY <1>2
<1>7. \A j \in 1 .. m : upTo[j] = upTo[j - 1] \o f.out[j][3]
  <2>1. ASSUME NEW j \in 1 .. m PROVE upTo[j] = upTo[j - 1] \o f.out[j][3]
    <3>1. j \in 0 .. Len(f.out) /\ j # 0
      BY <1>2 DEF m
    <3> QED BY <1>3, <3>1, Zenon DEF IsUpTo
  <2> QED BY <2>1
<1> HIDE DEF longer
<1>8. ASSUME NEW j \in 0 .. m + 1
      PROVE  longer[j] = IF j = 0 THEN << >> ELSE longer[j - 1] \o more[j][3]
  <2>1. CASE j = m + 1
    <3>1. j # 0 /\ j - 1 = m /\ m \in 0 .. m
      BY <1>2, <2>1
    <3>2. longer[j - 1] = upTo[m] /\ more[j][3] = f.cur.funcs
      BY <1>1, <1>2, <1>6, <2>1, <3>1, Zenon
    <3> QED BY <1>6, <2>1, <3>1, <3>2, Zenon DEF all
  <2>2. CASE j # m + 1 /\ j = 0
    <3>1. upTo[0] = << >>
      BY <1>2, <1>3 DEF IsUpTo, m
    <3>2. 0 \in 0 .. m
      BY <1>2
    <3> QED BY <1>6, <2>2, <3>1, <3>2, Zenon
  <2>3. CASE j # m + 1 /\ j # 0
    <3>1. j \in 1 .. m /\ j \in 0 .. m /\ j - 1 \in 0 .. m
      BY <1>2, <2>3
    <3>2. longer[j - 1] = upTo[j - 1] /\ longer[j] = upTo[j] /\ more[j] = f.out[j]
      BY <1>2, <1>6, <3>1
    <3> QED BY <1>7, <2>3, <3>1, <3>2, Zenon
  <2> QED BY <2>1, <2>2, <2>3
<1>9. IsUpTo(longer, more)
  BY <1>2, <1>6, <1>8, Zenon DEF IsUpTo
<1>10. longer[m + 1] = SubSeq(order, 1, k)
  BY <1>3, <1>6, Zenon DEF all
<1> QED BY <1>2, <1>5, <1>9, <1>10 DEF m, more, st

\* Appending to the second of two sequences.
LEMMA ConcatAppend ==
  ASSUME NEW S, NEW s \in Seq(S), NEW t \in Seq(S), NEW e \in S
  PROVE  s \o Append(t, e) = Append(s \o t, e)
OBVIOUS

\* The next pipeline extends a prefix of the order.
LEMMA PrefixExtends ==
  ASSUME order \in Seq(Pipelines), NEW k \in 1 .. Len(order)
  PROVE  Append(SubSeq(order, 1, k - 1), order[k]) = SubSeq(order, 1, k)
<1> DEFINE s == SubSeq(order, 1, k - 1)
           t == SubSeq(order, 1, k)
<1>1. Len(order) \in Nat /\ \A i \in 1 .. Len(order) : order[i] \in Pipelines
  BY ElementOfSeq, LenProperties
<1>2. s \in Seq(Pipelines) /\ Len(s) = k - 1 /\ \A i \in 1 .. k - 1 : s[i] = order[i]
  BY <1>1, SubSeqProperties
<1>3. t \in Seq(Pipelines) /\ Len(t) = k /\ \A i \in 1 .. k : t[i] = order[i]
  BY <1>1, SubSeqProperties
<1> HIDE DEF s, t
<1>4. /\ Append(s, order[k]) \in Seq(Pipelines)
      /\ Len(Append(s, order[k])) = k
      /\ \A i \in 1 .. k : Append(s, order[k])[i] = t[i]
  BY <1>1, <1>2, <1>3, AppendProperties
<1> QED BY <1>3, <1>4, SeqEqual DEF s, t

\* What AddPipeline makes of a state.
LEMMA AddCases ==
  ASSUME NEW f \in States, NEW n \in Pipelines, jumps \in [Pipelines -> SUBSET Pipelines]
  PROVE  LET keep  == [name |-> IF n \in JumpTargets THEN <<n>> ELSE f.cur.name,
                       jumps |-> jumps[n], funcs |-> Append(f.cur.funcs, n)]
             fresh == [name |-> <<n>>, jumps |-> jumps[n], funcs |-> <<n>>]
             done  == Append(f.out, <<f.cur.name, f.cur.jumps, f.cur.funcs>>)
             ok    == IF n \in JumpTargets THEN Flushed(f).ok ELSE f.ok
         IN  AddPipeline(f, n) = IF n \in JumpTargets /\ f.cur.funcs # << >>
                                 THEN [ok |-> ok, cur |-> fresh, out |-> done]
                                 ELSE [ok |-> ok, cur |-> keep, out |-> f.out]
<1> DEFINE base == IF n \in JumpTargets THEN Flushed(f) ELSE f
           cur  == [name |-> IF n \in JumpTargets THEN <<n>> ELSE base.cur.name,
                    jumps |-> jumps[n], funcs |-> Append(base.cur.funcs, n)]
<1>1. base = [ok |-> base.ok, cur |-> base.cur, out |-> base.out]
  <2>1. f = [ok |-> f.ok, cur |-> f.cur, out |-> f.out]
    BY DEF States
  <2> QED BY <2>1 DEF Flushed
<1>2. AddPipeline(f, n) = [ok |-> base.ok, cur |-> cur, out |-> base.out]
  <2>1. AddPipeline(f, n) = [base EXCEPT !.cur = cur]
    BY DEF AddPipeline
  <2> HIDE DEF base, cur
  <2> QED BY <1>1, <2>1
<1>3. base.ok = IF n \in JumpTargets THEN Flushed(f).ok ELSE f.ok
  OBVIOUS
<1>4. CASE ~(n \in JumpTargets /\ f.cur.funcs # << >>)
  <2>1. base.cur = f.cur /\ base.out = f.out
    <3>1. n \in JumpTargets => Flushed(f).cur = f.cur /\ Flushed(f).out = f.out
      BY <1>4 DEF Flushed, States
    <3> QED BY <3>1
  <2> HIDE DEF base
  <2> QED BY <1>2, <1>3, <1>4, <2>1
<1>5. CASE n \in JumpTargets /\ f.cur.funcs # << >>
  <2> DEFINE done == Append(f.out, <<f.cur.name, f.cur.jumps, f.cur.funcs>>)
  <2>1. base.out = done /\ base.cur.funcs = << >>
    BY <1>5 DEF Flushed, Open
  <2>2. Append(<< >>, n) = <<n>>
    OBVIOUS
  <2> HIDE DEF done, base
  <2>3. AddPipeline(f, n) = [ok |-> base.ok,
                             cur |-> [name |-> <<n>>, jumps |-> jumps[n], funcs |-> <<n>>],
                             out |-> done]
    BY <1>2, <1>5, <2>1, <2>2
  <2> QED BY <1>3, <1>5, <2>3 DEF done
<1> QED BY <1>4, <1>5

\* The stage that is closed ends where the next one begins.
LEMMA CloseCut ==
  ASSUME NEW f \in States, NEW k \in Nat \ {0}, CutsSoFar(f, k),
         f.cur.funcs[Len(f.cur.funcs)] = order[k]
  PROVE  LET st   == <<f.cur.name, f.cur.jumps, f.cur.funcs>>
             more == Append(f.out, st)
         IN  \E cuts \in [0 .. Len(more) -> Nat] :
               /\ IsCut(cuts, more)
               /\ cuts[Len(more)] = k
               /\ \A s \in 0 .. Len(more) : cuts[s] < k + 1
<1> DEFINE st   == <<f.cur.name, f.cur.jumps, f.cur.funcs>>
           more == Append(f.out, st)
           m    == Len(f.out)
<1>1. st \in Stages /\ st[3] = f.cur.funcs /\ f.out \in Seq(Stages)
  BY DEF States, Stages
<1>2. /\ Len(more) = m + 1 /\ m \in Nat
      /\ \A s \in 1 .. m : more[s] = f.out[s]
      /\ more[m + 1][3] = f.cur.funcs
  BY <1>1, AppendProperties, LenProperties
<1>3. PICK cuts \in [0 .. m -> Nat] :
        /\ IsCut(cuts, f.out)
        /\ \A s \in 0 .. m : cuts[s] < k
        /\ f.cur.funcs[1] = order[cuts[m] + 1]
  BY DEF CutsSoFar
<1> HIDE DEF m, more, st
<1>4. /\ cuts[0] = 0
      /\ \A s, t \in 0 .. m : s < t => cuts[s] < cuts[t]
      /\ \A s \in 1 .. m : /\ f.out[s][3][1] = order[cuts[s - 1] + 1]
                          /\ f.out[s][3][Len(f.out[s][3])] = order[cuts[s]]
  BY <1>3 DEF IsCut, m
<1> DEFINE all == [s \in 0 .. m + 1 |-> IF s = m + 1 THEN k ELSE cuts[s]]
<1>5. /\ all \in [0 .. m + 1 -> Nat]
      /\ all[m + 1] = k
      /\ \A s \in 0 .. m : all[s] = cuts[s]
  BY <1>2, <1>3
<1> HIDE DEF all
<1>6. all[0] = 0 /\ \A s \in 0 .. m + 1 : all[s] < k + 1
  <2>1. 0 \in 0 .. m
    BY <1>2
  <2>2. all[m + 1] < k + 1
    BY <1>5
  <2>3. ASSUME NEW s \in 0 .. m PROVE all[s] < k + 1
    <3>1. all[s] < k /\ all[s] \in Nat
      BY <1>3, <1>5
    <3> QED BY <3>1
  <2>4. \A s \in 0 .. m + 1 : s = m + 1 \/ s \in 0 .. m
    BY <1>2
  <2> QED BY <1>4, <1>5, <2>1, <2>2, <2>3, <2>4
<1>7. ASSUME NEW s \in 0 .. m + 1, NEW t \in 0 .. m + 1, s < t PROVE all[s] < all[t]
  <2>1. CASE t = m + 1
    <3>1. s \in 0 .. m
      BY <1>2, <1>7, <2>1
    <3> QED BY <1>3, <1>5, <2>1, <3>1
  <2>2. CASE t # m + 1
    <3>1. s \in 0 .. m /\ t \in 0 .. m
      BY <1>2, <1>7, <2>2
    <3> QED BY <1>4, <1>5, <1>7, <3>1
  <2> QED BY <2>1, <2>2
<1>8. ASSUME NEW s \in 1 .. m + 1
      PROVE  /\ more[s][3][1] = order[all[s - 1] + 1]
             /\ more[s][3][Len(more[s][3])] = order[all[s]]
  <2>1. CASE s = m + 1
    <3>1. s - 1 = m /\ m \in 0 .. m
      BY <1>2, <2>1
    <3> QED BY <1>2, <1>3, <1>5, <2>1, <3>1
  <2>2. CASE s # m + 1
    <3>1. s \in 1 .. m /\ s \in 0 .. m /\ s - 1 \in 0 .. m
      BY <1>2, <2>2
    <3> QED BY <1>2, <1>4, <1>5, <3>1
  <2> QED BY <2>1, <2>2
<1>9. IsCut(all, more)
  BY <1>2, <1>6, <1>7, <1>8 DEF IsCut
<1> QED BY <1>2, <1>5, <1>6, <1>9 DEF m, more, st

\* A stage of one pipeline, and one with another pipeline behind those without jumps.
LEMMA StageGrows ==
  ASSUME NEW n \in Members(order), n \in Pipelines,
         jumps \in [Pipelines -> SUBSET Pipelines]
  PROVE  /\ StageOK(<<n>>, jumps[n], <<n>>)
         /\ \A name, js, funcs :
              /\ funcs \in Seq(Pipelines)
              /\ StageOK(name, js, funcs)
              /\ jumps[funcs[Len(funcs)]] = {}
              => StageOK(name, jumps[n], Append(funcs, n))
<1>1. StageOK(<<n>>, jumps[n], <<n>>)
  BY DEF StageOK
<1>2. ASSUME NEW name, NEW js, NEW funcs \in Seq(Pipelines), StageOK(name, js, funcs),
             jumps[funcs[Len(funcs)]] = {}
      PROVE  StageOK(name, jumps[n], Append(funcs, n))
  <2> DEFINE more == Append(funcs, n)
  <2>1. /\ Len(funcs) \in Nat \ {0} /\ DOMAIN funcs = 1 .. Len(funcs)
        /\ more \in Seq(Pipelines) /\ more # << >> /\ Len(more) = Len(funcs) + 1
        /\ DOMAIN more = 1 .. Len(funcs) + 1
        /\ \A i \in 1 .. Len(funcs) : more[i] = funcs[i]
        /\ more[Len(funcs) + 1] = n
    BY <1>2, AppendProperties, LenProperties, EmptySeq DEF StageOK
  <2> HIDE DEF more
  <2>2. name = <<more[1]>>
    BY <1>2, <2>1 DEF StageOK
  <2>3. ASSUME NEW i \in DOMAIN more, jumps[more[i]] # {} PROVE i = Len(more)
    BY <1>2, <2>1, <2>3 DEF StageOK
  <2> QED BY <2>1, <2>2, <2>3 DEF StageOK, more
<1> QED BY <1>1, <1>2

\* A name is not the empty name.
LEMMA Nonempty == \A n : <<n>> # NoName
<1> TAKE n
<1>1. Len(<<n>>) = 1 /\ Len(<< >>) = 0
  OBVIOUS
<1> QED BY <1>1 DEF NoName

\* An assertion only fails for a stage in front of the first pipeline.
LEMMA FlushKeepsOk ==
  ASSUME order \in Seq(Pipelines), jumps \in [Pipelines -> SUBSET Pipelines],
         NEW k \in 1 .. Len(order), NEW f, FoldInv(f, k - 1)
  PROVE  LET g == AddPipeline(f, order[k])
         IN  g.ok \in BOOLEAN /\ AssertionsHold(g)
<1> DEFINE n == order[k]
           g == AddPipeline(f, n)
<1>1. n \in Pipelines /\ k \in Nat /\ f \in States /\ f.ok \in BOOLEAN
  BY ElementOfSeq, LenProperties DEF FoldInv, States
<1>2. g.ok = IF n \in JumpTargets THEN Flushed(f).ok ELSE f.ok
  BY <1>1, AddCases
<1>3. CASE f.cur.funcs = << >>
  <2>1. k = 1 /\ AssertionsHold(f)
    BY <1>1, <1>3 DEF FoldInv, StageOK
  <2>2. Flushed(f).ok \in BOOLEAN
    BY <1>1, <1>3 DEF Flushed, States
  <2> HIDE DEF g
  <2>3. CASE n \in JumpTargets
    <3>1. order[1] \in JumpTargets /\ g.ok \in BOOLEAN
      BY <1>2, <2>1, <2>2, <2>3
    <3> QED BY <3>1 DEF AssertionsHold, g, n
  <2>4. CASE n \notin JumpTargets
    <3>1. g.ok = f.ok
      BY <1>2, <2>4
    <3> QED BY <1>1, <2>1, <3>1 DEF AssertionsHold, g, n
  <2> QED BY <2>3, <2>4
<1>4. CASE f.cur.funcs # << >>
  <2>1. k - 1 # 0
    BY <1>1, <1>4 DEF FoldInv, FirstState, Open
  <2>2. f.cur.name # NoName
    <3>1. f.cur.name = <<f.cur.funcs[1]>>
      BY <2>1 DEF FoldInv, StageOK
    <3> QED BY <3>1, Nonempty
  <2>3. Flushed(f).ok = (f.ok /\ f.cur.name # NoName)
    BY <1>4 DEF Flushed
  <2>4. g.ok = f.ok
    BY <1>1, <1>2, <2>2, <2>3, Zenon
  <2> QED BY <1>1, <2>4 DEF FoldInv, AssertionsHold
<1> QED BY <1>3, <1>4

\* AddPipeline keeps the invariant of the loop.
LEMMA FoldStep ==
  ASSUME order \in Seq(Pipelines), jumps \in [Pipelines -> SUBSET Pipelines],
         NEW k \in 1 .. Len(order), NEW f, FoldInv(f, k - 1)
  PROVE  FoldInv(AddPipeline(f, order[k]), k)
<1> DEFINE n == order[k]
           g == AddPipeline(f, n)
           st == <<f.cur.name, f.cur.jumps, f.cur.funcs>>
<1>1. /\ Len(order) \in Nat /\ n \in Pipelines /\ n \in Members(order)
      /\ k \in Nat \ {0} /\ k - 1 \in Nat
  BY LenProperties, ElementOfSeq DEF Members
<1>2. f \in States /\ Covers(f, k - 1) /\ TargetsOpen(f, k - 1)
      /\ f.cur.funcs \in Seq(Pipelines) /\ f.out \in Seq(Stages)
  BY DEF FoldInv, States
<1>3. k - 1 # 0 => /\ f.cur.funcs # << >>
                   /\ StageOK(f.cur.name, f.cur.jumps, f.cur.funcs)
                   /\ f.cur.funcs[Len(f.cur.funcs)] = order[k - 1]
  BY DEF FoldInv, StageOK
<1>4. k - 1 = 0 => f.cur.funcs = << >> /\ f.cur.name = <<n>>
  BY <1>1 DEF FoldInv, FirstState, Open
<1>5. k - 1 # 0 /\ n \notin JumpTargets => jumps[order[k - 1]] = {}
  <2> SUFFICES ASSUME k - 1 # 0, jumps[order[k - 1]] # {} PROVE n \in JumpTargets
    OBVIOUS
  <2>1. PICK j \in 1 .. Len(order) - 1 : j = k - 1
    BY <1>1
  <2>2. order[j + 1] = n /\ jumps[order[j]] # {}
    BY <1>1, <2>1
  <2> QED BY <2>2 DEF JumpTargets
<1>6. g.ok \in BOOLEAN /\ AssertionsHold(g)
  BY FlushKeepsOk
<1> HIDE DEF n, g
<1>7. CASE n \in JumpTargets /\ f.cur.funcs # << >>
  <2>1. g = [ok |-> g.ok, cur |-> [name |-> <<n>>, jumps |-> jumps[n], funcs |-> <<n>>],
             out |-> Append(f.out, st)]
    BY <1>1, <1>2, <1>7, AddCases DEF g
  <2> DEFINE more == Append(f.out, st)
  <2>2. /\ more \in Seq(Stages)
        /\ DOMAIN more = 1 .. Len(f.out) + 1 /\ Len(more) = Len(f.out) + 1
        /\ Len(f.out) \in Nat /\ DOMAIN f.out = 1 .. Len(f.out)
        /\ \A s \in DOMAIN f.out : more[s] = f.out[s]
        /\ more[Len(f.out) + 1] = st
        /\ \E upTo \in [0 .. Len(more) -> Seq(Pipelines)] :
             IsUpTo(upTo, more) /\ upTo[Len(more)] = SubSeq(order, 1, k - 1)
    BY <1>2, CloseStage
  <2> HIDE DEF more
  <2>3. g.out = more /\ g.cur = [name |-> <<n>>, jumps |-> jumps[n], funcs |-> <<n>>]
    BY <2>1 DEF more
  <2>4. g \in States
    <3>1. PICK b \in BOOLEAN :
            g = [ok |-> b, cur |-> [name |-> <<n>>, jumps |-> jumps[n], funcs |-> <<n>>],
                 out |-> more]
      BY <1>6, <2>1 DEF more
    <3>2. <<n>> \in MaybeName /\ <<n>> \in Seq(Pipelines) /\ jumps[n] \in SUBSET Pipelines
      BY <1>1 DEF MaybeName
    <3> QED BY <2>2, <3>1, <3>2 DEF States
  <2>5. StageOK(g.cur.name, g.cur.jumps, g.cur.funcs) /\ g.cur.funcs[Len(g.cur.funcs)] = n
    BY <1>1, <2>3, StageGrows
  <2>6. ASSUME NEW s \in DOMAIN g.out PROVE StageOK(g.out[s][1], g.out[s][2], g.out[s][3])
    <3>1. CASE s \in DOMAIN f.out
      BY <2>2, <2>3, <3>1 DEF FoldInv
    <3>2. CASE s = Len(f.out) + 1
      BY <1>3, <1>4, <1>7, <2>2, <2>3, <3>2
    <3> QED BY <2>2, <2>3, <3>1, <3>2
  <2>7. Covers(g, k)
    <3>1. PICK upTo \in [0 .. Len(more) -> Seq(Pipelines)] :
            IsUpTo(upTo, more) /\ upTo[Len(more)] = SubSeq(order, 1, k - 1)
      BY <2>2
    <3>2. upTo[Len(more)] \in Seq(Pipelines)
      BY <2>2, <3>1
    <3>3. upTo[Len(more)] \o <<n>> = Append(upTo[Len(more)], n)
      BY <1>1, <3>2, AppendIsConcat
    <3>4. upTo[Len(more)] \o <<n>> = SubSeq(order, 1, k)
      BY <3>1, <3>3, PrefixExtends, Zenon DEF n
    <3>5. g.cur.funcs = <<n>>
      BY <2>3
    <3> QED BY <2>3, <3>1, <3>4, <3>5, Zenon DEF Covers
  <2>8. CutsSoFar(g, k)
    <3>1. k - 1 \in Nat \ {0}
      BY <1>1, <1>4, <1>7
    <3>2. PICK cuts \in [0 .. Len(more) -> Nat] :
            IsCut(cuts, more) /\ cuts[Len(more)] = k - 1
              /\ \A s \in 0 .. Len(more) : cuts[s] < (k - 1) + 1
      BY <1>2, <1>3, <3>1, CloseCut DEF FoldInv, more
    <3>3. \A s \in 0 .. Len(more) : cuts[s] < k
      BY <1>1, <3>2
    <3>4. g.cur.funcs[1] = order[cuts[Len(more)] + 1]
      BY <1>1, <2>3, <3>2 DEF n
    <3> QED BY <2>3, <3>2, <3>3, <3>4, Zenon DEF CutsSoFar
  <2>9. TargetsOpen(g, k)
    <3>1. ASSUME NEW j \in 1 .. k, order[j] \in JumpTargets
          PROVE  g.cur.name = <<order[j]>> \/ \E s \in DOMAIN g.out : g.out[s][1] = <<order[j]>>
      <4>1. CASE j = k
        BY <2>3, <4>1 DEF n
      <4>2. CASE j \in 1 .. k - 1 /\ f.cur.name = <<order[j]>>
        <5>1. Len(f.out) + 1 \in DOMAIN more /\ more[Len(f.out) + 1][1] = f.cur.name
          BY <2>2
        <5> QED BY <2>3, <4>2, <5>1, Zenon
      <4>3. CASE j \in 1 .. k - 1 /\ f.cur.name # <<order[j]>>
        <5>1. PICK s \in DOMAIN f.out : f.out[s][1] = <<order[j]>>
          BY <1>2, <3>1, <4>3 DEF TargetsOpen
        <5>2. s \in DOMAIN more /\ more[s][1] = <<order[j]>>
          BY <2>2, <5>1
        <5> QED BY <2>3, <5>2, Zenon
      <4> QED BY <1>1, <4>1, <4>2, <4>3
    <3> QED BY <3>1 DEF TargetsOpen
  <2> QED BY <1>1, <1>6, <2>4, <2>5, <2>6, <2>7, <2>8, <2>9 DEF FoldInv, n, g
<1>8. CASE ~(n \in JumpTargets /\ f.cur.funcs # << >>)
  <2> DEFINE name == IF n \in JumpTargets THEN <<n>> ELSE f.cur.name
             more == Append(f.cur.funcs, n)
  <2>1. g = [ok |-> g.ok, cur |-> [name |-> name, jumps |-> jumps[n], funcs |-> more],
             out |-> f.out]
    BY <1>1, <1>2, <1>8, AddCases DEF g
  <2>2. name = f.cur.name
    BY <1>3, <1>4, <1>8
  <2>3. more \in Seq(Pipelines) /\ Len(more) = Len(f.cur.funcs) + 1 /\ more[Len(more)] = n
    BY <1>1, <1>2, AppendProperties, LenProperties
  <2>4. StageOK(f.cur.name, jumps[n], more)
    <3>1. CASE k - 1 = 0
      <4>1. more = <<n>>
        <5>1. Append(<< >>, n) = <<n>>
          OBVIOUS
        <5> QED BY <1>4, <3>1, <5>1, Zenon
      <4> QED BY <1>1, <1>4, <3>1, <4>1, StageGrows
    <3>2. CASE k - 1 # 0
      BY <1>1, <1>2, <1>3, <1>5, <1>8, <3>2, StageGrows
    <3> QED BY <3>1, <3>2
  <2> HIDE DEF name, more
  <2>5. g.out = f.out /\ g.cur.name = f.cur.name /\ g.cur.jumps = jumps[n] /\ g.cur.funcs = more
    BY <2>1, <2>2
  <2>6. g \in States
    <3>1. f.cur.name \in MaybeName /\ jumps[n] \in SUBSET Pipelines
      BY <1>1, <1>2 DEF States
    <3> QED BY <1>2, <1>6, <2>1, <2>2, <2>3, <3>1 DEF States
  <2>7. Covers(g, k)
    <3>1. PICK upTo \in [0 .. Len(f.out) -> Seq(Pipelines)] :
            IsUpTo(upTo, f.out) /\ upTo[Len(f.out)] \o f.cur.funcs = SubSeq(order, 1, k - 1)
      BY <1>2 DEF Covers
    <3>2. upTo[Len(f.out)] \in Seq(Pipelines)
      BY <1>2, <3>1, LenProperties
    <3> DEFINE before == upTo[Len(f.out)]
               funcs == f.cur.funcs
    <3>3. before \o funcs = SubSeq(order, 1, k - 1) /\ more = Append(funcs, n)
      BY <3>1 DEF more
    <3>4. before \o Append(funcs, n) = Append(before \o funcs, n)
      <4>1. n \in Pipelines /\ before \in Seq(Pipelines) /\ funcs \in Seq(Pipelines)
        BY <1>1, <1>2, <3>2
      <4> HIDE DEF before, funcs
      <4> QED BY <4>1, ConcatAppend
    <3>5. before \o more = SubSeq(order, 1, k)
      BY <3>3, <3>4, PrefixExtends, Zenon DEF n
    <3> QED BY <2>5, <3>1, <3>5, Zenon DEF Covers, before
  <2>8. TargetsOpen(g, k)
    <3>1. ASSUME NEW j \in 1 .. k, order[j] \in JumpTargets
          PROVE  g.cur.name = <<order[j]>> \/ \E s \in DOMAIN g.out : g.out[s][1] = <<order[j]>>
      <4>1. CASE j = k
        BY <1>3, <1>4, <1>8, <2>5, <3>1, <4>1 DEF n
      <4>2. CASE j \in 1 .. k - 1
        BY <1>2, <2>5, <3>1, <4>2 DEF TargetsOpen
      <4> QED BY <1>1, <4>1, <4>2
    <3> QED BY <3>1 DEF TargetsOpen
  <2>9. CutsSoFar(g, k)
    <3>1. PICK cuts \in [0 .. Len(f.out) -> Nat] :
            /\ IsCut(cuts, f.out)
            /\ k - 1 > 0 => /\ \A s \in 0 .. Len(f.out) : cuts[s] < k - 1
                            /\ f.cur.funcs[1] = order[cuts[Len(f.out)] + 1]
      BY DEF FoldInv, CutsSoFar
    <3>2. Len(f.out) \in Nat
      BY <1>2, LenProperties
    <3>3. \A s \in 0 .. Len(f.out) : cuts[s] < k
      <4>1. CASE k - 1 = 0
        <5>1. Len(f.out) = 0
          BY <4>1 DEF FoldInv, FirstState
        <5> QED BY <1>1, <3>1, <5>1 DEF IsCut
      <4>2. CASE k - 1 # 0
        BY <1>1, <3>1, <4>2
      <4> QED BY <4>1, <4>2
    <3>4. more[1] = order[cuts[Len(f.out)] + 1]
      <4>1. CASE k - 1 = 0
        <5>1. Len(f.out) = 0 /\ cuts[0] = 0
          BY <3>1, <4>1 DEF FoldInv, FirstState, IsCut
        <5>2. more[1] = n
          BY <1>1, <1>2, <1>4, <4>1, AppendProperties DEF more
        <5>3. k = 1
          BY <1>1, <4>1
        <5> QED BY <5>1, <5>2, <5>3 DEF n
      <4>2. CASE k - 1 # 0
        <5>1. Len(f.cur.funcs) >= 1
          BY <1>2, <1>3, <4>2, EmptySeq, LenProperties
        <5>2. more[1] = f.cur.funcs[1]
          BY <1>1, <1>2, <5>1, AppendProperties, LenProperties DEF more
        <5> QED BY <1>1, <3>1, <4>2, <5>2
      <4> QED BY <4>1, <4>2
    <3> QED BY <2>5, <3>1, <3>3, <3>4, Zenon DEF CutsSoFar
  <2> QED BY <1>1, <1>6, <2>3, <2>4, <2>5, <2>6, <2>7, <2>8, <2>9 DEF FoldInv, n, g
<1> QED BY <1>7, <1>8 DEF n, g

\* The loop invariant holds after every iteration.
LEMMA FoldInvHolds ==
  ASSUME order \in Seq(Pipelines), order # << >>, jumps \in [Pipelines -> SUBSET Pipelines]
  PROVE  \A k \in 0 .. Len(order) : FoldInv(Fold[k], k)
<1> DEFINE T == {k \in 0 .. Len(order) : ~FoldInv(Fold[k], k)}
<1>1. Len(order) \in Nat \ {0} /\ order[1] \in Pipelines
  BY LenProperties, EmptySeq, ElementOfSeq
<1>2. SUFFICES ASSUME T # {} PROVE FALSE
  OBVIOUS
<1>3. PICK n \in T : \A m \in T : n <= m
  <2>1. T \in SUBSET Nat
    OBVIOUS
  <2> QED BY <1>2, <2>1, LeastExists
<1>4. n \in 0 .. Len(order) /\ ~FoldInv(Fold[n], n)
  OBVIOUS
<1>5. CASE n = 0
  <2>1. FirstState \in States
    BY <1>1, EmptySeq DEF FirstState, Open, States, MaybeName
  <2>2. FirstState.out = << >> /\ FirstState.cur.funcs = << >>
    BY DEF FirstState, Open
  <2>3. Covers(FirstState, 0)
    <3> DEFINE upTo == [j \in 0 .. 0 |-> << >>]
    <3>1. Len(<< >>) = 0 /\ << >> \o << >> = << >>
      OBVIOUS
    <3>2. upTo \in [0 .. Len(<< >>) -> Seq(Pipelines)]
      BY <3>1, EmptySeq
    <3>3. IsUpTo(upTo, << >>)
      BY <3>1 DEF IsUpTo
    <3>4. SubSeq(order, 1, 0) = << >>
      BY SubSeqEmpty
    <3>5. upTo[Len(<< >>)] \o << >> = SubSeq(order, 1, 0)
      BY <3>1, <3>4
    <3> HIDE DEF upTo
    <3> QED BY <2>2, <3>2, <3>3, <3>5, Zenon DEF Covers
  <2>4. TargetsOpen(FirstState, 0)
    BY DEF TargetsOpen
  <2>5. DOMAIN FirstState.out = {}
    BY <2>2
  <2>6. CutsSoFar(FirstState, 0)
    <3> DEFINE cuts == [s \in 0 .. 0 |-> 0]
    <3>1. Len(<< >>) = 0
      OBVIOUS
    <3>2. cuts \in [0 .. Len(<< >>) -> Nat]
      BY <3>1
    <3>3. IsCut(cuts, << >>)
      BY <3>1 DEF IsCut
    <3> HIDE DEF cuts
    <3> QED BY <2>2, <3>2, <3>3 DEF CutsSoFar
  <2>7. FoldInv(FirstState, 0)
    BY <2>1, <2>3, <2>4, <2>5, <2>6 DEF FoldInv, FirstState, AssertionsHold
  <2>8. Fold[0] = FirstState
    BY StagesOfIsFold
  <2> QED BY <1>4, <1>5, <2>7, <2>8
<1>6. CASE n # 0
  <2>1. n \in 1 .. Len(order) /\ n - 1 \in 0 .. Len(order) /\ n - 1 \notin T
    BY <1>1, <1>3, <1>4, <1>6
  <2>2. FoldInv(Fold[n - 1], n - 1)
    BY <2>1
  <2>3. Fold[n] = AddPipeline(Fold[n - 1], order[n])
    BY <2>1, StagesOfIsFold
  <2> QED BY <1>4, <2>1, <2>2, <2>3, FoldStep
<1> QED BY <1>5, <1>6

(***************************************************************************)
(* The stages.                                                             *)
(***************************************************************************)

\* The concatenation that StagesServeJumps talks about.
StagesCover(out, sequence) ==
  LET upTo[k \in 0 .. Len(out)] == IF k = 0 THEN << >> ELSE upTo[k - 1] \o out[k][3]
  IN  upTo[Len(out)] = sequence

\* Where the stages lie in the order, and which must be there.
StagesPlaced(out) ==
  /\ out # << >>
  /\ \E cuts \in [0 .. Len(out) -> Nat] : IsCut(cuts, out) /\ cuts[Len(out)] = Len(order)
  /\ \A s \in DOMAIN out : StageOK(out[s][1], out[s][2], out[s][3])
  /\ \A n \in JumpTargets \cap Members(order) : \E m \in DOMAIN out : out[m][1] = <<n>>

\* When the first pipeline is no target, every assertion of flush_stages holds.
LEMMA FlushesOk ==
  ASSUME order \in Seq(Pipelines), order # << >>, jumps \in [Pipelines -> SUBSET Pipelines],
         order[1] \notin JumpTargets
  PROVE  StagesOf.ok
<1> DEFINE f == Fold[Len(order)]
<1>1. Len(order) \in Nat \ {0}
  BY LenProperties, EmptySeq
<1>2. FoldInv(f, Len(order))
  BY <1>1, FoldInvHolds
<1>3. f.ok = TRUE /\ f.cur.funcs # << >> /\ f.cur.name # NoName
  <2>1. AssertionsHold(f) /\ StageOK(f.cur.name, f.cur.jumps, f.cur.funcs)
    BY <1>1, <1>2 DEF FoldInv
  <2>2. f.ok = TRUE
    BY <2>1 DEF AssertionsHold
  <2>3. f.cur.funcs # << >> /\ f.cur.name = <<f.cur.funcs[1]>>
    BY <2>1 DEF StageOK
  <2> QED BY <2>2, <2>3, Nonempty
<1>4. StagesOf = Flushed(f)
  BY StagesOfIsFold
<1> QED BY <1>3, <1>4 DEF Flushed

\* What the add_stage calls are like when all jump targets are names in the order.
LEMMA StagesCorrect ==
  ASSUME order \in Seq(Pipelines), order # << >>, jumps \in [Pipelines -> SUBSET Pipelines],
         UNION {jumps[n] : n \in Members(order)} \subseteq Members(order)
  PROVE  LET out == StagesOf.out
         IN  /\ out \in Seq(Stages)
             /\ StagesCover(out, order)
             /\ \A s \in DOMAIN out :
                  /\ StageOK(out[s][1], out[s][2], out[s][3])
                  /\ \A j \in out[s][2] : \E m \in DOMAIN out : out[m][1] = <<j>>
             /\ StagesPlaced(out)
<1> DEFINE N == Len(order)
           f == Fold[N]
           st == <<f.cur.name, f.cur.jumps, f.cur.funcs>>
           out == Append(f.out, st)
<1>1. N \in Nat \ {0} /\ DOMAIN order = 1 .. N
  BY LenProperties, EmptySeq
<1>2. FoldInv(f, N)
  BY <1>1, FoldInvHolds
<1>3. f \in States /\ Covers(f, N) /\ TargetsOpen(f, N)
      /\ StageOK(f.cur.name, f.cur.jumps, f.cur.funcs)
  BY <1>1, <1>2 DEF FoldInv
<1>4. StagesOf.out = out
  BY <1>3, StagesOfIsFold DEF Flushed, StageOK
<1>5. /\ out \in Seq(Stages)
      /\ DOMAIN out = 1 .. Len(f.out) + 1 /\ Len(out) = Len(f.out) + 1
      /\ Len(f.out) \in Nat /\ DOMAIN f.out = 1 .. Len(f.out)
      /\ \A s \in DOMAIN f.out : out[s] = f.out[s]
      /\ out[Len(f.out) + 1] = st
      /\ \E upTo \in [0 .. Len(out) -> Seq(Pipelines)] :
           IsUpTo(upTo, out) /\ upTo[Len(out)] = SubSeq(order, 1, N)
  BY <1>3, CloseStage
<1>6. \E cuts \in [0 .. Len(out) -> Nat] : IsCut(cuts, out) /\ cuts[Len(out)] = N
  <2>1. CutsSoFar(f, N) /\ f.cur.funcs[Len(f.cur.funcs)] = order[N]
    BY <1>1, <1>2 DEF FoldInv
  <2> HIDE DEF f
  <2>2. PICK cuts \in [0 .. Len(out) -> Nat] :
          IsCut(cuts, out) /\ cuts[Len(out)] = N /\ \A s \in 0 .. Len(out) : cuts[s] < N + 1
    BY <1>1, <1>3, <2>1, CloseCut
  <2> QED BY <2>2
<1> HIDE DEF f, out
<1>7. StagesCover(out, order)
  <2>1. PICK u \in [0 .. Len(out) -> Seq(Pipelines)] :
          IsUpTo(u, out) /\ u[Len(out)] = SubSeq(order, 1, N)
    BY <1>5
  <2> DEFINE v == CHOOSE upTo : IsUpTo(upTo, out)
  <2>2. IsUpTo(v, out)
    BY <2>1
  <2>3. u = v
    BY <1>5, <2>1, <2>2, UpToUnique
  <2>4. SubSeq(order, 1, N) = order
    BY SubSeqFull
  <2>5. v[Len(out)] = order
    BY <2>1, <2>3, <2>4
  <2> QED BY <2>5 DEF StagesCover, IsUpTo
<1>8. ASSUME NEW s \in DOMAIN out PROVE StageOK(out[s][1], out[s][2], out[s][3])
  <2>1. CASE s \in DOMAIN f.out
    BY <1>2, <1>5, <2>1 DEF FoldInv
  <2>2. CASE s = Len(f.out) + 1
    BY <1>3, <1>5, <2>2
  <2> QED BY <1>5, <2>1, <2>2
<1>9. ASSUME NEW k \in 1 .. N, order[k] \in JumpTargets
      PROVE  \E m \in DOMAIN out : out[m][1] = <<order[k]>>
  <2>1. CASE f.cur.name = <<order[k]>>
    <3>1. Len(f.out) + 1 \in DOMAIN out /\ out[Len(f.out) + 1][1] = <<order[k]>>
      BY <1>5, <2>1
    <3> QED BY <3>1, Zenon
  <2>2. CASE f.cur.name # <<order[k]>>
    <3>1. PICK m \in DOMAIN f.out : f.out[m][1] = <<order[k]>>
      BY <1>3, <1>9, <2>2 DEF TargetsOpen
    <3>2. m \in DOMAIN out /\ out[m][1] = <<order[k]>>
      BY <1>5, <3>1
    <3> QED BY <3>2, Zenon
  <2> QED BY <2>1, <2>2
<1>10. ASSUME NEW s \in DOMAIN out, NEW j \in out[s][2]
      PROVE  \E m \in DOMAIN out : out[m][1] = <<j>>
  <2>1. PICK n \in Members(order) : out[s][2] = jumps[n]
    BY <1>8 DEF StageOK
  <2>2. j \in JumpTargets /\ j \in Members(order)
    BY <1>10, <2>1 DEF JumpTargets
  <2>3. PICK k \in 1 .. N : order[k] = j
    BY <1>1, <2>2 DEF Members
  <2> QED BY <1>9, <2>2, <2>3
<1>11. StagesPlaced(out)
  <2>1. \A n \in JumpTargets \cap Members(order) : \E m \in DOMAIN out : out[m][1] = <<n>>
    BY <1>1, <1>9 DEF Members
  <2>2. \E cuts \in [0 .. Len(out) -> Nat] : IsCut(cuts, out) /\ cuts[Len(out)] = Len(order)
    BY <1>6
  <2>3. out # << >>
    BY <1>5
  <2> QED BY <1>8, <2>1, <2>2, <2>3 DEF StagesPlaced
<1> QED BY <1>4, <1>5, <1>7, <1>8, <1>10, <1>11

(***************************************************************************)
(* The theorems.                                                           *)
(***************************************************************************)

StagesTyped == stages \in Seq(Stages)

\* The second half of StagesServeJumps.
JumpsServed(out, declared) ==
  \A k \in DOMAIN out :
    /\ out[k][1] = <<out[k][3][1]>>
    /\ \A i \in DOMAIN out[k][3] : declared[out[k][3][i]] # {} =>
         i = Len(out[k][3]) /\ out[k][2] = declared[out[k][3][i]]
    /\ \A j \in out[k][2] : \E m \in DOMAIN out : out[m][1] = <<j>>

\* StagesServeJumps in two parts, in this state and in the next.
LEMMA ServeJumpsParts ==
  /\ StagesServeJumps <=> (phase = "done" => StagesCover(stages, order) /\ JumpsServed(stages, jumps))
  /\ StagesServeJumps' <=> (phase = "done" => StagesCover(stages, order) /\ JumpsServed(stages, jumps))'
BY Zenon DEF StagesServeJumps, StagesCover, JumpsServed

\* Where the stages lie is a matter of these three variables.
LEMMA PlacedKept == UNCHANGED <<order, jumps, stages>> => (StagesPlaced(stages)' <=> StagesPlaced(stages))
<1> SUFFICES ASSUME UNCHANGED <<order, jumps, stages>>
             PROVE  StagesPlaced(stages)' <=> StagesPlaced(stages)
  OBVIOUS
<1>1. JumpTargets' = JumpTargets /\ Members(order)' = Members(order)
  BY DEF JumpTargets, Members
<1>2. ASSUME NEW name, NEW jumpsOf, NEW funcs
      PROVE  StageOK(name, jumpsOf, funcs)' <=> StageOK(name, jumpsOf, funcs)
  BY <1>1, Zenon DEF StageOK
<1> QED BY <1>1, <1>2, Zenon DEF StagesPlaced, IsCut

StagesInv ==
  /\ StagesTyped
  /\ AssertedFor
  /\ StagesServeJumps
  /\ phase = "done" => StagesPlaced(stages)

\* Only Cut makes stages.
LEMMA StagesNext == RegistryInv /\ StagesInv /\ [Next]_vars => StagesInv'
<1> SUFFICES ASSUME RegistryInv, StagesInv, [Next]_vars
             PROVE  StagesInv'
  OBVIOUS
<1>1. CASE Cut /\ phase' = "done"
  <2>1. /\ order # << >> /\ stages' = StagesOf.out
        /\ UNION {jumps[n] : n \in Members(order)} \subseteq known
        /\ phase = "sort" /\ roots = {} /\ stack = << >>
        /\ UNCHANGED <<order, jumps>>
    BY <1>1 DEF Cut, Fail, Abort, deps, walk
  <2>2. known \subseteq Members(order)
    BY <2>1 DEF RegistryInv, SortTypeOK, Partition, Covered, Sorting, Members
  <2>3. order \in Seq(Pipelines) /\ jumps \in [Pipelines -> SUBSET Pipelines]
    BY DEF RegistryInv, SortTypeOK
  <2> DEFINE out == StagesOf.out
  <2>4. /\ out \in Seq(Stages)
        /\ StagesCover(out, order)
        /\ \A s \in DOMAIN out :
             /\ StageOK(out[s][1], out[s][2], out[s][3])
             /\ \A j \in out[s][2] : \E m \in DOMAIN out : out[m][1] = <<j>>
        /\ StagesPlaced(out)
    BY <2>1, <2>2, <2>3, StagesCorrect
  <2> HIDE DEF out
  <2>5. stages' = out
    BY <2>1 DEF out
  <2>6. StagesCover(stages, order)'
    BY <2>1, <2>4, <2>5, Zenon
  <2>7. JumpsServed(out, jumps)
    BY <2>4 DEF StageOK, JumpsServed
  <2>8. JumpsServed(stages, jumps)'
    BY <2>1, <2>5, <2>7, Zenon
  <2>9. StagesPlaced(stages)'
    <3>1. JumpTargets' = JumpTargets /\ Members(order)' = Members(order)
      BY <2>1 DEF JumpTargets, Members
    <3>2. ASSUME NEW name, NEW jumpsOf, NEW funcs, StageOK(name, jumpsOf, funcs)
          PROVE  StageOK(name, jumpsOf, funcs)'
      BY <2>1, <3>1, <3>2, Zenon DEF StageOK
    <3> QED BY <2>1, <2>4, <2>5, <3>1, <3>2, Zenon DEF StagesPlaced, IsCut
  <2> QED BY <1>1, <2>4, <2>5, <2>6, <2>8, <2>9, ServeJumpsParts
          DEF StagesInv, StagesTyped, Stages, AssertedFor
<1>2. CASE ~(Cut /\ phase' = "done")
  <2>1. \/ phase' # "done" /\ UNCHANGED stages
        \/ UNCHANGED <<phase, stages, order, jumps>>
    BY <1>2
    DEF Next, Register, LinkDeps, VisitRoot, VisitPrev, Leave, Cut, Finished, Fail, Abort, vars,
        deps, walk
  <2>2. ASSUME UNCHANGED <<phase, stages, order, jumps>>
        PROVE  StagesServeJumps' /\ (phase' = "done" => StagesPlaced(stages)')
    <3>1. phase = "done" => StagesCover(stages, order) /\ JumpsServed(stages, jumps)
      BY ServeJumpsParts DEF StagesInv
    <3>2. (phase = "done" => StagesCover(stages, order) /\ JumpsServed(stages, jumps))'
      BY <2>2, <3>1, Zenon
    <3> QED BY <2>2, <3>2, ServeJumpsParts, PlacedKept DEF StagesInv
  <2>3. AssertedFor'
    <3>1. CASE Cut /\ phase' = "aborted"
      <4>1. (order = << >> \/ ~StagesOf.ok) /\ UNCHANGED <<order, jumps>>
        BY <3>1 DEF Cut, Fail, deps, walk
      <4>2. JumpTargets' = JumpTargets
        BY <4>1 DEF JumpTargets, Members
      <4>3. order = << >> \/ order[1] \in JumpTargets
        BY <4>1, FlushesOk DEF RegistryInv, SortTypeOK
      <4> QED BY <4>1, <4>2, <4>3 DEF AssertedFor
    <3>2. CASE ~(Cut /\ phase' = "aborted")
      <4>1. phase' # "aborted" \/ UNCHANGED <<phase, order, jumps>>
        BY <3>2
        DEF Next, Register, LinkDeps, VisitRoot, VisitPrev, Leave, Cut, Finished, Fail, Abort,
            vars, deps, walk
      <4> QED BY <4>1 DEF StagesInv, AssertedFor, JumpTargets, Members
    <3> QED BY <3>1, <3>2
  <2> QED BY <2>1, <2>2, <2>3, ServeJumpsParts DEF StagesInv, StagesTyped, Stages
<1> QED BY <1>1, <1>2

\* The stages are right from the first to the last state.
LEMMA StagesInvariant == Spec => []StagesInv
<1>1. Init => StagesInv
  BY EmptySeq DEF Init, StagesInv, StagesTyped, StagesServeJumps, AssertedFor
<1> QED BY <1>1, RegistryInvariant, StagesNext, PTL DEF Spec

\* The registry and its stages are well typed in every state.
THEOREM RegistryTypeCorrect == Spec => []TypeOK
<1>1. RegistryInv /\ StagesInv => TypeOK
  BY DEF RegistryInv, SortTypeOK, StagesInv, StagesTyped, Stages, TypeOK
<1> QED BY <1>1, RegistryInvariant, StagesInvariant, PTL

\* When no assertion fails, the stages are the order, cut behind every pipeline with
\* jumps and in front of every target, so the pass manager finds the stage of each
\* jump. RefusedForAReason bounds the other case: the first pipeline is a target.
THEOREM JumpsHaveStages == Spec => []StagesServeJumps
<1>1. StagesInv => StagesServeJumps
  BY DEF StagesInv
<1> QED BY <1>1, StagesInvariant, PTL

\* A registration that populate_pass_manager refuses could not have been accepted,
\* and the assertions stop it for no other reason than a stage in front of the very
\* first pipeline, or no pipeline.
THEOREM RefusedForAReason == Spec => []ErrorsJustified
<1>1. RegistryInv /\ StagesInv => ErrorsJustified
  BY DEF RegistryInv, StagesInv, ErrorsJustified
<1> QED BY <1>1, RegistryInvariant, StagesInvariant, PTL
=============================================================================
