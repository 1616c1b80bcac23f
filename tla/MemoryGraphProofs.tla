-------------------------- MODULE MemoryGraphProofs --------------------------
(***************************************************************************)
(* The second part of GraphConsistent, for every function body: no live    *)
(* node of the memory SSA graph has an erased one among its arguments      *)
(* (NothingDangles), from its construction through every rewriting.        *)
(*                                                                         *)
(* An erased store hands its users to its own argument. The invariant is   *)
(* how the nodes hang together (Linked): the dominator of a live Def is    *)
(* its argument but for erased Defs in between, which write the same, so   *)
(* getDef's walk passes no erased node; the dominator of a live Phi has    *)
(* two users or is one Phi's, so deadStoreElemination, which asks for one  *)
(* user that is a Def, does not erase it. It holds of the graph that       *)
(* memSSAProcessRegion builds, whose own invariant (Struct) also speaks of *)
(* the operations that are still open.                                     *)
(***************************************************************************)
EXTENDS MemoryOptProofs

(***************************************************************************)
(* How the nodes hang together: arguments, dominators and post-dominators. *)
(***************************************************************************)

\* The operations of two nodes write the same for all that is known of aliases.
Alike(b, m, n) == \A op : MayAlias(b[OpOf(m)], op) <=> MayAlias(b[OpOf(n)], op)

\* A node that needs two erasures to have one user, or has a Phi among them.
Joined(g, n) ==
  \E u, v \in DOMAIN g.args : /\ IsCore(u) /\ IsCore(v) /\ (u # v \/ Type(u) = "Phi")
                              /\ n \in Range(g.args[u]) /\ n \in Range(g.args[v])

\* The dominator of Def d is its argument, but for erased Defs I between the two.
Between(g, b, d, I) ==
  /\ I \subseteq DOMAIN g.args
  /\ g.dom[d] \in I \cup {g.args[d][1]}
  /\ \A n \in I : /\ n \notin Live(g) /\ Type(n) = "Def" /\ Alike(b, n, d)
                  /\ g.dom[n] \in I \cup {g.args[d][1]}

ArgumentsLive(g) == \A n \in Live(g) : Range(g.args[n]) \subseteq Live(g)
DefsLinked(g, b) == \A d \in Live(g) : Type(d) = "Def" => \E I : Between(g, b, d, I)
PhisJoined(g)    == \A p \in Live(g) : Type(p) = "Phi" => g.dom[p] \in Live(g) /\ Joined(g, g.dom[p])
PostsAgree(g)    == \A n \in Live(g) : g.pdom[n] # None => g.dom[g.pdom[n]] = n

RootAlone(g)     == \A n \in DOMAIN g.args : Type(n) = "Root" => n = Root

Linked(g, b) == RootAlone(g) /\ ArgumentsLive(g) /\ DefsLinked(g, b) /\ PhisJoined(g) /\ PostsAgree(g)

\* What a node of the graph writes conflicts with the same in two bodies.
SameWrites(g, b, c) ==
  \A n \in DOMAIN g.args : Type(n) = "Def" => \A op : MayAlias(c[OpOf(n)], op) <=> MayAlias(b[OpOf(n)], op)

\* Uses are moved or erased, and operands rewritten.
LEMMA LinkedSame ==
  ASSUME NEW g, NEW h, SameCores(g, h), NEW b, NEW c, SameWrites(g, b, c), Linked(g, b),
         h.pdom = g.pdom, ArgumentsLive(h),
         \A n \in DOMAIN g.args : IsCore(n) => (n \in Live(h) <=> n \in Live(g))
  PROVE  Linked(h, c)
<1>1. /\ Sound(g, {}) /\ Sound(h, {}) /\ DOMAIN h.args = DOMAIN g.args
      /\ \A n \in Cores(g) : h.args[n] = g.args[n] /\ h.dom[n] = g.dom[n]
  BY DEF SameCores
<1>2. Live(g) \subseteq DOMAIN g.args /\ Live(h) \subseteq DOMAIN g.args
  BY <1>1, GraphTypes DEF Sound
<1>3. \A n \in DOMAIN g.args : Type(n) \in {"Def", "Phi"} => n \in Cores(g)
  BY DEF Cores, IsCore, Core
<1>4. \A n \in DOMAIN g.args : IsCore(n) => n \in Cores(g)
  BY DEF Cores
<1>5. DefsLinked(h, c)
  <2> SUFFICES ASSUME NEW d \in Live(h), Type(d) = "Def" PROVE \E I : Between(h, c, d, I)
    BY DEF DefsLinked
  <2>1. d \in Cores(g) /\ d \in Live(g)
    BY <1>2, <1>3 DEF Cores
  <2>2. PICK I : Between(g, b, d, I)
    BY <2>1 DEF Linked, DefsLinked
  <2>3. \A n \in I : n \in Cores(g)
    BY <1>3, <2>2 DEF Between
  <2>4. \A n \in I : Alike(b, n, d) => Alike(c, n, d)
    BY <2>1, <2>2 DEF Alike, SameWrites, Between, Cores
  <2>5. Between(h, c, d, I)
    BY <1>1, <2>1, <2>2, <2>3, <2>4 DEF Between, Cores
  <2> QED BY <2>5
<1>6. PhisJoined(h)
  <2> SUFFICES ASSUME NEW p \in Live(h), Type(p) = "Phi" PROVE h.dom[p] \in Live(h) /\ Joined(h, h.dom[p])
    BY DEF PhisJoined
  <2>1. p \in Cores(g) /\ p \in Live(g)
    BY <1>2, <1>3 DEF Cores
  <2>2. g.dom[p] \in Live(g) /\ Joined(g, g.dom[p]) /\ h.dom[p] = g.dom[p]
    BY <1>1, <2>1 DEF Linked, PhisJoined
  <2>3. IsCore(g.dom[p])
    <3>1. p \in DOMAIN g.args /\ g.dom[p] # None
      BY <1>1, <1>2, <2>1, <2>2, GraphTypes DEF Sound
    <3> QED BY <1>1, <3>1 DEF Sound, NodeFine, Before
  <2>4. g.dom[p] \in Live(h)
    BY <1>2, <2>2, <2>3
  <2>5. Joined(h, g.dom[p])
    BY <1>1, <1>4, <2>2 DEF Joined
  <2> QED BY <2>2, <2>4, <2>5
<1>7. PostsAgree(h)
  <2> SUFFICES ASSUME NEW n \in Live(h), h.pdom[n] # None PROVE h.dom[h.pdom[n]] = n
    BY DEF PostsAgree
  <2>1. n \in DOMAIN g.args /\ g.pdom[n] # None /\ NodeFine(g, n) /\ IsGraph(g) /\ DOMAIN g.pdom = DOMAIN g.args
    BY <1>1, <1>2, GraphTypes DEF Sound
  <2>2. IsCore(n) /\ IsCore(g.pdom[n]) /\ g.pdom[n] \in DOMAIN g.args
    BY <2>1 DEF NodeFine, Before, IsGraph
  <2>3. n \in Live(g) /\ g.pdom[n] \in Cores(g)
    BY <1>4, <2>1, <2>2
  <2> QED BY <1>1, <2>1, <2>3 DEF Linked, PostsAgree
<1> QED BY <1>1, <1>5, <1>6, <1>7 DEF Linked, RootAlone
\* A Def with one user, a Def, is erased: it is bypassed.
IsBypassed(g, d, next, h) ==
  /\ Sound(g, {}) /\ Sound(h, {}) /\ IsFiniteSet(DOMAIN g.args)
  /\ DOMAIN h.args = DOMAIN g.args /\ Live(h) = Live(g) \ {d}
  /\ d \in Live(g) /\ Type(d) = "Def" /\ next \in Live(g) /\ Type(next) = "Def" /\ d # next
  /\ g.args[next][1] = d /\ h.args[next][1] = g.args[d][1]
  /\ \A n \in DOMAIN g.args : n \notin {d, next} => d \notin Range(g.args[n]) /\ h.args[n] = g.args[n]
  /\ g.pdom[d] = None => h.dom = g.dom /\ h.pdom = g.pdom
  /\ g.pdom[d] # None =>
       /\ h.dom = [g.dom EXCEPT ![g.pdom[d]] = g.args[d][1]]
       /\ h.pdom = [g.pdom EXCEPT ![g.args[d][1]] = IF g.pdom[g.args[d][1]] = None THEN g.pdom[d]
                                                     ELSE g.pdom[g.args[d][1]]]

\* The users of a node.
LEMMA UsersAre ==
  ASSUME NEW g, IsGraph(g), NEW n \in DOMAIN g.args, n # None
  PROVE  Users(g, n) = {u \in DOMAIN g.args : n \in Range(g.args[u])}
<1>1. /\ g.users[n] \in Seq(Nodes \X Nat) /\ Range(g.users[n]) = Uses(g.args, n)
      /\ DOMAIN g.args \subseteq Nodes
  BY GraphTypes DEF IsGraph, Listed
<1>2. ASSUME NEW u \in Users(g, n) PROVE u \in DOMAIN g.args /\ n \in Range(g.args[u])
  <2>1. PICK i \in DOMAIN g.users[n] : u = g.users[n][i][1]
    BY DEF Users
  <2>2. g.users[n][i] \in Uses(g.args, n)
    BY <1>1, <2>1 DEF Range
  <2> QED BY <2>1, <2>2 DEF Uses, Range
<1>3. ASSUME NEW u \in DOMAIN g.args, n \in Range(g.args[u]) PROVE u \in Users(g, n)
  <2>1. PICK i \in DOMAIN g.args[u] : g.args[u][i] = n
    BY <1>3 DEF Range
  <2>2. i \in Nat /\ u \in Nodes
    BY <1>1, <2>1, GraphTypes
  <2>3. <<u, i>> \in Uses(g.args, n)
    BY <2>1, <2>2 DEF Uses
  <2>4. PICK j \in DOMAIN g.users[n] : g.users[n][j] = <<u, i>>
    BY <1>1, <2>3 DEF Range
  <2> QED BY <2>4 DEF Users
<1> QED BY <1>2, <1>3

LEMMA DefErased ==
  ASSUME NEW g, Sound(g, {}), IsFiniteSet(DOMAIN g.args), NEW d \in Live(g), Type(d) = "Def",
         NEW next, Users(g, d) = {next}, Type(next) = "Def"
  PROVE  IsBypassed(g, d, next, EraseNode(g, d))
<1> DEFINE D == DOMAIN g.args
           prev == g.args[d][1]
           moved == ReplaceUses(g, d, prev)
           post == g.pdom[d]
           h == Bypass(g, d)
           none == [i \in DOMAIN h.args[d] |-> None]
           k == SetArguments(h, d, none)
           e == EraseNode(g, d)
<1>1. /\ IsGraph(g) /\ D \subseteq Nodes /\ None \notin D /\ d \in D
      /\ g.dom \in [D -> D \cup {None}] /\ g.pdom \in [D -> D \cup {None}]
  BY GraphTypes DEF Sound, IsGraph
<1>2. NodeFine(g, d) /\ Settled(g, d) /\ IsCore(d) /\ d # Root /\ Arity(d) = 1
  BY <1>1 DEF Sound, IsCore, Core, Type, Root, Arity
<1>3. prev \in D /\ IsCore(prev) /\ Before(prev, d) /\ prev # None
  <2>1. 1 \in DOMAIN g.args[d] /\ MayUse(d, prev) /\ prev # None
    BY <1>2 DEF NodeFine, Settled
  <2> QED BY <1>1, <1>2, <2>1, GraphTypes DEF MayUse
<1>4. /\ moved.args = Renamed(g.args, d, prev)
      /\ moved.nodes = g.nodes /\ moved.dom = g.dom /\ moved.pdom = g.pdom
      /\ IsGraph(moved)
  <2>1. Before(prev, d) /\ IsCore(d) /\ prev \in D /\ d \in D
    BY <1>1, <1>2, <1>3
  <2> HIDE DEF prev
  <2>2. Sound(moved, {}) /\ moved.args = Renamed(g.args, d, prev) /\ SameNodes(g, moved)
    BY <2>1, UsesReplaced
  <2> QED BY <2>2 DEF SameNodes, Sound
<1>5. Sound(h, {}) /\ DOMAIN h.args = D /\ h.nodes = g.nodes
  BY <1>1, <1>2, <1>3, Bypassed
<1>6. /\ h.args = Renamed(g.args, d, prev)
      /\ post = None => h.dom = g.dom /\ h.pdom = g.pdom
      /\ post # None => /\ h.dom = [g.dom EXCEPT ![post] = prev]
                        /\ h.pdom = [g.pdom EXCEPT ![prev] = IF g.pdom[prev] = None THEN post ELSE g.pdom[prev]]
  <2>1. CASE post = None
    BY <1>4, <2>1 DEF Bypass
  <2>2. CASE post # None
    <3>1. h = [moved EXCEPT !.dom[post] = prev, !.pdom[prev] = IF @ = None THEN post ELSE @]
      BY <2>2 DEF Bypass
    <3>2. moved = [nodes |-> moved.nodes, args |-> moved.args, users |-> moved.users, dom |-> moved.dom, pdom |-> moved.pdom]
      BY <1>4 DEF IsGraph
    <3> HIDE DEF moved, post, prev, h
    <3>3. h.args = moved.args /\ h.dom = [moved.dom EXCEPT ![post] = prev]
          /\ h.pdom = [moved.pdom EXCEPT ![prev] = IF moved.pdom[prev] = None THEN post ELSE moved.pdom[prev]]
      BY <3>1, <3>2
    <3> QED BY <1>4, <2>2, <3>3
  <2> QED BY <2>1, <2>2
<1>7. e = [k EXCEPT !.nodes = Without(k.nodes, d)]
  BY DEF EraseNode
<1>8. /\ DOMAIN k.args = D /\ k.args[d] = none
      /\ (\A u \in D : u # d => k.args[u] = h.args[u])
      /\ SameNodes(h, k) /\ Sound(k, {d})
  <2>1. Sound(h, {d}) /\ d \in DOMAIN h.args
    BY <1>1, <1>5, MoreOpen
  <2>2. Fitting(h, d, none)
    <3>1. DOMAIN h.args[d] = 1 .. Arity(d)
      BY <1>1, <1>5 DEF Sound, NodeFine
    <3>2. none \in Seq(D \cup {None}) /\ Len(none) = Arity(d) /\ DOMAIN none = 1 .. Arity(d)
      BY <1>2, <3>1, SeqDef
    <3>3. \A i \in 1 .. Arity(d) : none[i] = None
      BY <3>1
    <3> HIDE DEF none
    <3> QED BY <1>5, <3>2, <3>3 DEF Fitting, MayUse
  <2> HIDE DEF h, none
  <2> QED BY <1>2, <1>5, <2>1, <2>2, ArgumentsSet
<1>9. e.args = k.args /\ e.dom = h.dom /\ e.pdom = h.pdom
  <2>1. k = [nodes |-> k.nodes, args |-> k.args, users |-> k.users, dom |-> k.dom, pdom |-> k.pdom]
    BY <1>8 DEF Sound, IsGraph
  <2> HIDE DEF k, h, e
  <2> QED BY <1>7, <1>8, <2>1 DEF SameNodes
<1>10. Sound(e, {}) /\ DOMAIN e.args = D /\ Live(e) = Live(g) \ {d}
  <2>1. g.args[d][1] # None
    BY <1>3
  <2> HIDE DEF e
  <2> QED BY <1>1, <1>2, <2>1, NodeErased DEF e
<1>11. next \in D /\ d \in Range(g.args[next]) /\ \A n \in D : d \in Range(g.args[n]) => n = next
  <2>1. Users(g, d) = {u \in D : d \in Range(g.args[u])}
    BY <1>1, UsersAre
  <2> QED BY <2>1
<1>12. g.args[next][1] = d /\ DOMAIN g.args[next] = {1} /\ next \in Live(g) /\ d # next
  <2>1. NodeFine(g, next) /\ Arity(next) = 1 /\ IsCore(next) /\ DOMAIN g.args[next] = {1}
    BY <1>11 DEF Sound, NodeFine, Arity, Type, Root, IsCore, Core
  <2>2. g.args[next][1] = d
    BY <1>11, <2>1 DEF Range
  <2>3. next \in Live(g)
    BY <1>1, <2>1, <2>2 DEF NodeFine
  <2>4. Before(d, next) \/ d = None
    BY <2>1, <2>2 DEF NodeFine, MayUse
  <2> QED BY <1>1, <2>1, <2>2, <2>3, <2>4 DEF Before, Nodes, OpOf
<1> HIDE DEF h, k, e, moved, none
<1>13. e.args[next][1] = prev
  <2>1. e.args[next] = Renamed(g.args, d, prev)[next]
    BY <1>6, <1>8, <1>9, <1>11, <1>12
  <2> QED BY <1>11, <1>12, <2>1 DEF Renamed
<1>14. ASSUME NEW n \in D, n \notin {d, next} PROVE d \notin Range(g.args[n]) /\ e.args[n] = g.args[n]
  <2>1. d \notin Range(g.args[n])
    BY <1>11, <1>14
  <2>2. e.args[n] = [i \in DOMAIN g.args[n] |-> g.args[n][i]]
    <3>1. e.args[n] = Renamed(g.args, d, prev)[n]
      BY <1>6, <1>8, <1>9, <1>14
    <3> QED BY <1>14, <2>1, <3>1 DEF Renamed, Range
  <2>3. g.args[n] \in Seq(D \cup {None})
    BY <1>1, GraphTypes
  <2> QED BY <2>1, <2>2, <2>3
<1> HIDE DEF prev, post
<1> QED BY <1>6, <1>9, <1>10, <1>12, <1>13, <1>14 DEF IsBypassed, prev, post, e

(***************************************************************************)
(* A Def is bypassed.                                                      *)
(***************************************************************************)

CanBypass(g, b, d, next, h) ==
  IsBypassed(g, d, next, h) /\ Linked(g, b) /\ Alike(b, d, next)

LEMMA BypassFacts ==
  ASSUME NEW g, NEW b, NEW d, NEW next, NEW h, CanBypass(g, b, d, next, h)
  PROVE  /\ Sound(g, {}) /\ Sound(h, {}) /\ DOMAIN h.args = DOMAIN g.args /\ Live(h) = Live(g) \ {d}
         /\ d \in Cores(g) /\ next \in Cores(g) /\ d # None /\ d \in Live(g) /\ next \in Live(g)
         /\ g.args[d][1] \in Live(g) /\ g.args[d][1] \in Cores(g) /\ g.args[d][1] # d /\ g.args[d][1] # None
         /\ \A n \in DOMAIN g.args : d \in Range(g.args[n]) => n = next
         /\ \A n \in DOMAIN g.args : h.dom[n] = g.dom[n] \/ (g.dom[n] = d /\ h.dom[n] = g.args[d][1])
<1> DEFINE D == DOMAIN g.args
           prev == g.args[d][1]
<1>1. /\ Sound(g, {}) /\ Sound(h, {}) /\ DOMAIN h.args = D /\ Live(h) = Live(g) \ {d}
      /\ d \in Live(g) /\ next \in Live(g) /\ Type(d) = "Def" /\ Type(next) = "Def"
  BY DEF CanBypass, IsBypassed
<1>2. /\ D \subseteq Nodes /\ None \notin D /\ Live(g) \subseteq D /\ d \in D /\ next \in D
      /\ g.dom \in [D -> D \cup {None}] /\ g.pdom \in [D -> D \cup {None}]
  BY <1>1, GraphTypes DEF Sound, IsGraph
<1>3. NodeFine(g, d) /\ Settled(g, d) /\ IsCore(d) /\ d # Root /\ Arity(d) = 1 /\ IsCore(next)
  BY <1>1, <1>2 DEF Sound, IsCore, Core, Type, Root, Arity
<1>4. 1 \in DOMAIN g.args[d] /\ MayUse(d, prev) /\ prev # None /\ DOMAIN g.args[d] = {1}
  BY <1>1, <1>3 DEF NodeFine, Settled
<1>5. prev \in Live(g) /\ prev \in D /\ IsCore(prev) /\ Before(prev, d)
  <2>1. prev \in Range(g.args[d])
    BY <1>4 DEF Range
  <2>2. prev \in Live(g)
    BY <1>1, <2>1 DEF CanBypass, Linked, ArgumentsLive
  <2> QED BY <1>1, <1>2, <1>4, <2>2 DEF MayUse
<1>6. prev # d
  BY <1>2, <1>3, <1>5 DEF Before, Nodes, OpOf
<1>7. ASSUME NEW n \in D, d \in Range(g.args[n]) PROVE n = next
  <2>1. n \in {d, next}
    BY <1>7 DEF CanBypass, IsBypassed
  <2>2. d \notin Range(g.args[d])
    BY <1>4, <1>6 DEF Range
  <2> QED BY <1>7, <2>1, <2>2
<1>8. ASSUME NEW n \in D PROVE h.dom[n] = g.dom[n] \/ (g.dom[n] = d /\ h.dom[n] = prev)
  <2>1. CASE g.pdom[d] = None
    BY <2>1 DEF CanBypass, IsBypassed
  <2>2. CASE g.pdom[d] # None
    <3>1. g.dom[g.pdom[d]] = d
      BY <1>1, <2>2 DEF CanBypass, Linked, PostsAgree
    <3>2. h.dom = [g.dom EXCEPT ![g.pdom[d]] = prev]
      BY <2>2 DEF CanBypass, IsBypassed
    <3> QED BY <1>2, <3>1, <3>2
  <2> QED BY <2>1, <2>2
<1> QED BY <1>1, <1>2, <1>3, <1>4, <1>5, <1>6, <1>7, <1>8 DEF Cores

\* The nodes that walks from live nodes visit.
Reachable(g, b, n) ==
  n \in DOMAIN g.args /\ (\/ n \in Live(g) /\ IsCore(n)
                          \/ \E d \in Live(g) : Type(d) = "Def" /\ \E I : Between(g, b, d, I) /\ n \in I)

LEMMA RootHasNoDominator ==
  ASSUME NEW g, Sound(g, {}), Root \in DOMAIN g.args
  PROVE  g.dom[Root] = None
<1>1. NodeFine(g, Root) /\ DOMAIN g.args \subseteq Nodes /\ g.dom \in [DOMAIN g.args -> DOMAIN g.args \cup {None}]
  BY GraphTypes DEF Sound, IsGraph
<1>2. IsCore(Root) /\ OpOf(Root) = 0
  BY DEF Root, IsCore, Core, Type, OpOf
<1>3. ASSUME g.dom[Root] # None PROVE FALSE
  <2>1. Before(g.dom[Root], Root) /\ g.dom[Root] \in Nodes
    BY <1>1, <1>3 DEF NodeFine
  <2>2. OpOf(g.dom[Root]) \in Nat
    BY <2>1 DEF Nodes, OpOf
  <2> QED BY <1>2, <2>1, <2>2 DEF Before
<1> QED BY <1>3

LEMMA DefDominator ==
  ASSUME NEW g, Sound(g, {}), NEW b, ArgumentsLive(g), NEW d \in Live(g), Type(d) = "Def", NEW I, Between(g, b, d, I),
         NEW n \in I \cup {d}
  PROVE  /\ g.args[d][1] \in Live(g) /\ g.args[d][1] \in Cores(g)
         /\ n \in Cores(g) /\ Type(n) = "Def"
         /\ Dominator(g, n) = g.dom[n] /\ g.dom[n] # None
         /\ g.dom[n] \in I \cup {g.args[d][1]}
<1>1. Live(g) \subseteq DOMAIN g.args /\ None \notin DOMAIN g.args
  BY GraphTypes DEF Sound
<1>2. NodeFine(g, d) /\ Settled(g, d) /\ d # Root /\ Arity(d) = 1 /\ d \in DOMAIN g.args
  BY <1>1 DEF Sound, Type, Root, Arity
<1>3. g.args[d][1] # None /\ 1 \in DOMAIN g.args[d] /\ MayUse(d, g.args[d][1])
  BY <1>2 DEF NodeFine, Settled
<1>4. g.args[d][1] \in Live(g)
  BY <1>3 DEF ArgumentsLive, Range
<1>5. g.args[d][1] \in Cores(g)
  BY <1>1, <1>3, <1>4 DEF MayUse, Cores
<1>6. n \in DOMAIN g.args /\ Type(n) = "Def" /\ g.dom[n] \in I \cup {g.args[d][1]}
  BY <1>2 DEF Between
<1>7. n \in Cores(g)
  BY <1>6 DEF Cores, IsCore, Core
<1>8. I \subseteq DOMAIN g.args
  BY DEF Between
<1>9. g.dom[n] # None
  BY <1>1, <1>3, <1>6, <1>8
<1> QED BY <1>4, <1>5, <1>6, <1>7, <1>9 DEF Dominator

LEMMA LivePhi ==
  ASSUME NEW g, Sound(g, {}), ArgumentsLive(g), PhisJoined(g), NEW p \in Live(g), Type(p) = "Phi"
  PROVE  /\ p \in Cores(g) /\ p # Root
         /\ Dominator(g, p) = g.dom[p] /\ g.dom[p] \in Live(g) /\ g.dom[p] \in Cores(g)
         /\ \A n \in Range(g.args[p]) : n \in Live(g) /\ n \in Cores(g) /\ n # None
<1>1. Live(g) \subseteq DOMAIN g.args /\ None \notin DOMAIN g.args
  BY GraphTypes DEF Sound
<1>2. NodeFine(g, p) /\ Settled(g, p) /\ p # Root /\ IsCore(p) /\ p \in DOMAIN g.args
  BY <1>1 DEF Sound, Type, Root, IsCore, Core
<1>3. g.dom[p] \in Live(g) /\ g.dom[p] # None
  BY <1>1 DEF PhisJoined
<1>4. IsCore(g.dom[p])
  BY <1>2, <1>3 DEF NodeFine, Before
<1>5. ASSUME NEW n \in Range(g.args[p]) PROVE n \in Live(g) /\ n \in Cores(g) /\ n # None
  <2>1. n \in Live(g)
    BY DEF ArgumentsLive
  <2>2. PICK i \in DOMAIN g.args[p] : n = g.args[p][i]
    BY DEF Range
  <2>3. MayUse(p, n)
    BY <1>2, <2>2 DEF NodeFine
  <2> QED BY <1>1, <2>1, <2>3 DEF MayUse, Cores
<1> QED BY <1>1, <1>2, <1>3, <1>4, <1>5 DEF Dominator, Cores

LEMMA VisiblePredecessors ==
  ASSUME NEW g, Sound(g, {}), NEW b, Linked(g, b), NEW n, Reachable(g, b, n), NEW stop, NEW m \in Predecessors(g, n, stop)
  PROVE  Reachable(g, b, m) /\ m # None /\ m # stop
<1>1. m # None /\ m # stop /\ (m = Dominator(g, n) \/ (Type(n) = "Phi" /\ m \in Range(g.args[n])))
  BY DEF Predecessors
<1>2. Live(g) \subseteq DOMAIN g.args
  BY GraphTypes DEF Sound
<1>3. ArgumentsLive(g) /\ DefsLinked(g, b) /\ PhisJoined(g)
  BY DEF Linked
<1>4. ASSUME NEW d \in Live(g), Type(d) = "Def", NEW I, Between(g, b, d, I), n \in I \cup {d}
      PROVE  Reachable(g, b, m)
  <2>1. /\ Type(n) = "Def" /\ Dominator(g, n) = g.dom[n] /\ g.dom[n] \in I \cup {g.args[d][1]}
        /\ g.args[d][1] \in Live(g) /\ g.args[d][1] \in Cores(g)
    BY <1>3, <1>4, DefDominator
  <2>2. m = g.dom[n]
    BY <1>1, <2>1
  <2>3. I \subseteq DOMAIN g.args
    BY <1>4 DEF Between
  <2> QED BY <1>2, <1>4, <2>1, <2>2, <2>3 DEF Reachable, Cores
<1>5. CASE n \in Live(g) /\ Type(n) = "Phi"
  <2>1. m \in Live(g) /\ m \in Cores(g)
    BY <1>1, <1>3, <1>5, LivePhi
  <2> QED BY <1>1, <1>2, <2>1 DEF Reachable, Cores
<1>6. CASE n \in Live(g) /\ Type(n) = "Def"
  <2>1. PICK I : Between(g, b, n, I)
    BY <1>3, <1>6 DEF DefsLinked
  <2> QED BY <1>1, <1>4, <1>6, <2>1
<1>7. CASE n \in Live(g) /\ Type(n) = "Root"
  <2>1. n = Root /\ Root \in DOMAIN g.args
    BY <1>2, <1>7 DEF Linked, RootAlone
  <2> QED BY <1>1, <1>7, <2>1, RootHasNoDominator DEF Dominator, Type
<1>8. CASE ~(n \in Live(g) /\ IsCore(n))
  <2>1. PICK d \in Live(g) : Type(d) = "Def" /\ \E I : Between(g, b, d, I) /\ n \in I
    BY <1>8 DEF Reachable
  <2>2. PICK I : Between(g, b, d, I) /\ n \in I
    BY <2>1
  <2> QED BY <1>1, <1>4, <2>1, <2>2
<1> QED BY <1>5, <1>6, <1>7, <1>8 DEF IsCore, Core

\* What comes before the bypassed Def has it as its dominator only if it writes alike.
LEMMA DominatedAlike ==
  ASSUME NEW g, NEW b, NEW d, NEW next, NEW h, CanBypass(g, b, d, next, h), NEW n, Reachable(g, b, n), g.dom[n] = d
  PROVE  Type(n) = "Def" /\ Alike(b, n, d)
<1>1. /\ Sound(g, {}) /\ Linked(g, b) /\ Alike(b, d, next) /\ d \in Live(g) /\ next \in Live(g) /\ d # None
      /\ g.args[d][1] # d /\ Type(next) = "Def" /\ d \in DOMAIN g.args /\ Type(d) = "Def"
      /\ \A m \in DOMAIN g.args : d \in Range(g.args[m]) => m = next
  BY BypassFacts DEF CanBypass, IsBypassed, Cores
<1>2. Live(g) \subseteq DOMAIN g.args
  BY <1>1, GraphTypes DEF Sound
<1>3. ASSUME NEW y \in Live(g), Type(y) = "Def", NEW I, Between(g, b, y, I), n \in I \cup {y}
      PROVE  Type(n) = "Def" /\ Alike(b, n, d)
  <2>1. Type(n) = "Def" /\ (n = y \/ Alike(b, n, y))
    BY <1>3 DEF Between
  <2>2. g.dom[n] \in I \cup {g.args[y][1]} /\ d \notin I
    BY <1>1, <1>3 DEF Between
  <2>3. g.args[y][1] = d
    BY <2>2
  <2>4. 1 \in DOMAIN g.args[y]
    <3>1. NodeFine(g, y) /\ y # Root /\ Arity(y) = 1
      BY <1>1, <1>2, <1>3 DEF Sound, Type, Root, Arity
    <3> QED BY <3>1 DEF NodeFine
  <2>5. y = next
    BY <1>1, <1>2, <2>3, <2>4 DEF Range
  <2> QED BY <1>1, <2>1, <2>5 DEF Alike
<1>4. CASE n \in Live(g) /\ Type(n) = "Phi"
  <2>1. Joined(g, d)
    BY <1>1, <1>4 DEF Linked, PhisJoined
  <2> QED BY <1>1, <2>1 DEF Joined
<1>5. CASE n \in Live(g) /\ Type(n) = "Def"
  <2>1. PICK I : Between(g, b, n, I)
    BY <1>1, <1>5 DEF Linked, DefsLinked
  <2> QED BY <1>3, <1>5, <2>1
<1>6. CASE n \in Live(g) /\ Type(n) = "Root"
  <2>1. n = Root /\ Root \in DOMAIN g.args
    BY <1>1, <1>2, <1>6 DEF Linked, RootAlone
  <2> QED BY <1>1, <2>1, RootHasNoDominator
<1>7. CASE ~(n \in Live(g) /\ IsCore(n))
  <2>1. PICK y \in Live(g) : Type(y) = "Def" /\ \E I : Between(g, b, y, I) /\ n \in I
    BY <1>7 DEF Reachable
  <2>2. PICK I : Between(g, b, y, I) /\ n \in I
    BY <2>1
  <2> QED BY <1>3, <2>1, <2>2
<1> QED BY <1>4, <1>5, <1>6, <1>7 DEF IsCore, Core

\* What checkPhisAlias has visited with and without Def d, which J follows: the walk
\* misses the bypassed nodes only when it has been at one that writes alike.
Covered(g, b, d, J, stop, S, T) ==
  \A n \in S : /\ Reachable(g, b, n)
               /\ n \notin T => /\ n \in J \cup {d}
                                /\ \E m \in T : Type(m) = "Def" /\ Alike(b, m, d)
                                /\ g.args[d][1] \in T \cup {stop}

LEMMA BehindBypassed ==
  ASSUME NEW g, NEW b, NEW d, NEW next, NEW h, CanBypass(g, b, d, next, h), NEW J, Between(g, b, d, J),
         NEW stop, NEW S, NEW T, Covered(g, b, d, J, stop, S, T)
  PROVE  Covered(g, b, d, J, stop, Behind(g, stop, S), Behind(h, stop, T))
<1> DEFINE prev == g.args[d][1]
<1>1. /\ Sound(g, {}) /\ Sound(h, {}) /\ Linked(g, b) /\ Alike(b, d, next) /\ d \in Live(g) /\ Type(d) = "Def"
      /\ DOMAIN h.args = DOMAIN g.args /\ prev # None
      /\ \A n \in DOMAIN g.args : h.dom[n] = g.dom[n] \/ (g.dom[n] = d /\ h.dom[n] = prev)
  BY BypassFacts DEF CanBypass, IsBypassed
<1>2. T \subseteq Behind(h, stop, T) /\ \A m \in T : Predecessors(h, m, stop) \subseteq Behind(h, stop, T)
  BY DEF Behind
<1>3. ASSUME NEW n \in S PROVE Reachable(g, b, n)
  BY DEF Covered
<1>4. ASSUME NEW n \in S, n \notin T
      PROVE  /\ n \in J \cup {d} /\ prev \in T \cup {stop}
             /\ \E m \in T : Type(m) = "Def" /\ Alike(b, m, d)
  BY <1>4 DEF Covered
<1>5. ArgumentsLive(g)
  BY <1>1 DEF Linked
<1> SUFFICES ASSUME NEW x \in Behind(g, stop, S)
             PROVE  /\ Reachable(g, b, x)
                    /\ x \notin Behind(h, stop, T) =>
                         /\ x \in J \cup {d}
                         /\ \E m \in Behind(h, stop, T) : Type(m) = "Def" /\ Alike(b, m, d)
                         /\ prev \in Behind(h, stop, T) \cup {stop}
  BY DEF Covered
<1>6. CASE x \in S
  BY <1>2, <1>3, <1>4, <1>6
<1>7. CASE x \notin S
  <2>1. PICK y \in S : x \in Predecessors(g, y, stop)
    BY <1>7 DEF Behind
  <2>2. Reachable(g, b, y) /\ Reachable(g, b, x) /\ x # None /\ x # stop
    BY <1>1, <1>3, <2>1, VisiblePredecessors
  <2>3. CASE y \notin T
    <3>1. y \in J \cup {d} /\ prev \in T \cup {stop} /\ \E m \in T : Type(m) = "Def" /\ Alike(b, m, d)
      BY <1>4, <2>3
    <3>2. Type(y) = "Def" /\ Dominator(g, y) = g.dom[y] /\ g.dom[y] \in J \cup {prev}
      BY <1>1, <1>5, <3>1, DefDominator
    <3>3. x \in J \cup {prev}
      BY <2>1, <3>2 DEF Predecessors
    <3> QED BY <1>2, <2>2, <3>1, <3>3
  <2>4. CASE y \in T
    <3>1. y \in DOMAIN g.args
      BY <2>2 DEF Reachable
    <3>2. CASE x \in Predecessors(h, y, stop)
      BY <1>2, <2>2, <2>4, <3>2
    <3>3. CASE x \notin Predecessors(h, y, stop)
      <4>1. Type(y) = "Phi" => Range(h.args[y]) = Range(g.args[y])
        <5>1. Type(y) = "Phi" => y \notin {d, next}
          BY DEF CanBypass, IsBypassed
        <5> QED BY <3>1, <5>1 DEF CanBypass, IsBypassed
      <4>2. x = Dominator(g, y) /\ x # Dominator(h, y)
        BY <2>1, <3>3, <4>1 DEF Predecessors
      <4>3. g.dom[y] # None
        <5>1. CASE y \in Live(g) /\ IsCore(y)
          <6>1. Type(y) = "Phi" => g.dom[y] # None
            <7>1. Live(g) \subseteq DOMAIN g.args /\ None \notin DOMAIN g.args
              BY <1>1, GraphTypes DEF Sound
            <7> QED BY <1>1, <5>1, <7>1 DEF Linked, PhisJoined
          <6>2. Type(y) = "Def" => g.dom[y] # None
            BY <1>1, <1>5, <5>1, DefDominator DEF Linked, DefsLinked
          <6>3. Type(y) = "Root" => Dominator(g, y) = None
            <7>1. Type(y) = "Root" => y = Root
              BY <1>1, <3>1 DEF Linked, RootAlone
            <7> QED BY <1>1, <3>1, <7>1, RootHasNoDominator DEF Dominator
          <6> QED BY <2>2, <4>2, <5>1, <6>1, <6>2, <6>3 DEF IsCore, Core
        <5>2. CASE ~(y \in Live(g) /\ IsCore(y))
          <6>1. PICK z \in Live(g) : Type(z) = "Def" /\ \E I : Between(g, b, z, I) /\ y \in I
            BY <2>2, <5>2 DEF Reachable
          <6>2. PICK I : Between(g, b, z, I) /\ y \in I
            BY <6>1
          <6> QED BY <1>1, <1>5, <6>1, <6>2, DefDominator
        <5> QED BY <5>1, <5>2
      <4>4. x = g.dom[y]
        BY <4>2, <4>3 DEF Dominator
      <4>5. g.dom[y] = d /\ h.dom[y] = prev
        BY <1>1, <3>1, <4>2, <4>3, <4>4 DEF Dominator
      <4>6. Type(y) = "Def" /\ Alike(b, y, d)
        BY <2>2, <4>5, DominatedAlike
      <4>7. prev \in Predecessors(h, y, stop) \cup {stop}
        BY <1>1, <4>5 DEF Dominator, Predecessors
      <4> QED BY <1>2, <2>2, <2>4, <4>4, <4>5, <4>6, <4>7
    <3> QED BY <3>2, <3>3
  <2> QED BY <2>3, <2>4
<1> QED BY <1>6, <1>7

LEMMA PhiStays ==
  ASSUME NEW g, NEW b, NEW d, NEW next, NEW h, CanBypass(g, b, d, next, h), NEW p \in Live(g), Type(p) = "Phi"
  PROVE  /\ Dominator(h, p) = Dominator(g, p) /\ h.args[p] = g.args[p] /\ p \in DOMAIN g.args
         /\ h.dom[p] = g.dom[p] /\ g.dom[p] # d /\ g.dom[p] \in Live(g)
         /\ \A n \in Range(g.args[p]) : n \in Live(g) /\ n \in Cores(g) /\ n # None /\ n # d
<1>0. Linked(g, b) /\ Type(d) = "Def" /\ Type(next) = "Def"
  BY DEF CanBypass, IsBypassed
<1>1. /\ Sound(g, {})
      /\ (\A n \in DOMAIN g.args : d \in Range(g.args[n]) => n = next)
      /\ \A n \in DOMAIN g.args : h.dom[n] = g.dom[n] \/ (g.dom[n] = d /\ h.dom[n] = g.args[d][1])
  BY BypassFacts
<1>2. /\ p \in Cores(g) /\ p # Root /\ p \in DOMAIN g.args
      /\ Dominator(g, p) = g.dom[p] /\ g.dom[p] \in Live(g) /\ g.dom[p] \in Cores(g)
      /\ \A n \in Range(g.args[p]) : n \in Live(g) /\ n \in Cores(g) /\ n # None
  BY <1>0, <1>1, LivePhi DEF Linked, Cores
<1>3. Reachable(g, b, p)
  BY <1>2 DEF Reachable, Cores
<1>4. g.dom[p] # d
  BY <1>0, <1>3, DominatedAlike
<1>5. h.dom[p] = g.dom[p] /\ g.dom[p] # None
  <2>1. None \notin DOMAIN g.args
    BY <1>1, GraphTypes DEF Sound
  <2> QED BY <1>1, <1>2, <1>4, <2>1 DEF Cores
<1>6. h.args[p] = g.args[p]
  BY <1>0, <1>1, <1>2 DEF CanBypass, IsBypassed
<1> QED BY <1>0, <1>1, <1>2, <1>4, <1>5, <1>6 DEF Dominator

\* For each Def that checkPhisAlias has visited with d, without it it has visited one
\* that writes alike.
LEMMA PathBypassed ==
  ASSUME NEW g, NEW b, NEW d, NEW next, NEW h, CanBypass(g, b, d, next, h), NEW p \in Live(g), Type(p) = "Phi",
         NEW stop, NEW n \in PathNodes(g, p, stop), Type(n) = "Def"
  PROVE  \E m \in PathNodes(h, p, stop) : Type(m) = "Def" /\ Alike(b, m, n)
<1> DEFINE G == <<"path", g, stop>>
           H == <<"path", h, stop>>
           base == Ins(g, p, stop)
           c == Cardinality(DOMAIN g.args)
<1>1. /\ Sound(g, {}) /\ Linked(g, b) /\ d \in Live(g) /\ Type(d) = "Def" /\ IsFiniteSet(DOMAIN g.args)
      /\ DOMAIN h.args = DOMAIN g.args /\ c \in Nat
  BY FS_CardinalityType DEF CanBypass, IsBypassed
<1>2. PICK J : Between(g, b, d, J)
  BY <1>1 DEF Linked, DefsLinked
<1> DEFINE Same(k) == Covered(g, b, d, J, stop, Stepped(G, base, k), Stepped(H, base, k))
           T == {k \in Nat : ~Same(k)}
<1>3. /\ p \in DOMAIN g.args /\ h.args[p] = g.args[p]
      /\ \A x \in Range(g.args[p]) : x \in Live(g) /\ x \in Cores(g) /\ x # None /\ x # d
  BY PhiStays
<1>4. Ins(h, p, stop) = base
  BY <1>3 DEF Ins
<1>5. PathNodes(g, p, stop) = Stepped(G, base, c) /\ PathNodes(h, p, stop) = Stepped(H, base, c)
  BY <1>1, <1>4, PathFolds
<1>6. \A s, k : StepOf(G, s, k) = Behind(g, stop, s) /\ StepOf(H, s, k) = Behind(h, stop, s)
  BY DEF StepOf
<1>7. Covered(g, b, d, J, stop, base, base)
  <2>1. \A x \in base : x \in Range(g.args[p])
    BY DEF Ins
  <2>2. \A x \in base : Reachable(g, b, x)
    BY <1>3, <2>1 DEF Reachable, Cores
  <2> HIDE DEF base
  <2> QED BY <2>2 DEF Covered
<1> HIDE DEF G, H, base, c
<1>8. Same(0)
  BY <1>7, SteppedStart
<1>9. ASSUME NEW k \in Nat, Same(k) PROVE Same(k + 1)
  <2> DEFINE s == Stepped(G, base, k)
             t == Stepped(H, base, k)
  <2>1. Stepped(G, base, k + 1) = Behind(g, stop, s) /\ Stepped(H, base, k + 1) = Behind(h, stop, t)
    BY <1>6, SteppedNext
  <2>2. Covered(g, b, d, J, stop, s, t)
    BY <1>9
  <2> HIDE DEF s, t
  <2>3. Covered(g, b, d, J, stop, Behind(g, stop, s), Behind(h, stop, t))
    BY <1>2, <2>2, BehindBypassed
  <2> QED BY <2>1, <2>3
<1> HIDE DEF Same
<1>10. T = {}
  <2> SUFFICES ASSUME T # {} PROVE FALSE
    OBVIOUS
  <2>1. T \in SUBSET Nat
    OBVIOUS
  <2>2. PICK l \in T : \A m \in T : l <= m
    BY <2>1, LeastExists
  <2>3. l # 0 /\ l \in Nat /\ ~Same(l)
    BY <1>8, <2>2
  <2>4. l - 1 \in Nat /\ l - 1 \notin T /\ (l - 1) + 1 = l
    BY <2>2, <2>3
  <2>5. Same(l - 1)
    BY <2>4
  <2> QED BY <1>9, <2>3, <2>4, <2>5
<1>11. Same(c)
  BY <1>1, <1>10
<1>12. Covered(g, b, d, J, stop, PathNodes(g, p, stop), PathNodes(h, p, stop))
  BY <1>5, <1>11 DEF Same
<1>13. CASE n \in PathNodes(h, p, stop)
  BY <1>13 DEF Alike
<1>14. CASE n \notin PathNodes(h, p, stop)
  <2>1. n \in J \cup {d} /\ \E m \in PathNodes(h, p, stop) : Type(m) = "Def" /\ Alike(b, m, d)
    BY <1>12, <1>14 DEF Covered
  <2>2. Alike(b, n, d)
    BY <1>2, <2>1 DEF Between, Alike
  <2> QED BY <2>1, <2>2 DEF Alike
<1> QED BY <1>13, <1>14

\* A live node at which getDef ended is still one.
LEMMA StopsBypassed ==
  ASSUME NEW g, NEW b, NEW d, NEW next, NEW h, CanBypass(g, b, d, next, h), NEW n \in Live(g), IsCore(n), n # d,
         NEW op, n \in Stops(g, b, op)
  PROVE  n \in Stops(h, b, op)
<1>0. Linked(g, b) /\ ArgumentsLive(g) /\ DefsLinked(g, b) /\ PhisJoined(g)
  BY DEF CanBypass, Linked
<1>1. /\ Sound(g, {}) /\ Sound(h, {}) /\ DOMAIN h.args = DOMAIN g.args
      /\ \A m \in DOMAIN g.args : h.dom[m] = g.dom[m] \/ (g.dom[m] = d /\ h.dom[m] = g.args[d][1])
  BY BypassFacts
<1>2. n \in DOMAIN g.args /\ None \notin DOMAIN g.args
  BY <1>1, GraphTypes DEF Sound
<1>3. CASE Type(n) = "Root"
  <2>1. n \in DOMAIN h.args /\ Clobbers(h, b, n, op)
    BY <1>1, <1>2, <1>3 DEF Clobbers
  <2> QED BY <2>1 DEF Stops
<1>4. CASE Type(n) = "Def"
  <2>1. PICK I : Between(g, b, n, I)
    BY <1>0, <1>4 DEF DefsLinked
  <2>2. Dominator(g, n) = g.dom[n] /\ g.dom[n] # None
    BY <1>0, <1>1, <1>4, <2>1, DefDominator
  <2>3. MayAlias(b[OpOf(n)], op)
    BY <1>4, <2>2 DEF Stops, Clobbers
  <2> QED BY <1>1, <1>2, <1>4, <2>3 DEF Stops, Clobbers
<1>5. CASE Type(n) = "Phi"
  <2> DEFINE stop == Dominator(g, n)
  <2>1. Dominator(h, n) = stop
    BY <1>5, PhiStays
  <2>2. stop # None
    <3>1. Dominator(g, n) \in Cores(g)
      BY <1>0, <1>1, <1>5, LivePhi
    <3> QED BY <1>2, <3>1 DEF Cores
  <2>3. PICK x \in PathNodes(g, n, stop) : Type(x) = "Def" /\ MayAlias(b[OpOf(x)], op)
    BY <1>5, <2>2 DEF Stops, Clobbers
  <2> HIDE DEF stop
  <2>4. PICK m \in PathNodes(h, n, stop) : Type(m) = "Def" /\ Alike(b, m, x)
    BY <1>5, <2>3, PathBypassed
  <2>5. MayAlias(b[OpOf(m)], op)
    BY <2>3, <2>4 DEF Alike
  <2>6. Clobbers(h, b, n, op)
    BY <1>5, <2>1, <2>4, <2>5 DEF Clobbers
  <2> QED BY <1>1, <1>2, <2>6 DEF Stops
<1> QED BY <1>3, <1>4, <1>5 DEF IsCore, Core

\* The one argument of a Def.
LEMMA DefArgument ==
  ASSUME NEW g, Sound(g, {}), NEW d \in DOMAIN g.args, Type(d) = "Def"
  PROVE  DOMAIN g.args[d] = {1} /\ Range(g.args[d]) = {g.args[d][1]}
<1>1. d # Root /\ Arity(d) = 1
  BY DEF Type, Root, Arity
<1>2. DOMAIN g.args[d] = {1}
  BY <1>1 DEF Sound, NodeFine
<1> QED BY <1>2 DEF Range

LEMMA LinkedBypassed ==
  ASSUME NEW g, NEW b, NEW d, NEW next, NEW h, CanBypass(g, b, d, next, h)
  PROVE  Linked(h, b)
<1> DEFINE D == DOMAIN g.args
           prev == g.args[d][1]
           post == g.pdom[d]
<1>1. /\ RootAlone(g) /\ ArgumentsLive(g) /\ DefsLinked(g, b) /\ PhisJoined(g) /\ PostsAgree(g)
      /\ Alike(b, d, next) /\ Type(d) = "Def" /\ Type(next) = "Def" /\ d # next
      /\ g.args[next][1] = d /\ h.args[next][1] = prev
      /\ \A n \in D : n \notin {d, next} => h.args[n] = g.args[n]
  BY DEF CanBypass, IsBypassed, Linked
<1>2. /\ Sound(g, {}) /\ Sound(h, {}) /\ DOMAIN h.args = D /\ Live(h) = Live(g) \ {d}
      /\ d \in Live(g) /\ next \in Live(g) /\ prev \in Live(g) /\ prev # d /\ prev # None
      /\ (\A n \in D : d \in Range(g.args[n]) => n = next)
      /\ \A n \in D : h.dom[n] = g.dom[n] \/ (g.dom[n] = d /\ h.dom[n] = prev)
  BY BypassFacts
<1>3. /\ None \notin D /\ Live(g) \subseteq D
      /\ g.dom \in [D -> D \cup {None}] /\ g.pdom \in [D -> D \cup {None}]
  BY <1>2, GraphTypes DEF Sound, IsGraph
<1>4. /\ post = None => h.dom = g.dom /\ h.pdom = g.pdom
      /\ post # None =>
           /\ h.dom = [g.dom EXCEPT ![post] = prev]
           /\ h.pdom = [g.pdom EXCEPT ![prev] = IF g.pdom[prev] = None THEN post ELSE g.pdom[prev]]
  BY DEF CanBypass, IsBypassed
<1>5. \A n \in D : Type(n) = "Def" => Range(g.args[n]) = {g.args[n][1]} /\ Range(h.args[n]) = {h.args[n][1]}
  BY <1>2, DefArgument
<1> HIDE DEF prev, post
<1>6. ArgumentsLive(h)
  <2> SUFFICES ASSUME NEW n \in Live(h) PROVE Range(h.args[n]) \subseteq Live(h)
    BY DEF ArgumentsLive
  <2>1. CASE n = next
    BY <1>1, <1>2, <1>3, <1>5, <2>1
  <2>2. CASE n # next
    <3>1. n \in Live(g) /\ n \in D /\ n # d
      BY <1>2, <1>3
    <3>2. h.args[n] = g.args[n] /\ d \notin Range(g.args[n])
      BY <1>1, <1>2, <2>2, <3>1
    <3> QED BY <1>1, <1>2, <3>1, <3>2 DEF ArgumentsLive
  <2> QED BY <2>1, <2>2
<1>7. DefsLinked(h, b)
  <2> SUFFICES ASSUME NEW y \in Live(h), Type(y) = "Def" PROVE \E I : Between(h, b, y, I)
    BY DEF DefsLinked
  <2>1. y \in Live(g) /\ y \in D /\ y # d
    BY <1>2, <1>3
  <2>2. PICK I : Between(g, b, y, I)
    BY <1>1, <2>1 DEF DefsLinked
  <2>3. /\ I \subseteq D /\ g.dom[y] \in I \cup {g.args[y][1]}
        /\ \A n \in I : /\ n \notin Live(g) /\ Type(n) = "Def" /\ Alike(b, n, y)
                        /\ g.dom[n] \in I \cup {g.args[y][1]}
    BY <2>2 DEF Between
  <2>4. CASE y = next
    <3>1. PICK J : Between(g, b, d, J)
      BY <1>1, <1>2 DEF DefsLinked
    <3>2. /\ J \subseteq D /\ g.dom[d] \in J \cup {prev}
          /\ \A n \in J : /\ n \notin Live(g) /\ Type(n) = "Def" /\ Alike(b, n, d)
                          /\ g.dom[n] \in J \cup {prev}
      BY <3>1 DEF Between, prev
    <3> DEFINE K == I \cup {d} \cup J
    <3>3. h.dom[y] \in K \cup {prev}
      BY <1>1, <1>2, <2>1, <2>3, <2>4
    <3>4. ASSUME NEW n \in K PROVE h.dom[n] \in K \cup {prev}
      <4>1. n \in D
        BY <1>2, <1>3, <2>3, <3>2
      <4>2. CASE n \in I
        BY <1>1, <1>2, <2>3, <2>4, <4>1, <4>2
      <4>3. CASE n \in J \cup {d}
        BY <1>2, <3>2, <4>1, <4>3
      <4> QED BY <4>2, <4>3
    <3>5. \A n \in K : n \notin Live(h) /\ Type(n) = "Def" /\ Alike(b, n, y)
      <4>1. \A n \in J : Alike(b, n, next)
        BY <1>1, <3>2 DEF Alike
      <4> QED BY <1>1, <1>2, <2>3, <2>4, <3>2, <4>1
    <3>6. K \subseteq DOMAIN h.args
      BY <1>2, <1>3, <2>3, <3>2
    <3> HIDE DEF K
    <3>7. Between(h, b, y, K)
      BY <1>1, <2>4, <3>3, <3>4, <3>5, <3>6 DEF Between
    <3> QED BY <3>7
  <2>5. CASE y # next
    <3>1. g.args[y][1] # d /\ h.args[y] = g.args[y]
      BY <1>1, <1>2, <1>5, <2>1, <2>5
    <3>2. d \notin I
      BY <1>2, <2>3
    <3>3. h.dom[y] = g.dom[y] /\ \A n \in I : h.dom[n] = g.dom[n]
      BY <1>2, <2>1, <2>3, <3>1, <3>2
    <3>4. Between(h, b, y, I)
      BY <1>2, <2>3, <3>1, <3>3 DEF Between
    <3> QED BY <3>4
  <2> QED BY <2>4, <2>5
<1>8. PhisJoined(h)
  <2> SUFFICES ASSUME NEW p \in Live(h), Type(p) = "Phi" PROVE h.dom[p] \in Live(h) /\ Joined(h, h.dom[p])
    BY DEF PhisJoined
  <2>1. p \in Live(g) /\ h.dom[p] = g.dom[p] /\ g.dom[p] # d /\ g.dom[p] \in Live(g)
    BY <1>2, PhiStays
  <2> DEFINE e == g.dom[p]
  <2>2. Joined(g, e)
    BY <1>1, <2>1 DEF PhisJoined
  <2>3. PICK u, v \in D : /\ IsCore(u) /\ IsCore(v) /\ (u # v \/ Type(u) = "Phi")
                          /\ e \in Range(g.args[u]) /\ e \in Range(g.args[v])
    BY <2>2 DEF Joined
  <2>4. u # next /\ v # next
    BY <1>1, <1>2, <1>3, <1>5, <2>1, <2>3
  <2> DEFINE other(x) == IF x = d THEN next ELSE x
  <2>5. \A x \in {u, v} : other(x) \in D /\ IsCore(other(x)) /\ e \in Range(h.args[other(x)])
    <3> SUFFICES ASSUME NEW x \in {u, v} PROVE other(x) \in D /\ IsCore(other(x)) /\ e \in Range(h.args[other(x)])
      OBVIOUS
    <3>1. CASE x = d
      <4>1. e = prev
        BY <1>2, <1>3, <1>5, <1>1, <2>3, <3>1 DEF prev
      <4>2. next \in D /\ IsCore(next) /\ prev \in Range(h.args[next])
        <5>1. next \in D
          BY <1>2, <1>3
        <5>2. Range(h.args[next]) = {prev}
          BY <1>1, <1>5, <5>1
        <5>3. IsCore(next)
          BY <1>1 DEF IsCore, Core
        <5> QED BY <5>1, <5>2, <5>3
      <4> QED BY <3>1, <4>1, <4>2
    <3>2. CASE x # d
      BY <1>1, <2>3, <2>4, <3>2
    <3> QED BY <3>1, <3>2
  <2>6. other(u) # other(v) \/ Type(other(u)) = "Phi"
    BY <1>1, <2>3, <2>4
  <2> HIDE DEF e, other
  <2>7. Joined(h, e)
    BY <1>2, <2>5, <2>6 DEF Joined
  <2> QED BY <1>2, <2>1, <2>7 DEF e
<1>9. PostsAgree(h)
  <2> SUFFICES ASSUME NEW n \in Live(h), h.pdom[n] # None PROVE h.dom[h.pdom[n]] = n
    BY DEF PostsAgree
  <2>1. n \in Live(g) /\ n \in D /\ n # d
    BY <1>2, <1>3
  <2>2. \A x \in Live(g) : g.pdom[x] # None => g.dom[g.pdom[x]] = x /\ g.pdom[x] \in D
    BY <1>1, <1>3 DEF PostsAgree
  <2>3. CASE post = None
    BY <1>4, <2>1, <2>2, <2>3
  <2>4. CASE post # None
    <3>1. /\ h.dom = [g.dom EXCEPT ![post] = prev]
          /\ h.pdom = [g.pdom EXCEPT ![prev] = IF g.pdom[prev] = None THEN post ELSE g.pdom[prev]]
      BY <1>4, <2>4
    <3>2. g.dom[post] = d /\ post \in D
      BY <1>2, <2>2, <2>4 DEF post
    <3>3. CASE n = prev /\ g.pdom[prev] = None
      BY <1>3, <2>1, <3>1, <3>2, <3>3
    <3>4. CASE ~(n = prev /\ g.pdom[prev] = None)
      <4>1. h.pdom[n] = g.pdom[n]
        BY <1>3, <2>1, <3>1, <3>4
      <4>2. g.dom[g.pdom[n]] = n /\ g.pdom[n] \in D /\ g.pdom[n] # post
        BY <2>1, <2>2, <3>2, <4>1
      <4> QED BY <1>3, <3>1, <4>1, <4>2
    <3> QED BY <3>3, <3>4
  <2> QED BY <2>3, <2>4
<1>10. RootAlone(h)
  BY <1>1, <1>2 DEF RootAlone
<1> QED BY <1>6, <1>7, <1>8, <1>9, <1>10 DEF Linked

(***************************************************************************)
(* How the nodes hang together while the graph is built: P are the Phis of *)
(* the operations that are open.                                           *)
(***************************************************************************)

\* Two nodes, or a Phi, that are complete and have node n as an argument.
Joint(g, P, n) ==
  \E u, v \in DOMAIN g.args \ P : /\ IsCore(u) /\ IsCore(v) /\ (u # v \/ Type(u) = "Phi")
                                  /\ n \in Range(g.args[u]) /\ n \in Range(g.args[v])

\* A node hangs on live nodes; those of P are not complete yet, their dominator may have one user.
NodeHung(g, P, n) ==
  /\ Range(g.args[n]) \subseteq Live(g) \cup {None}
  /\ Type(n) = "Def" => g.dom[n] = g.args[n][1]
  /\ Type(n) = "Phi" /\ n \notin P => g.dom[n] \in Live(g) /\ Joint(g, P, g.dom[n])

\* All do, and a post-dominator has the node for its dominator.
Hung(g, P) ==
  /\ \A n \in Live(g) : NodeHung(g, P, n)
  /\ \A n \in DOMAIN g.args : g.pdom[n] # None => g.dom[g.pdom[n]] = n

\* Node n is new, or gets what it had not.
Grown(g, h, n) ==
  /\ DOMAIN h.args = DOMAIN g.args \cup {n} /\ Live(h) = Live(g) \cup {n}
  /\ \A u \in DOMAIN g.args : u # n => h.args[u] = g.args[u] /\ h.dom[u] = g.dom[u]
  /\ n \in DOMAIN g.args => g.dom[n] = None \/ h.dom[n] = g.dom[n]
  /\ \A u \in DOMAIN h.args : h.pdom[u] # None =>
       (u \in DOMAIN g.args /\ h.pdom[u] = g.pdom[u]) \/ (h.pdom[u] = n /\ h.dom[n] = u)

LEMMA HungGrown ==
  ASSUME NEW g, IsGraph(g), NEW P, Hung(g, P), NEW h, NEW n, Grown(g, h, n), n \notin DOMAIN g.args \/ n \in P,
         NEW Q, P \ {n} \subseteq Q, Q \subseteq P \cup {n}, NodeHung(h, Q, n)
  PROVE  Hung(h, Q)
<1>1. /\ Live(g) \subseteq DOMAIN g.args /\ None \notin DOMAIN g.args
      /\ g.dom \in [DOMAIN g.args -> DOMAIN g.args \cup {None}] /\ g.pdom \in [DOMAIN g.args -> DOMAIN g.args \cup {None}]
  BY GraphTypes DEF IsGraph
<1>2. /\ DOMAIN h.args = DOMAIN g.args \cup {n} /\ Live(h) = Live(g) \cup {n}
      /\ \A u \in DOMAIN g.args : u # n => h.args[u] = g.args[u] /\ h.dom[u] = g.dom[u]
      /\ n \in DOMAIN g.args => g.dom[n] = None \/ h.dom[n] = g.dom[n]
      /\ \A u \in DOMAIN h.args : h.pdom[u] # None =>
           (u \in DOMAIN g.args /\ h.pdom[u] = g.pdom[u]) \/ (h.pdom[u] = n /\ h.dom[n] = u)
  BY DEF Grown
<1>3. \A e : Joint(g, P, e) => Joint(h, Q, e)
  <2> SUFFICES ASSUME NEW e, Joint(g, P, e) PROVE Joint(h, Q, e)
    OBVIOUS
  <2>1. PICK u, v \in DOMAIN g.args \ P : /\ IsCore(u) /\ IsCore(v) /\ (u # v \/ Type(u) = "Phi")
                                          /\ e \in Range(g.args[u]) /\ e \in Range(g.args[v])
    BY DEF Joint
  <2>2. u # n /\ v # n /\ u \in DOMAIN h.args \ Q /\ v \in DOMAIN h.args \ Q
    BY <1>2
  <2> QED BY <1>2, <2>1, <2>2 DEF Joint
<1>4. ASSUME NEW u \in Live(h) PROVE NodeHung(h, Q, u)
  <2>1. CASE u = n
    BY <2>1
  <2>2. CASE u # n
    <3>1. u \in Live(g) /\ u \in DOMAIN g.args
      BY <1>1, <1>2, <2>2
    <3>2. h.args[u] = g.args[u] /\ h.dom[u] = g.dom[u]
      BY <1>2, <2>2, <3>1
    <3>3. NodeHung(g, P, u)
      BY <3>1 DEF Hung
    <3>4. u \notin Q => u \notin P
      BY <2>2
    <3> QED BY <1>2, <1>3, <3>2, <3>3, <3>4 DEF NodeHung
  <2> QED BY <2>1, <2>2
<1>5. ASSUME NEW u \in DOMAIN h.args, h.pdom[u] # None PROVE h.dom[h.pdom[u]] = u
  <2>1. CASE h.pdom[u] = n /\ h.dom[n] = u
    BY <2>1
  <2>2. CASE u \in DOMAIN g.args /\ h.pdom[u] = g.pdom[u]
    <3> DEFINE q == g.pdom[u]
    <3>1. q \in DOMAIN g.args /\ g.dom[q] = u
      BY <1>1, <1>5, <2>2 DEF Hung
    <3>2. CASE q = n
      BY <1>1, <1>2, <2>2, <3>1, <3>2
    <3>3. CASE q # n
      BY <1>2, <2>2, <3>1, <3>3
    <3> QED BY <3>2, <3>3
  <2> QED BY <1>2, <1>5, <2>1, <2>2
<1> QED BY <1>4, <1>5 DEF Hung

(***************************************************************************)
(* An open operation: c is the node where its region has got to, and lim   *)
(* the first position behind that.                                         *)
(***************************************************************************)

\* A complete node between two positions has node e as an argument.
Taken(g, P, e, lo, hi) ==
  \E u \in DOMAIN g.args : IsCore(u) /\ u \notin P /\ lo < OpOf(u) /\ OpOf(u) < hi /\ e \in Range(g.args[u])

\* The Phi of a loop has what it was created with; a branch that has left its entry has given
\* the entry a complete user in that region.
Shape(b, g, P, r, c, lim) ==
  /\ r.entry \in Live(g) /\ c \in Live(g) /\ (r.result # None => r.result \in Live(g) /\ OpOf(r.result) < lim)
  /\ b[r.op].kind = "for" =>
       /\ g.args[Phi(r.op)] = <<None, r.entry>> /\ g.dom[Phi(r.op)] = None
       /\ c = Phi(r.op) => \A n \in Live(g) : IsCore(n) => ~(r.op < OpOf(n) /\ OpOf(n) < lim)
  /\ b[r.op].kind = "while" => g.args[Phi(r.op)] = <<None, None>> /\ g.dom[Phi(r.op)] = r.entry
  /\ b[r.op].kind = "if" =>
       \E m \in r.op .. lim - 1 :
         /\ r.result \notin {None, r.entry} => Taken(g, P, r.entry, r.op, m)
         /\ c # r.entry => Taken(g, P, r.entry, m, lim)

\* Nothing changes before position q.
Steady(g, P, h, Q, q) ==
  /\ \A u \in Live(g) : OpOf(u) < q => u \in Live(h)
  /\ \A u \in Live(h) : OpOf(u) < q => u \in Live(g)
  /\ \A u \in DOMAIN g.args : OpOf(u) < q => u \in DOMAIN h.args /\ h.args[u] = g.args[u] /\ h.dom[u] = g.dom[u]
  /\ \A u \in Q : OpOf(u) < q => u \in P

\* The region goes on from (c, lim) to (d, til).
GoesOn(b, h, Q, r, c, lim, d, til) ==
  /\ d \in Live(h) /\ lim <= til
  /\ b[r.op].kind = "for" /\ d = Phi(r.op) => /\ c = Phi(r.op)
                                              /\ \A n \in Live(h) : IsCore(n) => ~(lim <= OpOf(n) /\ OpOf(n) < til)
  /\ b[r.op].kind = "if" /\ d # r.entry => c # r.entry \/ Taken(h, Q, r.entry, lim - 1, til)

LEMMA ShapeOn ==
  ASSUME NEW b, NEW g, DOMAIN g.args \subseteq Nodes, Live(g) \subseteq DOMAIN g.args, NEW P, NEW r, NEW c, NEW lim \in Nat,
         Shape(b, g, P, r, c, lim), r.op \in Nat, r.op < lim, OpOf(r.entry) < r.op, b[r.op].kind # "if" => Phi(r.op) \in DOMAIN g.args,
         NEW h, DOMAIN h.args \subseteq Nodes, Live(h) \subseteq DOMAIN h.args,
         NEW Q, NEW q \in Nat, lim <= q, Steady(g, P, h, Q, q), NEW d, NEW til \in Nat, GoesOn(b, h, Q, r, c, lim, d, til)
  PROVE  Shape(b, h, Q, r, d, til)
<1>1. (\A n \in DOMAIN g.args : OpOf(n) \in Nat) /\ (\A n \in DOMAIN h.args : OpOf(n) \in Nat) /\ OpOf(Phi(r.op)) = r.op
  BY DEF Nodes, OpOf, Phi
<1>2. /\ \A u \in Live(g) : OpOf(u) < q => u \in Live(h)
      /\ \A u \in Live(h) : OpOf(u) < q => u \in Live(g)
      /\ \A u \in DOMAIN g.args : OpOf(u) < q => u \in DOMAIN h.args /\ h.args[u] = g.args[u] /\ h.dom[u] = g.dom[u]
      /\ \A u \in Q : OpOf(u) < q => u \in P
  BY DEF Steady
<1>3. d \in Live(h) /\ lim <= til
  BY DEF GoesOn
<1>4. r.entry \in Live(h) /\ (r.result # None => r.result \in Live(h) /\ OpOf(r.result) < til)
  BY <1>1, <1>2, <1>3 DEF Shape
<1>5. ASSUME b[r.op].kind = "for"
      PROVE  /\ h.args[Phi(r.op)] = <<None, r.entry>> /\ h.dom[Phi(r.op)] = None
             /\ d = Phi(r.op) => \A n \in Live(h) : IsCore(n) => ~(r.op < OpOf(n) /\ OpOf(n) < til)
  <2>1. h.args[Phi(r.op)] = g.args[Phi(r.op)] /\ h.dom[Phi(r.op)] = g.dom[Phi(r.op)]
    BY <1>1, <1>2, <1>5
  <2>2. ASSUME d = Phi(r.op), NEW n \in Live(h), IsCore(n), r.op < OpOf(n), OpOf(n) < til PROVE FALSE
    <3>1. c = Phi(r.op) /\ ~(lim <= OpOf(n))
      BY <1>5, <2>2 DEF GoesOn
    <3>2. OpOf(n) < lim
      BY <1>1, <3>1
    <3>3. n \in Live(g)
      BY <1>1, <1>2, <3>2
    <3> QED BY <1>5, <2>2, <3>1, <3>2, <3>3 DEF Shape
  <2> QED BY <1>5, <2>1, <2>2 DEF Shape
<1>6. ASSUME b[r.op].kind = "while" PROVE h.args[Phi(r.op)] = <<None, None>> /\ h.dom[Phi(r.op)] = r.entry
  <2>1. h.args[Phi(r.op)] = g.args[Phi(r.op)] /\ h.dom[Phi(r.op)] = g.dom[Phi(r.op)]
    BY <1>1, <1>2, <1>6
  <2> QED BY <1>6, <2>1 DEF Shape
<1>7. \A lo, hi : hi <= lim /\ hi \in Nat /\ Taken(g, P, r.entry, lo, hi) => Taken(h, Q, r.entry, lo, hi)
  <2> SUFFICES ASSUME NEW lo, NEW hi \in Nat, hi <= lim, Taken(g, P, r.entry, lo, hi) PROVE Taken(h, Q, r.entry, lo, hi)
    OBVIOUS
  <2>1. PICK u \in DOMAIN g.args : IsCore(u) /\ u \notin P /\ lo < OpOf(u) /\ OpOf(u) < hi /\ r.entry \in Range(g.args[u])
    BY DEF Taken
  <2>2. OpOf(u) < q
    BY <1>1, <2>1
  <2> QED BY <1>2, <2>1, <2>2 DEF Taken
<1>8. ASSUME b[r.op].kind = "if"
      PROVE  \E m \in r.op .. til - 1 :
               /\ r.result \notin {None, r.entry} => Taken(h, Q, r.entry, r.op, m)
               /\ d # r.entry => Taken(h, Q, r.entry, m, til)
  <2>1. PICK m \in r.op .. lim - 1 : /\ r.result \notin {None, r.entry} => Taken(g, P, r.entry, r.op, m)
                                     /\ c # r.entry => Taken(g, P, r.entry, m, lim)
    BY <1>8 DEF Shape
  <2>2. m \in Nat /\ m <= lim /\ m \in r.op .. til - 1
    BY <1>3, <2>1
  <2>3. r.result \notin {None, r.entry} => Taken(h, Q, r.entry, r.op, m)
    BY <1>7, <2>1, <2>2
  <2>4. ASSUME d # r.entry PROVE Taken(h, Q, r.entry, m, til)
    <3>1. CASE c # r.entry
      <4>1. Taken(h, Q, r.entry, m, lim)
        BY <1>7, <2>1, <3>1
      <4>2. PICK u \in DOMAIN h.args : IsCore(u) /\ u \notin Q /\ m < OpOf(u) /\ OpOf(u) < lim /\ r.entry \in Range(h.args[u])
        BY <4>1 DEF Taken
      <4>3. OpOf(u) < til
        BY <1>1, <1>3, <4>2
      <4> QED BY <4>2, <4>3 DEF Taken
    <3>2. CASE Taken(h, Q, r.entry, lim - 1, til)
      <4>1. PICK u \in DOMAIN h.args : IsCore(u) /\ u \notin Q /\ lim - 1 < OpOf(u) /\ OpOf(u) < til /\ r.entry \in Range(h.args[u])
        BY <3>2 DEF Taken
      <4>2. m < OpOf(u)
        BY <1>1, <2>1, <4>1
      <4> QED BY <4>1, <4>2 DEF Taken
    <3> QED BY <1>8, <2>4, <3>1, <3>2 DEF GoesOn
  <2> QED BY <2>2, <2>3, <2>4
<1> QED BY <1>3, <1>4, <1>5, <1>6, <1>8 DEF Shape

LEMMA PendingAppended ==
  ASSUME NEW open, IsSeq(open), NEW r
  PROVE  Pending(Append(open, r)) = Pending(open) \cup {Phi(r.op)}
<1> DEFINE o == Append(open, r)
           m == Len(open)
<1>1. /\ Len(o) = m + 1 /\ o[m + 1] = r /\ (\A i \in 1 .. m : o[i] = open[i]) /\ m \in Nat
  BY SeqAppended, LenProperties DEF IsSeq
<1> HIDE DEF o, m
<1>2. \A j \in 1 .. Len(o) : (j \in 1 .. m /\ Phi(o[j].op) = Phi(open[j].op)) \/ Phi(o[j].op) = Phi(r.op)
  BY <1>1
<1>3. Pending(o) \subseteq Pending(open) \cup {Phi(r.op)}
  BY <1>2 DEF Pending, m
<1>4. Pending(open) \cup {Phi(r.op)} \subseteq Pending(o)
  BY PendingPushed DEF o
<1> QED BY <1>3, <1>4 DEF o

\* The open operations are in the order of the body.
LEMMA OpenFacts ==
  ASSUME NEW b, NEW kept, NEW s, NEW k \in Nat, BuildState(b, kept, s, k)
  PROVE  /\ IsSeq(s.open) /\ Len(s.open) \in Nat
         /\ \A i, j \in 1 .. Len(s.open) : i < j => s.open[i].op < s.open[j].op
         /\ \A j \in 1 .. Len(s.open) :
              /\ Frame(s.g, b, s.open[j], k) /\ s.open[j].op \in 1 .. k
              /\ OpOf(s.open[j].entry) \in Nat /\ OpOf(s.open[j].entry) < s.open[j].op
              /\ b[s.open[j].op].kind # "if" => Phi(s.open[j].op) \in DOMAIN s.g.args
<1> DEFINE stack == Around(b, k + 1)
<1>1. IsSeq(s.open) /\ Len(s.open) = Len(stack) /\ OpenAt(b, s.g, s.open, k, stack) /\ IsStack(stack, k) /\ DOMAIN s.g.args \subseteq Nodes
  BY StateFacts DEF OpenAt
<1> HIDE DEF stack
<1>2. Len(stack) \in Nat
  BY <1>1, LenProperties DEF IsStack
<1>3. \A j \in 1 .. Len(s.open) : s.open[j].op = stack[j] /\ Frame(s.g, b, s.open[j], k)
  BY <1>1 DEF OpenAt
<1>4. ASSUME NEW j \in 1 .. Len(s.open)
      PROVE  /\ Frame(s.g, b, s.open[j], k) /\ s.open[j].op \in 1 .. k
             /\ OpOf(s.open[j].entry) \in Nat /\ OpOf(s.open[j].entry) < s.open[j].op
             /\ b[s.open[j].op].kind # "if" => Phi(s.open[j].op) \in DOMAIN s.g.args
  <2>1. Frame(s.g, b, s.open[j], k)
    BY <1>3
  <2> QED BY <1>1, <2>1 DEF Frame, Nodes, OpOf
<1>5. \A i, j \in 1 .. Len(s.open) : i < j => s.open[i].op < s.open[j].op
  BY <1>1, <1>3 DEF IsStack
<1> QED BY <1>1, <1>2, <1>4, <1>5

LEMMA PendingFront ==
  ASSUME NEW b, NEW kept, NEW s, NEW k \in Nat, BuildState(b, kept, s, k), s.open # << >>
  PROVE  Pending(Front(s.open)) = Pending(s.open) \ {Phi(Last(s.open).op)}
<1> DEFINE open == s.open
           f == Front(open)
           m == Len(open)
<1>1. /\ IsSeq(open) /\ open # << >> /\ m \in Nat
      /\ \A i, j \in 1 .. m : i < j => open[i].op < open[j].op
      /\ \A j \in 1 .. m : open[j].op \in 1 .. k
  BY OpenFacts
<1>2. Len(f) = m - 1 /\ (\A j \in 1 .. m - 1 : f[j] = open[j]) /\ Last(open) = open[m] /\ m \in Nat \ {0}
  BY <1>1, SeqFront
<1>3. Pending(open) \ {Phi(Last(open).op)} \subseteq Pending(f)
  BY <1>1, PendingPopped
<1> HIDE DEF f, m, open
<1>4. ASSUME NEW n \in Pending(f) PROVE n \in Pending(open) /\ n # Phi(Last(open).op)
  <2>1. PICK j \in 1 .. Len(f) : n = Phi(f[j].op)
    BY DEF Pending
  <2>2. j \in 1 .. m /\ m \in 1 .. m /\ j < m /\ f[j] = open[j]
    BY <1>2
  <2>3. open[j].op < open[m].op /\ open[j].op \in Nat /\ open[m].op \in Nat
    BY <1>1, <2>2
  <2>4. Phi(open[j].op) # Phi(open[m].op)
    BY <2>3 DEF Phi
  <2>5. n \in Pending(open)
    BY <2>1, <2>2 DEF Pending, m
  <2> QED BY <1>2, <2>1, <2>2, <2>4, <2>5
<1> QED BY <1>3, <1>4 DEF f, open

(***************************************************************************)
(* The levels of the open operations.                                      *)
(***************************************************************************)

\* Where the region of the open operation j has got to, and the position behind it.
At(open, cur, j)  == IF j = Len(open) THEN cur ELSE open[j + 1].entry
Until(open, k, j) == IF j = Len(open) THEN k + 1 ELSE open[j + 1].op

\* What comes before an operation uses nothing behind it, and what comes behind the
\* Phi of a loop nothing before it.
Apart(b, g, r) ==
  \A x \in DOMAIN g.args : \A a \in Range(g.args[x]) \ {None} :
    /\ OpOf(x) < r.op => OpOf(a) < r.op
    /\ OpOf(x) > r.op /\ b[r.op].kind # "if" => OpOf(a) >= r.op

Levels(b, s, k) ==
  \A j \in 1 .. Len(s.open) :
    /\ Shape(b, s.g, Pending(s.open), s.open[j], At(s.open, s.cur, j), Until(s.open, k, j))
    /\ Apart(b, s.g, s.open[j])

\* Inside a loop the nodes are at its Phi or behind it.
Inside(b, s) ==
  \A i, j \in 1 .. Len(s.open) : j <= i /\ b[s.open[j].op].kind # "if" =>
    /\ OpOf(At(s.open, s.cur, i)) >= s.open[j].op
    /\ s.open[i].result # None => OpOf(s.open[i].result) >= s.open[j].op

Struct(b, s, k) ==
  /\ Hung(s.g, Pending(s.open))
  /\ s.cur \in Live(s.g)
  /\ Levels(b, s, k)
  /\ Inside(b, s)

\* The arguments in h are those in g, but for some in A at or behind position lo.
NewArguments(g, h, lo, A) ==
  \A x \in DOMAIN h.args : \A a \in Range(h.args[x]) \ {None} :
    (x \in DOMAIN g.args /\ a \in Range(g.args[x])) \/ (OpOf(x) >= lo /\ a \in A)

\* A region goes on: from c to the same node, or to one behind that uses c.
Ahead(h, Q, c, lim, d, til) ==
  /\ d \in Live(h) /\ lim <= til
  /\ \/ d = c /\ \A n \in Live(h) : IsCore(n) => ~(lim <= OpOf(n) /\ OpOf(n) < til)
     \/ OpOf(d) >= lim /\ Taken(h, Q, c, lim - 1, til)

\* What a level is about: operation r, open at position lim.
Level(b, g, r, lim) ==
  /\ lim \in Nat /\ r.op \in Nat /\ r.op < lim /\ OpOf(r.entry) < r.op
  /\ b[r.op].kind # "if" => Phi(r.op) \in DOMAIN g.args

LEMMA LevelOn ==
  ASSUME NEW b, NEW g, IsGraph(g), NEW P, NEW r, NEW c, NEW lim, Level(b, g, r, lim),
         Shape(b, g, P, r, c, lim), Apart(b, g, r),
         NEW h, IsGraph(h), NEW Q, NEW q \in Nat, lim <= q, Steady(g, P, h, Q, q),
         NEW d, NEW til \in Nat, Ahead(h, Q, c, lim, d, til),
         NEW A, NewArguments(g, h, q, A), b[r.op].kind # "if" => \A a \in A : OpOf(a) >= r.op
  PROVE  Shape(b, h, Q, r, d, til) /\ Apart(b, h, r)
<1>1. /\ DOMAIN g.args \subseteq Nodes /\ Live(g) \subseteq DOMAIN g.args
      /\ DOMAIN h.args \subseteq Nodes /\ Live(h) \subseteq DOMAIN h.args
  BY GraphTypes
<1>2. /\ lim \in Nat /\ r.op \in Nat /\ r.op < lim /\ OpOf(r.entry) < r.op
      /\ b[r.op].kind # "if" => Phi(r.op) \in DOMAIN g.args
  BY DEF Level
<1>3. GoesOn(b, h, Q, r, c, lim, d, til)
  <2>1. OpOf(Phi(r.op)) = r.op
    BY DEF OpOf, Phi
  <2>2. d \in Live(h) /\ lim <= til
    BY DEF Ahead
  <2>3. CASE d = c /\ \A n \in Live(h) : IsCore(n) => ~(lim <= OpOf(n) /\ OpOf(n) < til)
    BY <2>2, <2>3 DEF GoesOn
  <2>4. CASE OpOf(d) >= lim /\ Taken(h, Q, c, lim - 1, til)
    <3>1. d # Phi(r.op)
      BY <1>2, <2>1, <2>4
    <3>2. c = r.entry => Taken(h, Q, r.entry, lim - 1, til)
      BY <2>4
    <3> QED BY <2>2, <3>1, <3>2 DEF GoesOn
  <2> QED BY <2>3, <2>4 DEF Ahead
<1>4. Shape(b, h, Q, r, d, til)
  BY <1>1, <1>2, <1>3, ShapeOn
<1>5. ASSUME NEW x \in DOMAIN h.args, NEW a \in Range(h.args[x]) \ {None}
      PROVE  /\ OpOf(x) < r.op => OpOf(a) < r.op
             /\ OpOf(x) > r.op /\ b[r.op].kind # "if" => OpOf(a) >= r.op
  <2>1. CASE x \in DOMAIN g.args /\ a \in Range(g.args[x])
    BY <2>1 DEF Apart
  <2>2. CASE OpOf(x) >= q /\ a \in A
    <3>1. OpOf(x) \in Nat
      BY <1>1 DEF Nodes, OpOf
    <3>2. ~(OpOf(x) < r.op)
      BY <1>2, <2>2, <3>1
    <3> QED BY <2>2, <3>2
  <2> QED BY <2>1, <2>2 DEF NewArguments
<1> QED BY <1>4, <1>5 DEF Apart

LEMMA LevelAt ==
  ASSUME NEW b, NEW kept, NEW s, NEW k \in Nat, BuildState(b, kept, s, k), NEW j \in 1 .. Len(s.open)
  PROVE  /\ Level(b, s.g, s.open[j], Until(s.open, k, j))
         /\ j < Len(s.open) => /\ j + 1 \in 1 .. Len(s.open)
                               /\ At(s.open, s.cur, j) = s.open[j + 1].entry /\ Until(s.open, k, j) = s.open[j + 1].op
                               /\ OpOf(s.open[j + 1].entry) < s.open[j + 1].op /\ s.open[j + 1].op \in 1 .. k
         /\ j = Len(s.open) => At(s.open, s.cur, j) = s.cur /\ Until(s.open, k, j) = k + 1
<1>1. /\ Len(s.open) \in Nat
      /\ \A i \in 1 .. Len(s.open) : j < i => s.open[j].op < s.open[i].op
      /\ \A i \in 1 .. Len(s.open) :
           /\ s.open[i].op \in 1 .. k
           /\ OpOf(s.open[i].entry) \in Nat /\ OpOf(s.open[i].entry) < s.open[i].op
           /\ b[s.open[i].op].kind # "if" => Phi(s.open[i].op) \in DOMAIN s.g.args
  BY OpenFacts
<1>2. j < Len(s.open) => /\ j + 1 \in 1 .. Len(s.open) /\ j < j + 1
                         /\ At(s.open, s.cur, j) = s.open[j + 1].entry /\ Until(s.open, k, j) = s.open[j + 1].op
  BY <1>1 DEF At, Until
<1>3. j = Len(s.open) => At(s.open, s.cur, j) = s.cur /\ Until(s.open, k, j) = k + 1
  BY DEF At, Until
<1>4. Until(s.open, k, j) \in Nat /\ s.open[j].op < Until(s.open, k, j)
  <2>1. CASE j = Len(s.open)
    BY <1>1, <1>3, <2>1
  <2>2. CASE j < Len(s.open)
    BY <1>1, <1>2, <2>2
  <2> QED BY <1>1, <2>1, <2>2
<1> QED BY <1>1, <1>2, <1>3, <1>4 DEF Level

\* A level at which nothing happens.
LEMMA StaysPut ==
  ASSUME NEW h, DOMAIN h.args \subseteq Nodes, Live(h) \subseteq DOMAIN h.args, NEW Q, NEW c, c \in Live(h), NEW lim \in Nat
  PROVE  Ahead(h, Q, c, lim, c, lim)
<1>1. \A n \in Live(h) : OpOf(n) \in Nat
  BY DEF Nodes, OpOf
<1> QED BY <1>1 DEF Ahead

\* The operation has no region.
LEMMA LevelsKept ==
  ASSUME NEW b, NEW kept, NEW s, NEW k \in Nat, BuildState(b, kept, s, k), Struct(b, s, k),
         NEW h, IsGraph(h), NEW d, NEW t, t = [g |-> h, cur |-> d, open |-> s.open],
         NEW P, P = Pending(s.open), Hung(h, P), Steady(s.g, P, h, P, k + 1), Ahead(h, P, s.cur, k + 1, d, k + 2),
         d = s.cur \/ OpOf(d) = k + 1,
         NEW A, NewArguments(s.g, h, k + 1, A), \A a \in A : a = s.cur \/ OpOf(a) = k + 1
  PROVE  Struct(b, t, k + 1)
<1>1. t.g = h /\ t.cur = d /\ t.open = s.open
  OBVIOUS
<1>2. IsGraph(s.g) /\ DOMAIN h.args \subseteq Nodes /\ Live(h) \subseteq DOMAIN h.args
  BY StateFacts, GraphTypes DEF Sound
<1>3. d \in Live(h)
  BY DEF Ahead
<1>4. /\ Len(s.open) \in Nat
      /\ \A j \in 1 .. Len(s.open) : s.open[j].op \in 1 .. k
  BY OpenFacts
<1>5. ASSUME NEW j \in 1 .. Len(s.open)
      PROVE  /\ Shape(b, h, P, s.open[j], At(s.open, d, j), Until(s.open, k + 1, j))
             /\ Apart(b, h, s.open[j])
  <2> DEFINE c == At(s.open, s.cur, j)
             lim == Until(s.open, k, j)
             e == At(s.open, d, j)
             til == Until(s.open, k + 1, j)
             r == s.open[j]
             q == k + 1
  <2>1. Shape(b, s.g, P, r, c, lim) /\ Apart(b, s.g, r)
    BY DEF Struct, Levels
  <2>2. Level(b, s.g, r, lim)
    BY LevelAt
  <2>3. /\ j < Len(s.open) => /\ c = s.open[j + 1].entry /\ lim = s.open[j + 1].op
                              /\ OpOf(c) < lim /\ lim \in 1 .. k
        /\ j = Len(s.open) => c = s.cur /\ lim = k + 1
    BY LevelAt
  <2>4. (j < Len(s.open) => e = c /\ til = lim) /\ (j = Len(s.open) => e = d /\ til = k + 2)
    BY <1>4 DEF At, Until
  <2>5. lim <= q /\ q \in Nat /\ til \in Nat
    BY <1>4, <2>3, <2>4
  <2>6. Ahead(h, P, c, lim, e, til)
    <3>1. CASE j = Len(s.open)
      BY <2>3, <2>4, <3>1
    <3>2. CASE j < Len(s.open)
      <4>1. c \in Live(s.g)
        BY <2>1 DEF Shape
      <4>2. OpOf(c) < k + 1
        <5>1. c \in Nodes
          BY <1>2, <4>1, GraphTypes
        <5>0. OpOf(c) \in Nat
          BY <5>1 DEF Nodes, OpOf
        <5> QED BY <2>3, <3>2, <5>0
      <4>3. c \in Live(h)
        BY <4>1, <4>2 DEF Steady
      <4> HIDE DEF c, lim, e, til
      <4>4. Ahead(h, P, c, lim, c, lim)
        BY <1>2, <2>3, <3>2, <4>3, StaysPut
      <4> QED BY <2>4, <3>2, <4>4
    <3> QED BY <1>4, <3>1, <3>2
  <2>7. b[r.op].kind # "if" => \A a \in A : OpOf(a) >= r.op
    <3>1. b[r.op].kind # "if" => OpOf(s.cur) >= r.op
      <4>1. Len(s.open) \in 1 .. Len(s.open) /\ j <= Len(s.open) /\ At(s.open, s.cur, Len(s.open)) = s.cur
        BY <1>4 DEF At
      <4> QED BY <4>1 DEF Struct, Inside
    <3> QED BY <1>4, <3>1
  <2>8. Steady(s.g, P, h, P, q) /\ NewArguments(s.g, h, q, A)
    OBVIOUS
  <2> HIDE DEF c, lim, e, til, r, q
  <2>9. Shape(b, h, P, r, e, til) /\ Apart(b, h, r)
    BY <1>2, <2>1, <2>2, <2>5, <2>6, <2>7, <2>8, LevelOn
  <2> QED BY <2>9 DEF e, til, r
<1>6. ASSUME NEW i \in 1 .. Len(s.open), NEW j \in 1 .. Len(s.open), j <= i, b[s.open[j].op].kind # "if"
      PROVE  /\ OpOf(At(s.open, d, i)) >= s.open[j].op
             /\ s.open[i].result # None => OpOf(s.open[i].result) >= s.open[j].op
  <2>1. /\ OpOf(At(s.open, s.cur, i)) >= s.open[j].op
        /\ s.open[i].result # None => OpOf(s.open[i].result) >= s.open[j].op
    BY <1>6 DEF Struct, Inside
  <2>2. At(s.open, d, i) = At(s.open, s.cur, i) \/ (At(s.open, d, i) = d /\ At(s.open, s.cur, i) = s.cur)
    BY DEF At
  <2> QED BY <1>4, <2>1, <2>2
<1>7. Levels(b, t, k + 1)
  BY <1>1, <1>5 DEF Levels
<1>8. Inside(b, t)
  BY <1>1, <1>6 DEF Inside
<1> QED BY <1>1, <1>3, <1>7, <1>8 DEF Struct

\* What the innermost open operation has at hand.
AtHand(s) == {Last(s.open).entry, Last(s.open).result, s.cur} \ {None}

LEMMA HandInside ==
  ASSUME NEW b, NEW kept, NEW s, NEW k \in Nat, BuildState(b, kept, s, k), Struct(b, s, k), s.open # << >>,
         NEW j \in 1 .. Len(s.open) - 1, b[s.open[j].op].kind # "if", NEW a \in AtHand(s)
  PROVE  OpOf(a) >= s.open[j].op
<1> DEFINE m == Len(s.open)
           r == Last(s.open)
<1>1. m \in Nat \ {0} /\ r = s.open[m] /\ IsSeq(s.open)
  BY OpenFacts, SeqFront
<1>2. j \in 1 .. m /\ m - 1 \in 1 .. m /\ j <= m - 1 /\ m \in 1 .. m /\ j <= m
  BY <1>1
<1>3. At(s.open, s.cur, m) = s.cur /\ At(s.open, s.cur, m - 1) = r.entry
  <2>1. m - 1 # m /\ (m - 1) + 1 = m
    BY <1>1
  <2> QED BY <1>1, <2>1 DEF At
<1>4. OpOf(s.cur) >= s.open[j].op
  BY <1>2, <1>3 DEF Struct, Inside
<1>5. OpOf(r.entry) >= s.open[j].op
  BY <1>2, <1>3 DEF Struct, Inside
<1>6. r.result # None => OpOf(r.result) >= s.open[j].op
  BY <1>1, <1>2 DEF Struct, Inside
<1> QED BY <1>4, <1>5, <1>6 DEF AtHand

\* The innermost operation is left.
LEMMA LevelsPopped ==
  ASSUME NEW b, NEW kept, NEW s, NEW k \in Nat, BuildState(b, kept, s, k), Struct(b, s, k), s.open # << >>,
         NEW r, r = Last(s.open),
         NEW h, IsGraph(h), NEW d, NEW t, t = [g |-> h, cur |-> d, open |-> Front(s.open)],
         NEW P, P = Pending(s.open), NEW Q, Q = Pending(Front(s.open)),
         Hung(h, Q), Steady(s.g, P, h, Q, r.op), Ahead(h, Q, r.entry, r.op, d, k + 2),
         OpOf(d) = r.op \/ d \in AtHand(s),
         NewArguments(s.g, h, r.op, AtHand(s))
  PROVE  Struct(b, t, k + 1)
<1> DEFINE m == Len(s.open)
           f == Front(s.open)
<1>1. t.g = h /\ t.cur = d /\ t.open = f
  OBVIOUS
<1>2. IsGraph(s.g) /\ DOMAIN h.args \subseteq Nodes /\ Live(h) \subseteq DOMAIN h.args
  BY StateFacts, GraphTypes DEF Sound
<1>3. d \in Live(h)
  BY DEF Ahead
<1>4. /\ m \in Nat \ {0} /\ Len(f) = m - 1 /\ r = s.open[m]
      /\ \A j \in 1 .. m - 1 : f[j] = s.open[j]
  BY OpenFacts, SeqFront
<1>5. /\ \A j \in 1 .. m : s.open[j].op \in 1 .. k
      /\ \A j \in 1 .. m - 1 : s.open[j].op < r.op
  <2>1. \A i, j \in 1 .. m : i < j => s.open[i].op < s.open[j].op
    BY OpenFacts
  <2>2. \A j \in 1 .. m - 1 : j \in 1 .. m /\ m \in 1 .. m /\ j < m
    BY <1>4
  <2> QED BY <1>4, <2>1, <2>2, OpenFacts
<1>6. ASSUME NEW j \in 1 .. m - 1
      PROVE  /\ f[j] = s.open[j]
             /\ j < m - 1 => At(f, d, j) = At(s.open, s.cur, j) /\ Until(f, k + 1, j) = Until(s.open, k, j)
             /\ j = m - 1 => /\ At(f, d, j) = d /\ Until(f, k + 1, j) = k + 2
                             /\ At(s.open, s.cur, j) = r.entry /\ Until(s.open, k, j) = r.op
  <2>1. CASE j < m - 1
    <3>1. j + 1 \in 1 .. m - 1 /\ j # m /\ j # Len(f)
      BY <1>4, <2>1
    <3>2. f[j + 1] = s.open[j + 1]
      BY <1>4, <3>1
    <3> QED BY <1>4, <3>1, <3>2 DEF At, Until
  <2>2. CASE j = m - 1
    <3>1. j + 1 = m /\ j # m /\ j = Len(f) /\ (k + 1) + 1 = k + 2
      BY <1>4, <2>2
    <3> QED BY <1>4, <2>2, <3>1 DEF At, Until
  <2> QED BY <1>4, <2>1, <2>2
<1> HIDE DEF f
<1>7. ASSUME NEW j \in 1 .. m - 1
      PROVE  Shape(b, h, Q, f[j], At(f, d, j), Until(f, k + 1, j)) /\ Apart(b, h, f[j])
  <2> DEFINE c == At(s.open, s.cur, j)
             lim == Until(s.open, k, j)
             e == At(f, d, j)
             til == Until(f, k + 1, j)
             l == s.open[j]
             q == r.op
             A == AtHand(s)
  <2>0. j \in 1 .. m
    BY <1>4
  <2>1. Shape(b, s.g, P, l, c, lim) /\ Apart(b, s.g, l)
    BY <2>0 DEF Struct, Levels
  <2>2. Level(b, s.g, l, lim) /\ lim \in Nat
    BY <2>0, LevelAt DEF Level
  <2>3. /\ j < m - 1 => e = c /\ til = lim
        /\ j = m - 1 => e = d /\ til = k + 2 /\ c = r.entry /\ lim = q
    BY <1>6
  <2>4. j < m - 1 => lim < q /\ OpOf(c) < lim
    <3>1. j < m => /\ j + 1 \in 1 .. m /\ c = s.open[j + 1].entry /\ lim = s.open[j + 1].op
                   /\ OpOf(s.open[j + 1].entry) < s.open[j + 1].op
      BY <2>0, LevelAt
    <3>2. j < m - 1 => j < m /\ j + 1 \in 1 .. m - 1
      BY <1>4
    <3> QED BY <1>5, <3>1, <3>2
  <2>5. q \in Nat /\ m \in 1 .. m
    BY <1>4, <1>5
  <2>6. lim <= q /\ til \in Nat
    <3>1. CASE j = m - 1
      BY <2>3, <2>5, <3>1
    <3>2. CASE j < m - 1
      BY <2>2, <2>3, <2>4, <2>5, <3>2
    <3> QED BY <1>4, <3>1, <3>2
  <2>7. Ahead(h, Q, c, lim, e, til)
    <3>1. CASE j = m - 1
      BY <2>3, <3>1
    <3>2. CASE j < m - 1
      <4>1. c \in Live(s.g)
        BY <2>1 DEF Shape
      <4>2. OpOf(c) < q
        <5>1. c \in Nodes
          BY <1>2, <4>1, GraphTypes
        <5>2. OpOf(c) \in Nat
          BY <5>1 DEF Nodes, OpOf
        <5> QED BY <2>2, <2>4, <2>5, <3>2, <5>2
      <4>3. c \in Live(h)
        BY <4>1, <4>2 DEF Steady
      <4> HIDE DEF c, lim, e, til
      <4>4. Ahead(h, Q, c, lim, c, lim)
        BY <1>2, <2>2, <4>3, StaysPut
      <4> QED BY <2>3, <3>2, <4>4
    <3> QED BY <1>4, <3>1, <3>2
  <2>8. b[l.op].kind # "if" => \A a \in A : OpOf(a) >= l.op
    BY HandInside
  <2>9. Steady(s.g, P, h, Q, q) /\ NewArguments(s.g, h, q, A) /\ f[j] = l
    BY <1>6
  <2> HIDE DEF c, lim, e, til, l, q, A
  <2>10. Shape(b, h, Q, l, e, til) /\ Apart(b, h, l)
    BY <1>2, <2>1, <2>2, <2>5, <2>6, <2>7, <2>8, <2>9, LevelOn, SMTT(30)
  <2> QED BY <2>9, <2>10 DEF e, til
<1>8. ASSUME NEW i \in 1 .. m - 1, NEW j \in 1 .. m - 1, j <= i, b[f[j].op].kind # "if"
      PROVE  /\ OpOf(At(f, d, i)) >= f[j].op
             /\ f[i].result # None => OpOf(f[i].result) >= f[j].op
  <2>0. i \in 1 .. m /\ j \in 1 .. m /\ f[i] = s.open[i] /\ f[j] = s.open[j]
    BY <1>4, <1>6
  <2>1. /\ OpOf(At(s.open, s.cur, i)) >= f[j].op
        /\ f[i].result # None => OpOf(f[i].result) >= f[j].op
    BY <1>8, <2>0 DEF Struct, Inside
  <2>2. OpOf(d) >= f[j].op
    <3>1. CASE OpOf(d) = r.op
      <4>1. s.open[j].op < r.op /\ s.open[j].op \in Nat /\ r.op \in Nat
        BY <1>4, <1>5, <2>0
      <4> QED BY <2>0, <3>1, <4>1
    <3>2. CASE d \in AtHand(s)
      BY <1>8, <2>0, <3>2, HandInside
    <3> QED BY <3>1, <3>2
  <2>3. At(f, d, i) = d \/ At(f, d, i) = At(s.open, s.cur, i)
    BY <1>4, <1>6
  <2> QED BY <2>1, <2>2, <2>3
<1>9. Levels(b, t, k + 1)
  <2>1. \A j \in 1 .. Len(f) : Shape(b, h, Q, f[j], At(f, d, j), Until(f, k + 1, j)) /\ Apart(b, h, f[j])
    BY <1>4, <1>7
  <2>2. Pending(f) = Q
    BY DEF f
  <2> QED BY <1>1, <2>1, <2>2 DEF Levels
<1>10. Inside(b, t)
  <2>1. \A i, j \in 1 .. Len(f) : j <= i /\ b[f[j].op].kind # "if" =>
             /\ OpOf(At(f, d, i)) >= f[j].op
             /\ f[i].result # None => OpOf(f[i].result) >= f[j].op
    BY <1>4, <1>8
  <2> QED BY <1>1, <2>1 DEF Inside
<1> QED BY <1>1, <1>3, <1>9, <1>10 DEF Struct, f

\* An operation with a region is entered.
LEMMA LevelsPushed ==
  ASSUME NEW b, NEW kept, NEW s, NEW k \in Nat, BuildState(b, kept, s, k), Struct(b, s, k),
         NEW r, r.op = k + 1, r.entry = s.cur, r.result = None,
         NEW h, IsGraph(h), NEW d, NEW t, t = [g |-> h, cur |-> d, open |-> Append(s.open, r)], BuildState(b, kept, t, k + 1),
         NEW P, P = Pending(s.open), NEW Q, Q = Pending(Append(s.open, r)),
         Hung(h, Q), Steady(s.g, P, h, Q, k + 1), NewArguments(s.g, h, k + 1, {s.cur}), d \in Live(h),
         d = s.cur \/ OpOf(d) = k + 1, b[k + 1].kind # "if" => OpOf(d) = k + 1,
         Shape(b, h, Q, r, d, k + 2)
  PROVE  Struct(b, t, k + 1)
<1> DEFINE m == Len(s.open)
           f == Append(s.open, r)
<1>1. t.g = h /\ t.cur = d /\ t.open = f
  OBVIOUS
<1>2. IsGraph(s.g) /\ DOMAIN h.args \subseteq Nodes /\ Live(h) \subseteq DOMAIN h.args /\ DOMAIN s.g.args \subseteq Nodes
      /\ Live(s.g) \subseteq DOMAIN s.g.args
  BY StateFacts, GraphTypes DEF Sound
<1>3. m \in Nat /\ Len(f) = m + 1 /\ f[m + 1] = r /\ \A j \in 1 .. m : f[j] = s.open[j]
  BY OpenFacts, SeqAppended
<1>4. \A j \in 1 .. m : s.open[j].op \in 1 .. k
  BY OpenFacts
<1>5. (\A n \in DOMAIN s.g.args : OpOf(n) \in Nat /\ OpOf(n) <= k) /\ (\A n \in DOMAIN h.args : OpOf(n) \in Nat /\ OpOf(n) <= k + 1)
  <2>0. GraphAt(b, kept, s.g, Pending(s.open), s.cur, k)
    BY StateFacts
  <2>1. GraphAt(b, kept, h, Pending(t.open), d, k + 1)
    BY <1>1 DEF BuildState
  <2>2. (\A n \in DOMAIN s.g.args : OpOf(n) <= k) /\ (\A n \in DOMAIN h.args : OpOf(n) <= k + 1)
    <3>1. \A n \in DOMAIN s.g.args : OpOf(n) <= k
      BY <2>0, CoreNodes
    <3>2. k + 1 \in Nat
      OBVIOUS
    <3> QED BY ONLY <2>1, <3>1, <3>2, CoreNodes
  <2>3. (\A n \in DOMAIN s.g.args : OpOf(n) \in Nat) /\ (\A n \in DOMAIN h.args : OpOf(n) \in Nat)
    BY <1>2 DEF Nodes, OpOf
  <2> QED BY <2>2, <2>3
<1>6. ASSUME NEW j \in 1 .. m
      PROVE  /\ f[j] = s.open[j] /\ At(f, d, j) = At(s.open, s.cur, j) /\ Until(f, k + 1, j) = Until(s.open, k, j)
             /\ Until(s.open, k, j) \in Nat /\ Until(s.open, k, j) <= k + 1 /\ Level(b, s.g, s.open[j], Until(s.open, k, j))
  <2>0. Level(b, s.g, s.open[j], Until(s.open, k, j)) /\ Until(s.open, k, j) \in Nat
    BY LevelAt DEF Level
  <2>1. CASE j < m
    <3>1. j + 1 \in 1 .. m /\ j # m /\ j # Len(f)
      BY <1>3, <2>1
    <3>2. f[j + 1] = s.open[j + 1]
      BY <1>3, <3>1
    <3>3. s.open[j + 1].op \in 1 .. k
      BY <1>4, <3>1
    <3> QED BY <1>3, <2>0, <3>1, <3>2, <3>3 DEF At, Until
  <2>2. CASE j = m
    <3>1. j + 1 = m + 1 /\ j # Len(f)
      BY <1>3, <2>2
    <3> QED BY <1>3, <2>0, <2>2, <3>1 DEF At, Until
  <2> QED BY <1>3, <2>1, <2>2
<1>7. At(f, d, m + 1) = d /\ Until(f, k + 1, m + 1) = k + 2
  BY <1>3 DEF At, Until
<1> HIDE DEF f
<1>8. \A j \in 1 .. m : b[s.open[j].op].kind # "if" => OpOf(s.cur) >= s.open[j].op
  <2> SUFFICES ASSUME NEW j \in 1 .. m, b[s.open[j].op].kind # "if" PROVE OpOf(s.cur) >= s.open[j].op
    OBVIOUS
  <2>1. m \in 1 .. m /\ j <= m /\ At(s.open, s.cur, m) = s.cur
    BY <1>3 DEF At
  <2> QED BY <2>1 DEF Struct, Inside
<1>9. ASSUME NEW j \in 1 .. m
      PROVE  Shape(b, h, Q, f[j], At(f, d, j), Until(f, k + 1, j)) /\ Apart(b, h, f[j])
  <2> DEFINE c == At(s.open, s.cur, j)
             lim == Until(s.open, k, j)
             l == s.open[j]
             q == k + 1
             A == {s.cur}
  <2>1. Shape(b, s.g, P, l, c, lim) /\ Apart(b, s.g, l)
    BY DEF Struct, Levels
  <2>2. Level(b, s.g, l, lim) /\ lim \in Nat /\ lim <= q /\ q \in Nat
    BY <1>6
  <2>3. c \in Live(h)
    <3>1. c \in Live(s.g)
      BY <2>1 DEF Shape
    <3>2. OpOf(c) < k + 1
      BY <1>2, <1>5, <3>1
    <3> QED BY <3>1, <3>2 DEF Steady
  <2>4. b[l.op].kind # "if" => \A a \in A : OpOf(a) >= l.op
    BY <1>8
  <2>5. Steady(s.g, P, h, Q, q) /\ NewArguments(s.g, h, q, A)
    OBVIOUS
  <2> HIDE DEF c, lim, l, q, A
  <2>6. Ahead(h, Q, c, lim, c, lim)
    BY <1>2, <2>2, <2>3, StaysPut
  <2>7. Shape(b, h, Q, l, c, lim) /\ Apart(b, h, l)
    BY <1>2, <2>1, <2>2, <2>4, <2>5, <2>6, LevelOn
  <2> QED BY <1>6, <2>7 DEF c, lim, l
<1>10. Apart(b, h, r)
  <2> SUFFICES ASSUME NEW x \in DOMAIN h.args, NEW a \in Range(h.args[x]) \ {None}
               PROVE  /\ OpOf(x) < r.op => OpOf(a) < r.op
                      /\ ~(OpOf(x) > r.op)
    BY DEF Apart
  <2>1. ASSUME x \in DOMAIN s.g.args, a \in Range(s.g.args[x]) PROVE OpOf(a) < k + 1
    <3>1. PICK i \in DOMAIN s.g.args[x] : a = s.g.args[x][i]
      BY <2>1 DEF Range
    <3>2. a \in DOMAIN s.g.args
      BY <1>2, <2>1, <3>1, GraphTypes
    <3> QED BY <1>5, <3>2
  <2>2. OpOf(x) \in Nat /\ OpOf(x) <= k + 1
    BY <1>5
  <2>3. (x \in DOMAIN s.g.args /\ a \in Range(s.g.args[x])) \/ OpOf(x) >= k + 1
    BY DEF NewArguments
  <2> QED BY <2>1, <2>2, <2>3
<1>11. Levels(b, t, k + 1)
  <2>1. ASSUME NEW j \in 1 .. Len(f) PROVE Shape(b, h, Q, f[j], At(f, d, j), Until(f, k + 1, j)) /\ Apart(b, h, f[j])
    <3>1. CASE j \in 1 .. m
      BY <1>9, <3>1
    <3>2. CASE j = m + 1
      BY <1>3, <1>7, <1>10, <3>2 DEF f
    <3> QED BY <1>3, <3>1, <3>2 DEF f
  <2>2. Pending(f) = Q
    BY DEF f
  <2> QED BY <1>1, <2>1, <2>2 DEF Levels
<1>12. ASSUME NEW i \in 1 .. Len(f), NEW j \in 1 .. Len(f), j <= i, b[f[j].op].kind # "if"
      PROVE  /\ OpOf(At(f, d, i)) >= f[j].op
             /\ f[i].result # None => OpOf(f[i].result) >= f[j].op
  <2>0. Len(f) = m + 1 /\ f[m + 1] = r
    BY <1>3 DEF f
  <2>1. CASE i \in 1 .. m
    <3>1. j \in 1 .. m
      BY <1>3, <1>12, <2>0, <2>1
    <3>2. f[i] = s.open[i] /\ f[j] = s.open[j] /\ At(f, d, i) = At(s.open, s.cur, i)
      BY <1>6, <2>1, <3>1
    <3> QED BY <1>12, <2>1, <3>1, <3>2 DEF Struct, Inside
  <2>2. CASE i = m + 1 /\ j \in 1 .. m
    <3>1. f[j] = s.open[j] /\ f[i] = r /\ At(f, d, i) = d
      BY <1>6, <1>7, <2>0, <2>2
    <3>2. OpOf(s.cur) >= s.open[j].op /\ s.open[j].op \in 1 .. k
      BY <1>4, <1>8, <1>12, <2>2, <3>1
    <3> QED BY <3>1, <3>2
  <2>3. CASE i = m + 1 /\ j = m + 1
    <3>1. f[j] = r /\ f[i] = r /\ At(f, d, i) = d
      BY <1>7, <2>0, <2>3
    <3>2. OpOf(d) = k + 1
      BY <1>12, <3>1
    <3> QED BY <3>1, <3>2
  <2>4. i \in 1 .. m \/ i = m + 1
    BY <1>3, <2>0
  <2>5. j \in 1 .. m \/ j = m + 1
    BY <1>3, <2>0
  <2> QED BY <2>1, <2>2, <2>3, <2>4, <2>5
<1>13. Inside(b, t)
  BY <1>1, <1>12 DEF Inside
<1> QED BY <1>1, <1>11, <1>13 DEF Struct

\* The separator: what has been got to becomes the result of the first region.
LEMMA LevelsHalved ==
  ASSUME NEW b, NEW kept, NEW s, NEW k \in Nat, BuildState(b, kept, s, k), Struct(b, s, k), s.open # << >>,
         NEW r, r = Last(s.open), b[r.op].kind \in {"if", "while"},
         NEW d, d = IF b[r.op].kind = "if" THEN r.entry ELSE s.cur,
         NEW l, l = [r EXCEPT !.result = s.cur], NEW t, t = [g |-> s.g, cur |-> d, open |-> Append(Front(s.open), l)]
  PROVE  Struct(b, t, k + 1)
<1> DEFINE m == Len(s.open)
           f == Append(Front(s.open), l)
           P == Pending(s.open)
           g == s.g
<1>1. t.g = g /\ t.cur = d /\ t.open = f
  OBVIOUS
<1>2. IsGraph(g) /\ DOMAIN g.args \subseteq Nodes /\ Live(g) \subseteq DOMAIN g.args
  BY StateFacts, GraphTypes DEF Sound
<1>3. m \in Nat \ {0} /\ m \in 1 .. m /\ r = s.open[m]
  BY OpenFacts, SeqFront
<1>4. l.op = r.op /\ l.entry = r.entry /\ l.phi = r.phi /\ l.result = s.cur
  <2>1. Frame(s.g, b, r, k)
    BY <1>3, OpenFacts
  <2>2. r = [op |-> r.op, entry |-> r.entry, phi |-> r.phi, result |-> r.result]
    BY <2>1 DEF Frame
  <2> QED BY <2>2
<1>5. /\ Len(f) = m /\ f[m] = l
      /\ \A j \in 1 .. m - 1 : f[j] = s.open[j]
  <2>1. IsSeq(Front(s.open)) /\ Len(Front(s.open)) = m - 1 /\ \A j \in 1 .. m - 1 : Front(s.open)[j] = s.open[j]
    BY OpenFacts, SeqFront
  <2> QED BY <1>3, <2>1, SeqAppended
<1>6. Pending(f) = P
  <2>1. IsSeq(Front(s.open))
    BY OpenFacts, SeqFront
  <2>2. Pending(f) = Pending(Front(s.open)) \cup {Phi(l.op)}
    BY <2>1, PendingAppended
  <2>3. Pending(Front(s.open)) = P \ {Phi(r.op)}
    BY PendingFront
  <2>4. Phi(r.op) \in P
    BY <1>3 DEF Pending
  <2> QED BY <1>4, <2>2, <2>3, <2>4
<1>7. r.op \in 1 .. k /\ s.cur \in Live(g) /\ r.entry \in Live(g) /\ d \in Live(g)
  <2>1. Shape(b, g, P, r, At(s.open, s.cur, m), Until(s.open, k, m))
    BY <1>3 DEF Struct, Levels
  <2>2. r.op \in 1 .. k
    BY <1>3, OpenFacts
  <2>3. s.cur \in Live(g)
    BY DEF Struct
  <2> QED BY <2>1, <2>2, <2>3 DEF Shape
<1>8. (\A n \in DOMAIN g.args : OpOf(n) \in Nat /\ OpOf(n) <= k) /\ OpOf(s.cur) \in Nat /\ OpOf(s.cur) <= k /\ s.cur # None
  <2>1. GraphAt(b, kept, g, Pending(s.open), s.cur, k)
    BY StateFacts
  <2>2. (\A n \in DOMAIN s.g.args : OpOf(n) <= k) /\ s.cur \in DOMAIN g.args /\ s.cur # None
    BY <2>1, CoreNodes
  <2>3. \A n \in DOMAIN s.g.args : OpOf(n) \in Nat
    BY <1>2 DEF Nodes, OpOf
  <2> QED BY <2>2, <2>3
<1> HIDE DEF f
<1>9. ASSUME NEW j \in 1 .. m - 1
      PROVE  At(f, d, j) = At(s.open, s.cur, j) /\ Until(f, k + 1, j) = Until(s.open, k, j)
  <2>1. j # m /\ j # Len(f) /\ j + 1 \in 1 .. m
    BY <1>3, <1>5
  <2>2. f[j + 1].entry = s.open[j + 1].entry /\ f[j + 1].op = s.open[j + 1].op
    <3>1. CASE j + 1 = m
      BY <1>3, <1>4, <1>5, <3>1
    <3>2. CASE j + 1 # m
      <4>1. j + 1 \in 1 .. m - 1
        BY <1>3, <2>1, <3>2
      <4> QED BY <1>5, <4>1
    <3> QED BY <3>1, <3>2
  <2> QED BY <2>1, <2>2 DEF At, Until
<1>10. At(f, d, m) = d /\ Until(f, k + 1, m) = k + 2 /\ At(s.open, s.cur, m) = s.cur /\ Until(s.open, k, m) = k + 1
  BY <1>5 DEF At, Until
<1>11. Shape(b, g, P, l, d, k + 2)
  <2>1. Shape(b, g, P, r, s.cur, k + 1)
    BY <1>3, <1>10 DEF Struct, Levels
  <2>2. l.result \in Live(g) /\ OpOf(l.result) < k + 2
    BY <1>4, <1>7, <1>8
  <2>3. CASE b[r.op].kind = "while"
    BY <1>4, <1>7, <2>1, <2>2, <2>3 DEF Shape
  <2>4. CASE b[r.op].kind = "if"
    <3>1. PICK q \in r.op .. (k + 1) - 1 :
            /\ r.result \notin {None, r.entry} => Taken(g, P, r.entry, r.op, q)
            /\ s.cur # r.entry => Taken(g, P, r.entry, q, k + 1)
      BY <2>1, <2>4 DEF Shape
    <3>2. s.cur # r.entry => Taken(g, P, r.entry, r.op, k + 1)
      <4>1. ASSUME s.cur # r.entry PROVE Taken(g, P, r.entry, r.op, k + 1)
        <5>0. Taken(g, P, r.entry, q, k + 1)
          BY <3>1, <4>1
        <5>1. PICK u \in DOMAIN g.args : IsCore(u) /\ u \notin P /\ q < OpOf(u) /\ OpOf(u) < k + 1 /\ r.entry \in Range(g.args[u])
          BY ONLY <5>0 DEF Taken
        <5>2. r.op < OpOf(u)
          BY <1>7, <1>8, <3>1, <5>1
        <5> QED BY <5>1, <5>2 DEF Taken
      <4> QED BY <4>1
    <3>3. k + 1 \in r.op .. (k + 2) - 1 /\ d = r.entry
      BY <1>7, <2>4
    <3>4. /\ l.result \notin {None, l.entry} => Taken(g, P, l.entry, l.op, k + 1)
          /\ d # l.entry => Taken(g, P, l.entry, k + 1, k + 2)
      BY <1>4, <3>2, <3>3
    <3> QED BY <1>4, <1>7, <2>2, <2>4, <3>3, <3>4 DEF Shape
  <2> QED BY <2>3, <2>4
<1>12. ASSUME NEW j \in 1 .. m
       PROVE  Shape(b, g, P, f[j], At(f, d, j), Until(f, k + 1, j)) /\ Apart(b, g, f[j])
  <2>1. CASE j = m
    <3>1. Apart(b, g, r)
      BY <1>3 DEF Struct, Levels
    <3>2. Apart(b, g, l)
      BY <1>4, <3>1 DEF Apart
    <3> QED BY <1>5, <1>10, <1>11, <2>1, <3>2
  <2>2. CASE j # m
    <3>1. j \in 1 .. m - 1
      BY <1>3, <2>2
    <3> QED BY <1>5, <1>9, <3>1 DEF Struct, Levels
  <2> QED BY <2>1, <2>2
<1>13. \A j \in 1 .. m : f[j].op = s.open[j].op
  <2> SUFFICES ASSUME NEW j \in 1 .. m PROVE f[j].op = s.open[j].op
    OBVIOUS
  <2>1. CASE j = m
    BY <1>3, <1>4, <1>5, <2>1
  <2>2. CASE j # m
    <3>1. j \in 1 .. m - 1
      BY <1>3, <2>2
    <3> QED BY <1>5, <3>1
  <2> QED BY <2>1, <2>2
<1>14. ASSUME NEW i \in 1 .. m, NEW j \in 1 .. m, j <= i, b[f[j].op].kind # "if"
       PROVE  /\ OpOf(At(f, d, i)) >= f[j].op
              /\ f[i].result # None => OpOf(f[i].result) >= f[j].op
  <2>0. f[j].op = s.open[j].op /\ b[s.open[j].op].kind # "if"
    BY <1>13, <1>14
  <2>1. /\ OpOf(At(s.open, s.cur, i)) >= f[j].op
        /\ s.open[i].result # None => OpOf(s.open[i].result) >= f[j].op
    BY <1>14, <2>0 DEF Struct, Inside
  <2>2. CASE i # m
    <3>1. i \in 1 .. m - 1
      BY <1>3, <2>2
    <3> QED BY <1>5, <1>9, <2>1, <3>1
  <2>3. CASE i = m
    <3>1. OpOf(s.cur) >= f[j].op
      BY <1>10, <2>1, <2>3
    <3>2. OpOf(d) >= f[j].op
      <4>1. CASE d = s.cur
        BY <3>1, <4>1
      <4>2. CASE b[r.op].kind = "if" /\ d = r.entry
        <5>1. j # m
          BY <1>3, <2>0, <4>2
        <5>2. m - 1 \in 1 .. m /\ j <= m - 1 /\ m - 1 # m /\ (m - 1) + 1 = m
          BY <1>3, <5>1
        <5>3. At(s.open, s.cur, m - 1) = r.entry
          BY <1>3, <5>2 DEF At
        <5>4. OpOf(At(s.open, s.cur, m - 1)) >= s.open[j].op
          BY <2>0, <5>2 DEF Struct, Inside
        <5> QED BY <2>0, <4>2, <5>3, <5>4
      <4> QED BY <4>1, <4>2
    <3>3. f[i].result = s.cur /\ At(f, d, i) = d
      BY <1>4, <1>5, <1>10, <2>3
    <3> QED BY <3>1, <3>2, <3>3
  <2> QED BY <2>2, <2>3
<1>15. Levels(b, t, k + 1)
  <2>1. \A j \in 1 .. Len(f) : Shape(b, g, Pending(f), f[j], At(f, d, j), Until(f, k + 1, j)) /\ Apart(b, g, f[j])
    BY <1>5, <1>6, <1>12
  <2> QED BY <1>1, <2>1 DEF Levels
<1>16. Inside(b, t)
  <2>1. \A i, j \in 1 .. Len(f) : j <= i /\ b[f[j].op].kind # "if" =>
             /\ OpOf(At(f, d, i)) >= f[j].op
             /\ f[i].result # None => OpOf(f[i].result) >= f[j].op
    BY <1>5, <1>14
  <2> HIDE DEF g
  <2> QED BY ONLY <1>1, <2>1 DEF Inside
<1>17. Hung(g, Pending(f))
  BY <1>6 DEF Struct
<1> QED BY <1>1, <1>7, <1>15, <1>16, <1>17 DEF Struct

(***************************************************************************)
(* What the operations on the graph do to it while it is built.            *)
(***************************************************************************)

\* Only what node n is a post-dominator of can be new.
PostsKept(g, h) ==
  \A u \in DOMAIN h.args : h.pdom[u] # None => u \in DOMAIN g.args /\ h.pdom[u] = g.pdom[u]

\* Node n of h is new or has been given arguments.
IsGrown(g, h, n, arguments) ==
  /\ DOMAIN h.args = DOMAIN g.args \cup {n} /\ Live(h) = Live(g) \cup {n}
  /\ h.args[n] = arguments
  /\ \A u \in DOMAIN g.args : u # n => h.args[u] = g.args[u]
  /\ \A u \in DOMAIN g.args : h.dom[u] = g.dom[u]
  /\ n \notin DOMAIN g.args => h.dom[n] = None
  /\ PostsKept(g, h)

LEMMA CreateGrows ==
  ASSUME NEW g, NEW X, Sound(g, X), NEW n, NEW arguments, CanCreate(g, n, arguments),
         NEW h, h = CreateNode(g, n, arguments)
  PROVE  IsGrown(g, h, n, arguments) /\ IsGraph(h)
<1>1. IsCreated(g, X, n, arguments, h)
  BY NodeCreated
<1>2. n \notin DOMAIN g.args
  BY DEF CanCreate
<1>3. IsGraph(h)
  BY <1>1 DEF IsCreated, Sound
<1>4. PostsKept(g, h)
  BY <1>1 DEF IsCreated, PostsKept
<1> QED BY <1>1, <1>2, <1>3, <1>4 DEF IsCreated, IsGrown

LEMMA SetGrows ==
  ASSUME NEW g, NEW X, NEW n, NEW i, NEW to, CanSet(g, X, n, i, to), n \in Live(g),
         NEW h, h = SetArgument(g, n, i, to)
  PROVE  IsGrown(g, h, n, h.args[n]) /\ IsGraph(h)
<1>1. IsSet(g, X, n, i, to, h)
  BY OneSet
<1>2. IsGraph(h) /\ n \in DOMAIN g.args /\ h.dom = g.dom /\ h.pdom = g.pdom /\ Live(h) = Live(g) /\ DOMAIN h.args = DOMAIN g.args
  BY <1>1 DEF IsSet, Sound, SameNodes, CanSet, Live
<1>3. \A u \in DOMAIN g.args : u # n => h.args[u] = g.args[u]
  BY <1>1 DEF IsSet
<1> QED BY <1>2, <1>3 DEF IsGrown, PostsKept

LEMMA GrownIs ==
  ASSUME NEW g, IsGraph(g), NEW h, NEW n, NEW arguments, IsGrown(g, h, n, arguments)
  PROVE  Grown(g, h, n)
<1>1. DOMAIN g.dom = DOMAIN g.args /\ DOMAIN g.pdom = DOMAIN g.args
  BY GraphTypes
<1> QED BY <1>1 DEF IsGrown, PostsKept, Grown

\* The node also gets a dominator.
Connected(g, c, n, arguments, m, h) ==
  /\ IsGraph(g) /\ IsGraph(c) /\ IsGrown(g, c, n, arguments)
  /\ n \in DOMAIN g.args => g.dom[n] = None
  /\ m \in DOMAIN g.args /\ h = Dominates(c, m, n)

IsConnected(g, c, n, arguments, m, h) ==
  /\ Grown(g, h, n) /\ h.args = c.args /\ Live(h) = Live(c) /\ h.dom[n] = m
  /\ h.args[n] = arguments

LEMMA ConnectGrows ==
  ASSUME NEW g, NEW c, NEW n, NEW arguments, NEW m, NEW h, Connected(g, c, n, arguments, m, h)
  PROVE  IsConnected(g, c, n, arguments, m, h)
<1>0. /\ IsGraph(g) /\ IsGraph(c) /\ IsGrown(g, c, n, arguments)
      /\ n \in DOMAIN g.args => g.dom[n] = None
      /\ m \in DOMAIN g.args /\ h = Dominates(c, m, n)
  BY DEF Connected
<1>1. /\ DOMAIN c.dom = DOMAIN c.args /\ DOMAIN c.pdom = DOMAIN c.args /\ DOMAIN g.dom = DOMAIN g.args /\ DOMAIN g.pdom = DOMAIN g.args
      /\ c = [nodes |-> c.nodes, args |-> c.args, users |-> c.users, dom |-> c.dom, pdom |-> c.pdom]
  BY <1>0, GraphTypes DEF IsGraph
<1>2. /\ h.args = c.args /\ h.nodes = c.nodes /\ h.dom = [c.dom EXCEPT ![n] = m] /\ h.pdom = [c.pdom EXCEPT ![m] = n]
  BY <1>0, <1>1 DEF Dominates
<1>3. /\ DOMAIN c.args = DOMAIN g.args \cup {n} /\ Live(c) = Live(g) \cup {n}
      /\ c.args[n] = arguments
      /\ \A u \in DOMAIN g.args : u # n => c.args[u] = g.args[u]
      /\ \A u \in DOMAIN g.args : c.dom[u] = g.dom[u]
      /\ \A u \in DOMAIN c.args : c.pdom[u] # None => u \in DOMAIN g.args /\ c.pdom[u] = g.pdom[u]
  BY <1>0 DEF IsGrown, PostsKept
<1>4. h.dom[n] = m /\ \A u \in DOMAIN g.args : u # n => h.dom[u] = g.dom[u]
  BY <1>0, <1>1, <1>2, <1>3
<1>5. \A u \in DOMAIN h.args : h.pdom[u] # None =>
        (u \in DOMAIN g.args /\ h.pdom[u] = g.pdom[u]) \/ (h.pdom[u] = n /\ h.dom[n] = u)
  <2> SUFFICES ASSUME NEW u \in DOMAIN h.args, h.pdom[u] # None
               PROVE  (u \in DOMAIN g.args /\ h.pdom[u] = g.pdom[u]) \/ (h.pdom[u] = n /\ h.dom[n] = u)
    OBVIOUS
  <2>1. CASE u = m
    BY <1>0, <1>1, <1>2, <1>3, <1>4, <2>1
  <2>2. CASE u # m
    <3>1. h.pdom[u] = c.pdom[u]
      BY <1>1, <1>2, <2>2
    <3> QED BY <1>2, <1>3, <3>1
  <2> QED BY <2>1, <2>2
<1>6. Live(h) = Live(c)
  BY <1>2 DEF Live
<1>7. Grown(g, h, n)
  BY <1>0, <1>2, <1>3, <1>4, <1>5, <1>6 DEF Grown
<1> QED BY <1>2, <1>3, <1>4, <1>6, <1>7 DEF IsConnected

\* Before the node that grows nothing changes.
LEMMA GrownSteady ==
  ASSUME NEW g, IsGraph(g), NEW h, NEW n, Grown(g, h, n), OpOf(n) \in Nat,
         NEW P, NEW Q, Q \subseteq P \cup {n}, NEW q \in Nat, q <= OpOf(n)
  PROVE  Steady(g, P, h, Q, q)
<1>1. ~(OpOf(n) < q)
  OBVIOUS
<1> QED BY <1>1 DEF Grown, Steady

LEMMA GrownArguments ==
  ASSUME NEW g, NEW h, NEW n, Grown(g, h, n), OpOf(n) \in Nat, NEW A, Range(h.args[n]) \subseteq A \cup {None}
  PROVE  NewArguments(g, h, OpOf(n), A)
<1>1. ASSUME NEW x \in DOMAIN h.args, NEW a \in Range(h.args[x]) \ {None}
      PROVE  (x \in DOMAIN g.args /\ a \in Range(g.args[x])) \/ (OpOf(x) >= OpOf(n) /\ a \in A)
  <2>1. CASE x = n
    BY <2>1
  <2>2. CASE x # n
    BY <2>2 DEF Grown
  <2> QED BY <2>1, <2>2
<1> QED BY <1>1 DEF NewArguments

(***************************************************************************)
(* The operations, one by one.                                             *)
(***************************************************************************)

LEMMA StructFacts ==
  ASSUME NEW b, NEW kept, NEW s, NEW k \in Nat, BuildState(b, kept, s, k), Struct(b, s, k)
  PROVE  /\ Sound(s.g, Pending(s.open)) /\ IsGraph(s.g) /\ DOMAIN s.g.args \subseteq Nodes /\ Live(s.g) \subseteq DOMAIN s.g.args
         /\ Hung(s.g, Pending(s.open))
         /\ s.cur \in Live(s.g) /\ s.cur \in DOMAIN s.g.args /\ s.cur # None /\ IsCore(s.cur) /\ OpOf(s.cur) \in Nat /\ OpOf(s.cur) <= k
         /\ \A n \in DOMAIN s.g.args : OpOf(n) \in Nat /\ OpOf(n) <= k
         /\ Accesses(s.g, b, kept, k)
<1>1. GraphAt(b, kept, s.g, Pending(s.open), s.cur, k)
  BY StateFacts
<1>2. /\ Sound(s.g, Pending(s.open)) /\ IsGraph(s.g) /\ DOMAIN s.g.args \subseteq Nodes
      /\ s.cur \in DOMAIN s.g.args /\ s.cur # None /\ IsCore(s.cur) /\ OpOf(s.cur) \in Nat /\ OpOf(s.cur) <= k
      /\ \A n \in DOMAIN s.g.args : OpOf(n) <= k
  BY <1>1, CoreNodes
<1>3. \A n \in DOMAIN s.g.args : OpOf(n) \in Nat
  BY <1>2 DEF Nodes, OpOf
<1>4. Live(s.g) \subseteq DOMAIN s.g.args
  BY <1>2, GraphTypes
<1>5. Hung(s.g, Pending(s.open)) /\ s.cur \in Live(s.g)
  BY DEF Struct
<1> QED BY <1>1, <1>2, <1>3, <1>4, <1>5 DEF GraphAt

\* A new Phi in P.
LEMMA OpenHung ==
  ASSUME NEW h, NEW Q, NEW n \in Q, Type(n) = "Phi", Range(h.args[n]) \subseteq Live(h) \cup {None}
  PROVE  NodeHung(h, Q, n)
BY DEF NodeHung

LEMMA TwoArguments ==
  ASSUME NEW u, NEW v
  PROVE  Range(<<u, v>>) = {u, v} /\ <<u, v>>[1] = u /\ <<u, v>>[2] = v
BY DEF Range

LEMMA ForStruct ==
  ASSUME NEW b, NEW kept, NEW s, NEW k \in Nat, BuildState(b, kept, s, k), Struct(b, s, k), b[k + 1].kind = "for"
  PROVE  Struct(b, EnterFor(s, k + 1), k + 1)
<1> DEFINE n == Phi(k + 1)
           as == <<None, s.cur>>
           h == CreateNode(s.g, n, as)
           r == [op |-> k + 1, entry |-> s.cur, phi |-> n, result |-> None]
           o == Append(s.open, r)
           t == EnterFor(s, k + 1)
           P == Pending(s.open)
           Q == Pending(o)
           g == s.g
<1>1. t = [g |-> h, cur |-> n, open |-> o]
  <2>1. t = [s EXCEPT !.g = h, !.cur = n, !.open = o]
    BY DEF EnterFor, Opened
  <2>2. s = [g |-> s.g, cur |-> s.cur, open |-> s.open]
    BY StateFacts
  <2> HIDE DEF h, o, t, n
  <2> QED BY <2>1, <2>2, StateSet
<1>2. BuildState(b, kept, t, k + 1)
  BY ForIn
<1>3. r.op = k + 1 /\ r.entry = s.cur /\ r.result = None
  OBVIOUS
<1>4. h = CreateNode(g, n, as) /\ Range(as) = {None, s.cur} /\ as[1] = None /\ as[2] = s.cur
  BY TwoArguments
<1>5. n = Phi(r.op) /\ n \in Nodes /\ n # Root /\ Type(n) = "Phi" /\ OpOf(n) = k + 1 /\ Arity(n) = 2 /\ IsCore(n)
  BY <1>3, NewNodes
<1>6. /\ Sound(g, P) /\ IsGraph(g) /\ Live(g) \subseteq DOMAIN g.args /\ Hung(g, P)
      /\ s.cur \in Live(g) /\ s.cur \in DOMAIN g.args /\ s.cur # None /\ IsCore(s.cur) /\ OpOf(s.cur) \in Nat /\ OpOf(s.cur) <= k
      /\ \A u \in DOMAIN g.args : OpOf(u) \in Nat /\ OpOf(u) <= k
  BY StructFacts
<1>7. Q = P \cup {n}
  BY <1>5, OpenFacts, PendingAppended
<1>8. as \in Seq(DOMAIN g.args \cup {None}) /\ Len(as) = 2 /\ DOMAIN as = {1, 2}
  BY <1>6
<1>88. as = <<None, r.entry>>
  BY <1>3
<1> HIDE DEF n, as, h, r, o, t, P, Q, g
<1>9. n \notin DOMAIN g.args
  BY <1>5, <1>6
<1>10. CanCreate(g, n, as)
  BY <1>4, <1>5, <1>6, <1>8, <1>9 DEF CanCreate, MayUse
<1>11. IsGrown(g, h, n, as) /\ IsGraph(h)
  BY <1>4, <1>6, <1>10, CreateGrows
<1>12. Grown(g, h, n)
  BY <1>6, <1>11, GrownIs
<1>13. h.args[n] = as /\ h.dom[n] = None /\ Live(h) = Live(g) \cup {n} /\ DOMAIN h.args = DOMAIN g.args \cup {n}
  BY <1>9, <1>11 DEF IsGrown
<1>14. NodeHung(h, Q, n)
  BY <1>4, <1>5, <1>6, <1>7, <1>13, OpenHung
<1>15. Hung(h, Q)
  BY <1>6, <1>7, <1>9, <1>12, <1>14, HungGrown
<1>16. Steady(g, P, h, Q, k + 1)
  BY <1>5, <1>6, <1>7, <1>12, GrownSteady
<1>17. NewArguments(g, h, k + 1, {s.cur})
  <2>1. Range(h.args[n]) \subseteq {s.cur} \cup {None}
    BY <1>4, <1>13
  <2>2. NewArguments(g, h, OpOf(n), {s.cur})
    BY <1>5, <1>12, <2>1, GrownArguments
  <2> QED BY <1>5, <2>2
<1>18. Shape(b, h, Q, r, n, k + 2)
  <2>1. \A u \in DOMAIN h.args : OpOf(u) \in Nat /\ OpOf(u) <= k + 1
    BY <1>5, <1>6, <1>13
  <2>2. \A u \in Live(h) : ~(r.op < OpOf(u) /\ OpOf(u) < k + 2)
    BY <1>3, <1>5, <1>6, <1>13, <2>1
  <2>3. h.args[Phi(r.op)] = <<None, r.entry>> /\ h.dom[Phi(r.op)] = None
    BY <1>5, <1>13, <1>88
  <2>4. b[r.op].kind = "for"
    BY <1>3
  <2> QED BY <1>3, <1>6, <1>13, <2>2, <2>3, <2>4 DEF Shape
<1>19. Struct(b, t, k + 1)
  <2>1. n \in Live(h) /\ k \in Nat /\ BuildState(b, kept, s, k) /\ Struct(b, s, k) /\ g = s.g /\ P = Pending(s.open)
        /\ Q = Pending(Append(s.open, r)) /\ t = [g |-> h, cur |-> n, open |-> Append(s.open, r)]
    BY <1>1, <1>13 DEF g, P, Q, o
  <2>2. Steady(s.g, P, h, Q, k + 1) /\ NewArguments(s.g, h, k + 1, {s.cur})
    BY <1>16, <1>17 DEF g
  <2> QED BY ONLY <1>2, <1>3, <1>5, <1>11, <1>15, <1>18, <2>1, <2>2, LevelsPushed
<1> QED BY <1>19 DEF t

LEMMA WhileStruct ==
  ASSUME NEW b, NEW kept, NEW s, NEW k \in Nat, BuildState(b, kept, s, k), Struct(b, s, k), b[k + 1].kind = "while"
  PROVE  Struct(b, EnterWhile(s, k + 1), k + 1)
<1> DEFINE n == Phi(k + 1)
           as == <<None, None>>
           c == CreateNode(s.g, n, as)
           h == Dominates(c, s.cur, n)
           r == [op |-> k + 1, entry |-> s.cur, phi |-> n, result |-> None]
           o == Append(s.open, r)
           t == EnterWhile(s, k + 1)
           P == Pending(s.open)
           Q == Pending(o)
           g == s.g
<1>1. t = [g |-> h, cur |-> n, open |-> o]
  <2>1. t = [s EXCEPT !.g = h, !.cur = n, !.open = o]
    BY DEF EnterWhile, Opened
  <2>2. s = [g |-> s.g, cur |-> s.cur, open |-> s.open]
    BY StateFacts
  <2> HIDE DEF h, o, t, n
  <2> QED BY <2>1, <2>2, StateSet
<1>2. BuildState(b, kept, t, k + 1)
  BY WhileIn
<1>3. r.op = k + 1 /\ r.entry = s.cur /\ r.result = None
  OBVIOUS
<1>4. c = CreateNode(g, n, as) /\ h = Dominates(c, s.cur, n) /\ Range(as) = {None} /\ as[1] = None /\ as[2] = None
  BY TwoArguments
<1>5. n = Phi(r.op) /\ n \in Nodes /\ n # Root /\ Type(n) = "Phi" /\ OpOf(n) = k + 1 /\ Arity(n) = 2 /\ IsCore(n)
  BY <1>3, NewNodes
<1>6. /\ Sound(g, P) /\ IsGraph(g) /\ Live(g) \subseteq DOMAIN g.args /\ Hung(g, P)
      /\ s.cur \in Live(g) /\ s.cur \in DOMAIN g.args /\ s.cur # None /\ IsCore(s.cur) /\ OpOf(s.cur) \in Nat /\ OpOf(s.cur) <= k
      /\ \A u \in DOMAIN g.args : OpOf(u) \in Nat /\ OpOf(u) <= k
  BY StructFacts
<1>7. Q = P \cup {n}
  BY <1>5, OpenFacts, PendingAppended
<1>8. as \in Seq(DOMAIN g.args \cup {None}) /\ Len(as) = 2 /\ DOMAIN as = {1, 2}
  BY <1>6
<1>88. as = <<None, None>>
  OBVIOUS
<1> HIDE DEF n, as, c, h, r, o, t, P, Q, g
<1>9. n \notin DOMAIN g.args
  BY <1>5, <1>6
<1>10. CanCreate(g, n, as)
  BY <1>4, <1>5, <1>6, <1>8, <1>9 DEF CanCreate, MayUse
<1>11. IsGrown(g, c, n, as) /\ IsGraph(c)
  BY <1>4, <1>6, <1>10, CreateGrows
<1>12. Grown(g, h, n) /\ h.args = c.args /\ Live(h) = Live(c) /\ h.dom[n] = s.cur /\ h.args[n] = as
  <2>1. Connected(g, c, n, as, s.cur, h)
    BY <1>4, <1>6, <1>9, <1>11 DEF Connected
  <2>2. IsConnected(g, c, n, as, s.cur, h)
    BY ONLY <2>1, ConnectGrows
  <2> QED BY <2>2 DEF IsConnected
<1>0. IsGraph(h)
  BY <1>1, <1>2, StateFacts DEF Sound
<1>13. h.args[n] = as /\ Live(h) = Live(g) \cup {n} /\ DOMAIN h.args = DOMAIN g.args \cup {n}
  BY <1>9, <1>11, <1>12 DEF IsGrown
<1>14. NodeHung(h, Q, n)
  BY <1>4, <1>5, <1>6, <1>7, <1>13, OpenHung
<1>15. Hung(h, Q)
  BY <1>6, <1>7, <1>9, <1>12, <1>14, HungGrown
<1>16. Steady(g, P, h, Q, k + 1)
  BY <1>5, <1>6, <1>7, <1>12, GrownSteady
<1>17. NewArguments(g, h, k + 1, {s.cur})
  <2>1. Range(h.args[n]) \subseteq {s.cur} \cup {None}
    BY <1>4, <1>13
  <2>2. NewArguments(g, h, OpOf(n), {s.cur})
    <3>1. Grown(g, h, n) /\ OpOf(n) \in Nat
      BY <1>5, <1>12
    <3> QED BY ONLY <2>1, <3>1, GrownArguments
  <2> QED BY <1>5, <2>2
<1>18. Shape(b, h, Q, r, n, k + 2)
  <2>3. h.args[Phi(r.op)] = <<None, None>> /\ h.dom[Phi(r.op)] = r.entry
    BY <1>3, <1>5, <1>12, <1>13, <1>88
  <2>4. b[r.op].kind = "while"
    BY <1>3
  <2> QED BY <1>3, <1>6, <1>13, <2>3, <2>4 DEF Shape
<1>19. Struct(b, t, k + 1)
  <2>1. n \in Live(h) /\ k \in Nat /\ BuildState(b, kept, s, k) /\ Struct(b, s, k) /\ g = s.g /\ P = Pending(s.open)
        /\ Q = Pending(Append(s.open, r)) /\ t = [g |-> h, cur |-> n, open |-> Append(s.open, r)]
    BY <1>1, <1>13 DEF g, P, Q, o
  <2>2. Steady(s.g, P, h, Q, k + 1) /\ NewArguments(s.g, h, k + 1, {s.cur})
    BY <1>16, <1>17 DEF g
  <2> QED BY ONLY <1>0, <1>2, <1>3, <1>5, <1>11, <1>15, <1>18, <2>1, <2>2, LevelsPushed
<1> QED BY <1>19 DEF t

\* Nothing happens to the graph.
LEMMA SteadyItself ==
  ASSUME NEW g, NEW P, NEW q, NEW Q, Q \subseteq P \cup {u \in Nodes : ~(OpOf(u) < q)}
  PROVE  Steady(g, P, g, Q, q) /\ \A lo, A : NewArguments(g, g, lo, A)
BY DEF Steady, NewArguments

LEMMA IfStruct ==
  ASSUME NEW b, NEW kept, NEW s, NEW k \in Nat, BuildState(b, kept, s, k), Struct(b, s, k), b[k + 1].kind = "if"
  PROVE  Struct(b, EnterIf(s, k + 1), k + 1)
<1> DEFINE r == [op |-> k + 1, entry |-> s.cur, phi |-> None, result |-> None]
           o == Append(s.open, r)
           t == EnterIf(s, k + 1)
           P == Pending(s.open)
           Q == Pending(o)
           g == s.g
           c == s.cur
           n == Phi(k + 1)
<1>1. t = [g |-> g, cur |-> c, open |-> o]
  <2>1. s = [g |-> s.g, cur |-> s.cur, open |-> s.open]
    BY StateFacts
  <2> QED BY <2>1 DEF EnterIf, Opened
<1>2. BuildState(b, kept, t, k + 1)
  BY IfIn
<1>3. r.op = k + 1 /\ r.entry = c /\ r.result = None
  OBVIOUS
<1>5. n = Phi(r.op) /\ n \in Nodes /\ OpOf(n) = k + 1
  BY <1>3, NewNodes
<1>6. /\ IsGraph(g) /\ Hung(g, P) /\ Live(g) \subseteq DOMAIN g.args
      /\ c \in Live(g) /\ OpOf(c) \in Nat /\ OpOf(c) <= k
      /\ \A u \in DOMAIN g.args : OpOf(u) \in Nat /\ OpOf(u) <= k
  BY StructFacts
<1>7. Q = P \cup {n}
  BY <1>5, OpenFacts, PendingAppended
<1> HIDE DEF n, r, o, t, P, Q, g, c
<1>8. n \notin DOMAIN g.args
  BY <1>5, <1>6
<1>9. Hung(g, Q)
  <2>1. \A e : Joint(g, P, e) => Joint(g, Q, e)
    BY <1>7, <1>8 DEF Joint
  <2>2. \A u \in Live(g) : NodeHung(g, P, u) => NodeHung(g, Q, u)
    BY <1>7, <2>1 DEF NodeHung
  <2> QED BY <1>6, <2>2 DEF Hung
<1>10. Steady(g, P, g, Q, k + 1) /\ NewArguments(g, g, k + 1, {c})
  <2>1. Q \subseteq P \cup {u \in Nodes : ~(OpOf(u) < k + 1)}
    BY <1>5, <1>7
  <2> QED BY <2>1, SteadyItself
<1>11. Shape(b, g, Q, r, c, k + 2)
  <2>1. b[r.op].kind = "if"
    BY <1>3
  <2>2. k + 1 \in r.op .. (k + 2) - 1
    BY <1>3
  <2> QED BY <1>3, <1>6, <2>1, <2>2 DEF Shape
<1>12. Struct(b, t, k + 1)
  <2>1. k \in Nat /\ BuildState(b, kept, s, k) /\ Struct(b, s, k) /\ g = s.g /\ c = s.cur /\ P = Pending(s.open)
        /\ Q = Pending(Append(s.open, r)) /\ t = [g |-> g, cur |-> c, open |-> Append(s.open, r)] /\ b[k + 1].kind = "if"
    BY <1>1 DEF g, P, Q, o, c
  <2>2. Steady(s.g, P, g, Q, k + 1) /\ NewArguments(s.g, g, k + 1, {s.cur}) /\ r.entry = s.cur
    BY <1>3, <1>10 DEF g, c
  <2> QED BY ONLY <1>2, <1>3, <1>6, <1>9, <1>11, <2>1, <2>2, LevelsPushed
<1> QED BY <1>12 DEF t

\* The innermost open operation.
LEMMA ElseStruct ==
  ASSUME NEW b, NEW kept, NEW s, NEW k \in Nat, BuildState(b, kept, s, k), Struct(b, s, k),
         Around(b, k + 1) # << >>, b[Last(s.open).op].kind = "if"
  PROVE  Struct(b, Else(s), k + 1)
<1> DEFINE r == Last(s.open)
           l == [r EXCEPT !.result = s.cur]
           o == Append(Front(s.open), l)
           t == Else(s)
           d == r.entry
<1>1. s = [g |-> s.g, cur |-> s.cur, open |-> s.open] /\ s.open # << >>
  BY StateFacts, Inner
<1>2. t = [s EXCEPT !.cur = d, !.open = o]
  BY DEF Else, Innermost, Closed
<1>3. o = Append(Front(s.open), l) /\ l = [r EXCEPT !.result = s.cur] /\ r = Last(s.open) /\ b[r.op].kind = "if"
      /\ d = IF b[r.op].kind = "if" THEN r.entry ELSE s.cur
  OBVIOUS
<1> HIDE DEF o, t, l, r, d
<1>4. t = [g |-> s.g, cur |-> d, open |-> Append(Front(s.open), l)]
  BY <1>1, <1>2, <1>3
<1>5. k \in Nat /\ BuildState(b, kept, s, k) /\ Struct(b, s, k) /\ b[r.op].kind \in {"if", "while"}
  BY <1>3
<1>6. Struct(b, t, k + 1)
  BY ONLY <1>1, <1>3, <1>4, <1>5, LevelsHalved
<1> QED BY <1>6 DEF t

LEMMA DoStruct ==
  ASSUME NEW b, NEW kept, NEW s, NEW k \in Nat, BuildState(b, kept, s, k), Struct(b, s, k),
         Around(b, k + 1) # << >>, b[Last(s.open).op].kind = "while"
  PROVE  Struct(b, Do(s), k + 1)
<1> DEFINE r == Last(s.open)
           l == [r EXCEPT !.result = s.cur]
           o == Append(Front(s.open), l)
           t == Do(s)
           d == s.cur
<1>1. s = [g |-> s.g, cur |-> s.cur, open |-> s.open] /\ s.open # << >>
  BY StateFacts, Inner
<1>2. t = [s EXCEPT !.open = o]
  BY DEF Do, Innermost, Closed
<1>3. o = Append(Front(s.open), l) /\ l = [r EXCEPT !.result = s.cur] /\ r = Last(s.open) /\ b[r.op].kind = "while"
      /\ d = IF b[r.op].kind = "if" THEN r.entry ELSE s.cur
  OBVIOUS
<1>0. d = s.cur
  OBVIOUS
<1> HIDE DEF o, t, l, r, d
<1>4. t = [g |-> s.g, cur |-> d, open |-> Append(Front(s.open), l)]
  BY <1>0, <1>1, <1>2, <1>3
<1>5. k \in Nat /\ BuildState(b, kept, s, k) /\ Struct(b, s, k) /\ b[r.op].kind \in {"if", "while"}
  BY <1>3
<1>6. Struct(b, t, k + 1)
  BY ONLY <1>1, <1>3, <1>4, <1>5, LevelsHalved
<1> QED BY <1>6 DEF t

\* The innermost open operation, when it is left.
Top(b, s, k, r, n, P, Q) ==
  /\ r = Last(s.open) /\ n = Phi(r.op) /\ P = Pending(s.open) /\ Q = P \ {n} /\ Q = Pending(Front(s.open))
  /\ s.open # << >> /\ r.op \in 1 .. k /\ n \in P
  /\ n \in Nodes /\ n # Root /\ Type(n) = "Phi" /\ IsCore(n) /\ OpOf(n) = r.op /\ Arity(n) = 2 /\ n # None
  /\ r.entry \in Live(s.g) /\ r.entry \in DOMAIN s.g.args /\ IsCore(r.entry) /\ OpOf(r.entry) < r.op /\ r.entry # None
  /\ r.result # None => r.result \in Live(s.g) /\ r.result \in DOMAIN s.g.args /\ IsCore(r.result) /\ OpOf(r.result) <= k
  /\ Shape(b, s.g, P, r, s.cur, k + 1) /\ Apart(b, s.g, r) /\ Frame(s.g, b, r, k)
  /\ b[r.op].kind # "if" => r.phi = n /\ n \in DOMAIN s.g.args /\ n \in Live(s.g)

LEMMA TopFacts ==
  ASSUME NEW b, NEW kept, NEW s, NEW k \in Nat, BuildState(b, kept, s, k), Struct(b, s, k), Around(b, k + 1) # << >>,
         NEW r, r = Last(s.open), NEW n, n = Phi(r.op), NEW P, P = Pending(s.open), NEW Q, Q = Pending(Front(s.open))
  PROVE  Top(b, s, k, r, n, P, Q)
<1>1. s.open # << >> /\ Frame(s.g, b, r, k) /\ n \in P
  BY Inner
<1>2. Q = P \ {n}
  BY <1>1, PendingFront
<1>3. /\ r.op \in 1 .. k /\ r.entry \in DOMAIN s.g.args /\ IsCore(r.entry) /\ OpOf(r.entry) < r.op
      /\ r.result # None => r.result \in DOMAIN s.g.args /\ IsCore(r.result) /\ OpOf(r.result) <= k
      /\ b[r.op].kind # "if" => r.phi = n /\ n \in DOMAIN s.g.args /\ n \in Live(s.g)
  BY <1>1 DEF Frame
<1>4. Shape(b, s.g, P, r, s.cur, k + 1) /\ Apart(b, s.g, r)
  <2> DEFINE m == Len(s.open)
  <2>1. m \in 1 .. m /\ r = s.open[m]
    BY <1>1, OpenFacts, SeqFront
  <2>2. At(s.open, s.cur, m) = s.cur /\ Until(s.open, k, m) = k + 1
    BY DEF At, Until
  <2> QED BY <2>1, <2>2 DEF Struct, Levels
<1>5. r.entry \in Live(s.g) /\ (r.result # None => r.result \in Live(s.g))
  BY <1>4 DEF Shape
<1>6. None \notin DOMAIN s.g.args
  BY StateFacts
<1>7. n \in Nodes /\ n # Root /\ Type(n) = "Phi" /\ OpOf(n) = r.op /\ Arity(n) = 2 /\ IsCore(n)
  <2>1. r.op \in Nat \ {0}
    BY <1>3
  <2> QED BY <2>1, NewNodes
<1>8. n # None
  BY <1>7, NoneAssumption DEF Nodes
<1> QED BY <1>1, <1>2, <1>3, <1>4, <1>5, <1>6, <1>7, <1>8 DEF Top

\* The Phi gets its arguments.
LEMMA GrownPopped ==
  ASSUME NEW b, NEW kept, NEW s, NEW k \in Nat, BuildState(b, kept, s, k), Struct(b, s, k),
         NEW r, NEW n, NEW P, NEW Q, Top(b, s, k, r, n, P, Q),
         NEW h, IsGraph(h), Grown(s.g, h, n), NodeHung(h, Q, n), Range(h.args[n]) \subseteq AtHand(s) \cup {None},
         NEW d, d \in Live(h), OpOf(d) >= r.op, OpOf(d) = r.op \/ d \in AtHand(s), Taken(h, Q, r.entry, r.op - 1, k + 2),
         NEW t, t = [g |-> h, cur |-> d, open |-> Front(s.open)]
  PROVE  Struct(b, t, k + 1)
<1>1. /\ r = Last(s.open) /\ n = Phi(r.op) /\ P = Pending(s.open) /\ Q = P \ {n} /\ Q = Pending(Front(s.open))
      /\ s.open # << >> /\ r.op \in 1 .. k /\ n \in P /\ OpOf(n) = r.op
  BY DEF Top
<1>2. IsGraph(s.g) /\ Hung(s.g, P)
  BY <1>1, StructFacts
<1>3. Hung(h, Q)
  <2> DEFINE g == s.g
  <2>1. IsGraph(g) /\ Hung(g, P) /\ Grown(g, h, n) /\ n \in P /\ P \ {n} \subseteq Q /\ Q \subseteq P \cup {n}
    BY <1>1, <1>2
  <2> HIDE DEF g
  <2> QED BY <2>1, HungGrown
<1>4. Steady(s.g, P, h, Q, r.op)
  <2> DEFINE g == s.g
             q == r.op
  <2>1. IsGraph(g) /\ Grown(g, h, n) /\ OpOf(n) \in Nat /\ q \in Nat /\ q <= OpOf(n) /\ Q \subseteq P \cup {n}
    BY <1>1, <1>2
  <2> HIDE DEF g, q
  <2>2. Steady(g, P, h, Q, q)
    BY <2>1, GrownSteady
  <2> QED BY <2>2 DEF g, q
<1>5. NewArguments(s.g, h, r.op, AtHand(s))
  <2> DEFINE g == s.g
             A == AtHand(s)
  <2>1. Grown(g, h, n) /\ OpOf(n) \in Nat /\ Range(h.args[n]) \subseteq A \cup {None}
    BY <1>1
  <2> HIDE DEF g, A
  <2>2. NewArguments(g, h, OpOf(n), A)
    BY <2>1, GrownArguments
  <2> QED BY <1>1, <2>2 DEF g, A
<1>6. Ahead(h, Q, r.entry, r.op, d, k + 2)
  BY <1>1 DEF Ahead
<1> QED BY <1>1, <1>3, <1>4, <1>5, <1>6, LevelsPopped

\* The Phi of a branch is complete: its dominator has a second user.
BranchLeft(b, g, P, r, c, k, n, first, h, Q) ==
  /\ DOMAIN g.args \subseteq Nodes /\ Shape(b, g, P, r, c, k + 1) /\ b[r.op].kind = "if" /\ r.op \in 1 .. k
  /\ n \notin DOMAIN g.args /\ IsCore(n) /\ Type(n) = "Phi" /\ OpOf(n) = r.op
  /\ first = (IF r.result = None THEN r.entry ELSE r.result)
  /\ Grown(g, h, n) /\ n \in DOMAIN h.args /\ Range(h.args[n]) = {first, c} /\ Q = P \ {n}

LEMMA BranchJoint ==
  ASSUME NEW b, NEW g, NEW P, NEW r, NEW c, NEW k \in Nat, NEW n, NEW first, NEW h, NEW Q, BranchLeft(b, g, P, r, c, k, n, first, h, Q)
  PROVE  Joint(h, Q, r.entry) /\ Taken(h, Q, r.entry, r.op - 1, k + 2)
<1>0. /\ DOMAIN g.args \subseteq Nodes /\ Shape(b, g, P, r, c, k + 1) /\ b[r.op].kind = "if" /\ r.op \in 1 .. k
      /\ n \notin DOMAIN g.args /\ IsCore(n) /\ Type(n) = "Phi" /\ OpOf(n) = r.op
      /\ first = (IF r.result = None THEN r.entry ELSE r.result)
      /\ Grown(g, h, n) /\ n \in DOMAIN h.args /\ Range(h.args[n]) = {first, c} /\ Q = P \ {n}
  BY DEF BranchLeft
<1>1. CASE r.entry \in {first, c}
  <2>1. n \in DOMAIN h.args \ Q /\ r.entry \in Range(h.args[n])
    BY <1>0, <1>1
  <2>2. Joint(h, Q, r.entry)
    BY <1>0, <2>1 DEF Joint
  <2>3. r.op - 1 < OpOf(n) /\ OpOf(n) < k + 2
    BY <1>0
  <2> QED BY <1>0, <2>1, <2>2, <2>3 DEF Taken
<1>2. CASE r.entry \notin {first, c}
  <2>1. PICK m \in r.op .. (k + 1) - 1 :
          /\ r.result \notin {None, r.entry} => Taken(g, P, r.entry, r.op, m)
          /\ c # r.entry => Taken(g, P, r.entry, m, k + 1)
    BY <1>0 DEF Shape
  <2>2. Taken(g, P, r.entry, r.op, m) /\ Taken(g, P, r.entry, m, k + 1)
    BY <1>0, <1>2, <2>1
  <2>3. PICK u \in DOMAIN g.args : IsCore(u) /\ u \notin P /\ r.op < OpOf(u) /\ OpOf(u) < m /\ r.entry \in Range(g.args[u])
    BY <2>2 DEF Taken
  <2>4. PICK v \in DOMAIN g.args : IsCore(v) /\ v \notin P /\ m < OpOf(v) /\ OpOf(v) < k + 1 /\ r.entry \in Range(g.args[v])
    BY <2>2 DEF Taken
  <2>5. OpOf(u) \in Nat /\ OpOf(v) \in Nat /\ m \in Nat /\ m <= k /\ r.op \in Nat
    BY <1>0, <2>1, <2>3, <2>4 DEF Nodes, OpOf
  <2>6. u # v
    BY <2>3, <2>4, <2>5
  <2>7. /\ u \in DOMAIN h.args \ Q /\ v \in DOMAIN h.args \ Q
        /\ r.entry \in Range(h.args[u]) /\ r.entry \in Range(h.args[v])
    BY <1>0, <2>3, <2>4 DEF Grown
  <2>8. Joint(h, Q, r.entry)
    BY <2>3, <2>4, <2>6, <2>7 DEF Joint
  <2>9. r.op - 1 < OpOf(u) /\ OpOf(u) < k + 2
    BY <2>3, <2>5
  <2> QED BY <2>3, <2>7, <2>8, <2>9 DEF Taken
<1> QED BY <1>1, <1>2

LEMMA IfOutStruct ==
  ASSUME NEW b, NEW kept, NEW s, NEW k \in Nat, BuildState(b, kept, s, k), Struct(b, s, k), b[k + 1].kind = "end",
         Around(b, k + 1) # << >>, b[Last(s.open).op].kind = "if"
  PROVE  Struct(b, LeaveIf(s), k + 1)
<1> DEFINE r == Last(s.open)
           n == Phi(r.op)
           P == Pending(s.open)
           Q == Pending(Front(s.open))
           g == s.g
           c == s.cur
           e == r.entry
           first == IF r.result = None THEN r.entry ELSE r.result
           as == <<first, c>>
           x == CreateNode(g, n, as)
           h == Dominates(x, e, n)
           t == LeaveIf(s)
<1>1. t = [g |-> h, cur |-> n, open |-> Front(s.open)]
  <2>1. (IF r.result = None THEN <<r.entry, s.cur>> ELSE <<r.result, s.cur>>) = as
    OBVIOUS
  <2> HIDE DEF first, as
  <2> QED BY <2>1 DEF LeaveIf, Innermost, Closed
<1>2. BuildState(b, kept, t, k + 1)
  BY IfOut
<1>3. Top(b, s, k, r, n, P, Q)
  BY TopFacts
<1>4. /\ x = CreateNode(g, n, as) /\ h = Dominates(x, e, n) /\ Range(as) = {first, c} /\ as[1] = first /\ as[2] = c
      /\ first = (IF r.result = None THEN r.entry ELSE r.result) /\ e = r.entry /\ g = s.g /\ c = s.cur
      /\ b[r.op].kind = "if" /\ DOMAIN as = 1 .. 2 /\ Len(as) = 2
  BY TwoArguments
<1>5. /\ Sound(g, P) /\ IsGraph(g) /\ DOMAIN g.args \subseteq Nodes
      /\ c \in Live(g) /\ c \in DOMAIN g.args /\ c # None /\ IsCore(c)
  BY StructFacts
<1>6. AtHand(s) = {r.entry, r.result, c} \ {None}
  BY DEF AtHand
<1>7. as = <<first, c>>
  OBVIOUS
<1>0. h.dom \in [DOMAIN h.args -> DOMAIN h.args \cup {None}] /\ IsGraph(h)
  <2>1. t.g = h
    BY <1>1
  <2>2. IsGraph(h)
    BY <1>2, <2>1, StateFacts DEF Sound
  <2> QED BY <2>2 DEF IsGraph
<1> HIDE DEF r, n, P, Q, g, c, e, first, as, x, h, t
<1>8. /\ n \in Nodes /\ n # Root /\ Type(n) = "Phi" /\ IsCore(n) /\ OpOf(n) = r.op /\ Arity(n) = 2 /\ n # None
      /\ r.op \in 1 .. k /\ e \in Live(g) /\ e \in DOMAIN g.args /\ IsCore(e) /\ e # None
      /\ r.result # None => r.result \in Live(g) /\ r.result \in DOMAIN g.args /\ IsCore(r.result)
      /\ Shape(b, g, P, r, c, k + 1) /\ Q = P \ {n} /\ n = Phi(r.op)
  BY <1>3, <1>4 DEF Top
<1>9. n \notin DOMAIN g.args
  <2>1. Frame(g, b, r, k)
    BY <1>3, <1>4 DEF Top
  <2> QED BY <1>4, <1>8, <2>1 DEF Frame
<1>10. first \in Live(g) /\ first \in DOMAIN g.args /\ IsCore(first) /\ first # None
  BY <1>4, <1>8
<1>11. CanCreate(g, n, as)
  <2>1. first \in DOMAIN g.args \cup {None} /\ c \in DOMAIN g.args \cup {None}
    BY <1>5, <1>10
  <2>2. as \in Seq(DOMAIN g.args \cup {None})
    BY ONLY <1>7, <2>1
  <2>3. MayUse(n, first) /\ MayUse(n, c)
    BY <1>5, <1>8, <1>10 DEF MayUse
  <2>4. \A i \in DOMAIN as : i = 1 \/ i = 2
    BY <1>4
  <2>5. \A i \in DOMAIN as : MayUse(n, as[i])
    BY ONLY <1>4, <2>3, <2>4
  <2> QED BY <1>4, <1>8, <1>9, <2>2, <2>5 DEF CanCreate
<1>12. IsGrown(g, x, n, as) /\ IsGraph(x)
  BY <1>4, <1>5, <1>11, CreateGrows
<1>13. Grown(g, h, n) /\ h.args = x.args /\ Live(h) = Live(x) /\ h.dom[n] = e /\ h.args[n] = as
  <2>1. Connected(g, x, n, as, e, h)
    BY <1>4, <1>5, <1>8, <1>9, <1>12 DEF Connected
  <2>2. IsConnected(g, x, n, as, e, h)
    BY ONLY <2>1, ConnectGrows
  <2> QED BY <2>2 DEF IsConnected
<1>14. Live(h) = Live(g) \cup {n} /\ DOMAIN h.args = DOMAIN g.args \cup {n}
  BY <1>12, <1>13 DEF IsGrown
<1>15. Joint(h, Q, e) /\ Taken(h, Q, e, r.op - 1, k + 2)
  <2>1. n \in DOMAIN h.args /\ Range(h.args[n]) = {first, c}
    BY <1>4, <1>13, <1>14
  <2>2. Joint(h, Q, r.entry) /\ Taken(h, Q, r.entry, r.op - 1, k + 2)
    <3>1. BranchLeft(b, g, P, r, c, k, n, first, h, Q)
      BY <1>4, <1>5, <1>8, <1>9, <1>13, <2>1 DEF BranchLeft
    <3> QED BY <3>1, BranchJoint
  <2> QED BY <1>4, <2>2
<1>16. NodeHung(h, Q, n)
  <2>1. Range(h.args[n]) \subseteq Live(h) \cup {None}
    BY <1>4, <1>5, <1>10, <1>13, <1>14
  <2>2. h.dom[n] \in Live(h) /\ Joint(h, Q, h.dom[n])
    BY <1>8, <1>13, <1>14, <1>15
  <2> QED BY <1>8, <2>1, <2>2 DEF NodeHung
<1>17. Range(h.args[n]) \subseteq AtHand(s) \cup {None}
  BY <1>4, <1>6, <1>13
<1>18. n \in Live(h) /\ OpOf(n) >= r.op /\ OpOf(n) = r.op
  BY <1>8, <1>14
<1>19. Grown(s.g, h, n) /\ Taken(h, Q, r.entry, r.op - 1, k + 2)
  BY <1>4, <1>13, <1>15
<1>20. k \in Nat /\ BuildState(b, kept, s, k) /\ Struct(b, s, k)
  OBVIOUS
<1>21. Struct(b, t, k + 1)
  BY ONLY <1>0, <1>1, <1>3, <1>16, <1>17, <1>18, <1>19, <1>20, GrownPopped
<1> QED BY <1>21 DEF t

\* The Phi of a loop: what it has got and what it gets.
LEMMA LoopSet ==
  ASSUME NEW g, NEW P, Sound(g, P), NEW n, n \in DOMAIN g.args, n \in Live(g), Type(n) = "Phi", n # Root,
         NEW i \in {1, 2}, NEW c, c \in DOMAIN g.args, c # None, IsCore(c),
         NEW x, x = SetArgument(g, n, i, c)
  PROVE  /\ IsGrown(g, x, n, x.args[n]) /\ Sound(x, P)
         /\ x.dom = g.dom /\ Live(x) = Live(g) /\ DOMAIN x.args = DOMAIN g.args
         /\ DOMAIN x.args[n] = {1, 2} /\ x.args[n][i] = c
         /\ \A j \in {1, 2} : j # i => x.args[n][j] = g.args[n][j]
<1>1. DOMAIN g.args[n] = {1, 2}
  <2>1. NodeFine(g, n)
    BY DEF Sound
  <2>2. Arity(n) = 2
    BY DEF Arity
  <2> QED BY <2>1, <2>2 DEF NodeFine
<1>2. CanSet(g, P, n, i, c)
  BY <1>1 DEF CanSet, MayUse
<1>3. IsSet(g, P, n, i, c, x)
  BY <1>2, OneSet
<1>4. IsGrown(g, x, n, x.args[n])
  BY <1>2, SetGrows
<1> QED BY <1>1, <1>3, <1>4 DEF IsSet, SameNodes, Live

LEMMA ForOutStruct ==
  ASSUME NEW b, NEW kept, NEW s, NEW k \in Nat, BuildState(b, kept, s, k), Struct(b, s, k), b[k + 1].kind = "end",
         Around(b, k + 1) # << >>, b[Last(s.open).op].kind = "for", s.cur # Last(s.open).phi
  PROVE  Struct(b, LeaveFor(s), k + 1)
<1> DEFINE r == Last(s.open)
           n == Phi(r.op)
           P == Pending(s.open)
           Q == Pending(Front(s.open))
           g == s.g
           c == s.cur
           e == r.entry
           x == SetArgument(g, n, 1, c)
           h == Dominates(x, e, n)
           t == LeaveFor(s)
<1>3. Top(b, s, k, r, n, P, Q)
  BY TopFacts
<1>33. r.phi = n
  BY <1>3 DEF Top
<1>1. t = [g |-> h, cur |-> n, open |-> Front(s.open)]
  BY <1>33 DEF LeaveFor, Innermost, Closed
<1>2. BuildState(b, kept, t, k + 1)
  BY ForOut
<1>4. /\ x = SetArgument(g, n, 1, c) /\ h = Dominates(x, e, n)
      /\ e = r.entry /\ g = s.g /\ c = s.cur
      /\ b[r.op].kind = "for"
  OBVIOUS
<1>5. /\ Sound(g, P) /\ IsGraph(g) /\ DOMAIN g.args \subseteq Nodes /\ Live(g) \subseteq DOMAIN g.args
      /\ c \in Live(g) /\ c \in DOMAIN g.args /\ c # None /\ IsCore(c)
  BY StructFacts
<1>6. AtHand(s) = {r.entry, r.result, c} \ {None}
  BY DEF AtHand
<1>0. IsGraph(h)
  <2>1. t.g = h
    BY <1>1
  <2> QED BY <1>2, <2>1, StateFacts DEF Sound
<1> HIDE DEF r, n, P, Q, g, c, e, x, h, t
<1>8. /\ n \in Nodes /\ n # Root /\ Type(n) = "Phi" /\ IsCore(n) /\ OpOf(n) = r.op /\ Arity(n) = 2 /\ n # None
      /\ r.op \in 1 .. k /\ e \in Live(g) /\ e \in DOMAIN g.args /\ IsCore(e) /\ e # None
      /\ Shape(b, g, P, r, c, k + 1) /\ Q = P \ {n} /\ n = Phi(r.op)
      /\ n \in DOMAIN g.args /\ n \in Live(g)
  BY <1>3, <1>4 DEF Top
<1>9. g.args[n] = <<None, e>> /\ g.dom[n] = None
  BY <1>4, <1>8 DEF Shape
<1>12. /\ IsGrown(g, x, n, x.args[n]) /\ Sound(x, P)
       /\ x.dom = g.dom /\ Live(x) = Live(g) /\ DOMAIN x.args = DOMAIN g.args
       /\ DOMAIN x.args[n] = {1, 2} /\ x.args[n][1] = c
       /\ \A j \in {1, 2} : j # 1 => x.args[n][j] = g.args[n][j]
  <2>1. 1 \in {1, 2}
    OBVIOUS
  <2> QED BY ONLY <1>4, <1>5, <1>8, <2>1, LoopSet
<1>11. Range(x.args[n]) = {c, e}
  <2>1. x.args[n][2] = e
    BY <1>9, <1>12
  <2> QED BY <1>12, <2>1 DEF Range
<1>13. Grown(g, h, n) /\ h.args = x.args /\ Live(h) = Live(x) /\ h.dom[n] = e
  <2>0. IsGraph(x)
    BY <1>12 DEF Sound
  <2>1. Connected(g, x, n, x.args[n], e, h)
    BY <1>4, <1>5, <1>8, <1>9, <1>12, <2>0 DEF Connected
  <2>2. IsConnected(g, x, n, x.args[n], e, h)
    BY ONLY <2>1, ConnectGrows
  <2> QED BY <2>2 DEF IsConnected
<1>14. Live(h) = Live(g) /\ DOMAIN h.args = DOMAIN g.args /\ Range(h.args[n]) = {c, e}
  BY <1>11, <1>12, <1>13
<1>15. Joint(h, Q, e) /\ Taken(h, Q, e, r.op - 1, k + 2)
  <2>1. n \in DOMAIN h.args \ Q /\ e \in Range(h.args[n])
    BY <1>8, <1>14
  <2>2. r.op - 1 < OpOf(n) /\ OpOf(n) < k + 2
    BY <1>8
  <2> QED BY <1>8, <2>1, <2>2 DEF Joint, Taken
<1>16. NodeHung(h, Q, n)
  <2>1. Range(h.args[n]) \subseteq Live(h) \cup {None}
    BY <1>5, <1>8, <1>14
  <2>2. h.dom[n] \in Live(h) /\ Joint(h, Q, h.dom[n])
    BY <1>8, <1>13, <1>14, <1>15
  <2> QED BY <1>8, <2>1, <2>2 DEF NodeHung
<1>17. Range(h.args[n]) \subseteq AtHand(s) \cup {None}
  BY <1>4, <1>6, <1>14
<1>18. n \in Live(h) /\ OpOf(n) >= r.op /\ OpOf(n) = r.op
  BY <1>8, <1>14
<1>19. Grown(s.g, h, n) /\ Taken(h, Q, r.entry, r.op - 1, k + 2)
  BY <1>4, <1>13, <1>15
<1>20. k \in Nat /\ BuildState(b, kept, s, k) /\ Struct(b, s, k)
  OBVIOUS
<1>21. Struct(b, t, k + 1)
  BY ONLY <1>0, <1>1, <1>3, <1>16, <1>17, <1>18, <1>19, <1>20, GrownPopped
<1> QED BY <1>21 DEF t

LEMMA WhileOutStruct ==
  ASSUME NEW b, NEW kept, NEW s, NEW k \in Nat, BuildState(b, kept, s, k), Struct(b, s, k), b[k + 1].kind = "end",
         Around(b, k + 1) # << >>, b[Last(s.open).op].kind = "while", Halfway(b, Last(s.open).op, k + 1)
  PROVE  Struct(b, LeaveWhile(s), k + 1)
<1> DEFINE r == Last(s.open)
           n == Phi(r.op)
           P == Pending(s.open)
           Q == Pending(Front(s.open))
           g == s.g
           c == s.cur
           e == r.entry
           d == r.result
           x == SetArgument(g, n, 1, e)
           h == SetArgument(x, n, 2, c)
           t == LeaveWhile(s)
<1>3. Top(b, s, k, r, n, P, Q)
  BY TopFacts
<1>33. r.phi = n
  BY <1>3 DEF Top
<1>1. t = [g |-> h, cur |-> d, open |-> Front(s.open)]
  BY <1>33 DEF LeaveWhile, Innermost, Closed
<1>4. /\ x = SetArgument(g, n, 1, e) /\ h = SetArgument(x, n, 2, c)
      /\ e = r.entry /\ g = s.g /\ c = s.cur /\ d = r.result
      /\ b[r.op].kind = "while" /\ Halfway(b, r.op, k + 1)
  OBVIOUS
<1>5. /\ Sound(g, P) /\ IsGraph(g) /\ DOMAIN g.args \subseteq Nodes /\ Live(g) \subseteq DOMAIN g.args
      /\ c \in Live(g) /\ c \in DOMAIN g.args /\ c # None /\ IsCore(c)
  BY StructFacts
<1>6. AtHand(s) = {r.entry, r.result, c} \ {None}
  BY DEF AtHand
<1>7. r.result # None => OpOf(r.result) >= r.op
  <2> DEFINE m == Len(s.open)
  <2>1. m \in 1 .. m /\ r = s.open[m] /\ m <= m
    <3>1. s.open # << >>
      BY <1>3 DEF Top
    <3> QED BY <3>1, OpenFacts, SeqFront
  <2> QED BY <2>1 DEF Struct, Inside
<1> HIDE DEF r, n, P, Q, g, c, e, d, x, h, t
<1>8. /\ n \in Nodes /\ n # Root /\ Type(n) = "Phi" /\ IsCore(n) /\ OpOf(n) = r.op /\ Arity(n) = 2 /\ n # None
      /\ r.op \in 1 .. k /\ e \in Live(g) /\ e \in DOMAIN g.args /\ IsCore(e) /\ e # None
      /\ Shape(b, g, P, r, c, k + 1) /\ Q = P \ {n} /\ n = Phi(r.op)
      /\ n \in DOMAIN g.args /\ n \in Live(g) /\ (d # None => d \in Live(g)) /\ Frame(g, b, r, k)
  BY <1>3, <1>4 DEF Top
<1>9. g.args[n] = <<None, None>> /\ g.dom[n] = e /\ d # None
  BY <1>4, <1>8 DEF Shape, Frame
<1>12. /\ IsGrown(g, x, n, x.args[n]) /\ Sound(x, P)
       /\ x.dom = g.dom /\ Live(x) = Live(g) /\ DOMAIN x.args = DOMAIN g.args
       /\ DOMAIN x.args[n] = {1, 2} /\ x.args[n][1] = e
  <2>1. 1 \in {1, 2}
    OBVIOUS
  <2> QED BY ONLY <1>4, <1>5, <1>8, <2>1, LoopSet
<1>13. /\ IsGrown(x, h, n, h.args[n]) /\ Sound(h, P)
       /\ h.dom = x.dom /\ Live(h) = Live(x) /\ DOMAIN h.args = DOMAIN x.args
       /\ DOMAIN h.args[n] = {1, 2} /\ h.args[n][2] = c
       /\ \A j \in {1, 2} : j # 2 => h.args[n][j] = x.args[n][j]
  <2>1. 2 \in {1, 2} /\ n \in DOMAIN x.args /\ n \in Live(x) /\ c \in DOMAIN x.args
    BY <1>5, <1>8, <1>12
  <2> QED BY ONLY <1>4, <1>5, <1>8, <1>12, <2>1, LoopSet
<1>14. Live(h) = Live(g) /\ DOMAIN h.args = DOMAIN g.args /\ Range(h.args[n]) = {c, e} /\ h.dom = g.dom
  <2>1. h.args[n][1] = e
    BY <1>12, <1>13
  <2>2. Range(h.args[n]) = {c, e}
    BY <1>13, <2>1 DEF Range
  <2> QED BY <1>12, <1>13, <2>2
<1>10. Grown(g, h, n)
  <2>1. \A u \in DOMAIN g.args : u # n => h.args[u] = g.args[u]
    BY <1>12, <1>13 DEF IsGrown
  <2>2. \A u \in DOMAIN h.args : h.pdom[u] # None => u \in DOMAIN g.args /\ h.pdom[u] = g.pdom[u]
    <3> SUFFICES ASSUME NEW u \in DOMAIN h.args, h.pdom[u] # None PROVE u \in DOMAIN g.args /\ h.pdom[u] = g.pdom[u]
      OBVIOUS
    <3>1. u \in DOMAIN x.args /\ h.pdom[u] = x.pdom[u]
      BY <1>13 DEF IsGrown, PostsKept
    <3> QED BY <1>12, <3>1 DEF IsGrown, PostsKept
  <2> QED BY <1>8, <1>14, <2>1, <2>2 DEF Grown
<1>0. IsGraph(h)
  BY <1>13 DEF Sound
<1>15. Joint(h, Q, e) /\ Taken(h, Q, e, r.op - 1, k + 2)
  <2>1. n \in DOMAIN h.args \ Q /\ e \in Range(h.args[n])
    BY <1>8, <1>14
  <2>2. r.op - 1 < OpOf(n) /\ OpOf(n) < k + 2
    BY <1>8
  <2> QED BY <1>8, <2>1, <2>2 DEF Joint, Taken
<1>16. NodeHung(h, Q, n)
  <2>1. Range(h.args[n]) \subseteq Live(h) \cup {None}
    BY <1>5, <1>8, <1>14
  <2>2. h.dom[n] \in Live(h) /\ Joint(h, Q, h.dom[n])
    BY <1>8, <1>9, <1>14, <1>15
  <2> QED BY <1>8, <2>1, <2>2 DEF NodeHung
<1>17. Range(h.args[n]) \subseteq AtHand(s) \cup {None}
  BY <1>4, <1>6, <1>14
<1>18. d \in Live(h) /\ OpOf(d) >= r.op /\ d \in AtHand(s)
  BY <1>4, <1>6, <1>7, <1>8, <1>9, <1>14
<1>19. Grown(s.g, h, n) /\ Taken(h, Q, r.entry, r.op - 1, k + 2)
  BY <1>4, <1>10, <1>15
<1>20. k \in Nat /\ BuildState(b, kept, s, k) /\ Struct(b, s, k)
  OBVIOUS
<1>21. Struct(b, t, k + 1)
  BY ONLY <1>0, <1>1, <1>3, <1>16, <1>17, <1>18, <1>19, <1>20, GrownPopped
<1> QED BY <1>21 DEF t

\* A loop whose body has no Def: its Phi is erased, and the node before the loop
\* takes its place.
LoopGone(g, P, n, e, p, k, h, Q) ==
  /\ Sound(g, P) /\ Sound(h, Q) /\ Q = P \ {n} /\ p \in Nat /\ k \in Nat /\ p <= k
  /\ n \in DOMAIN g.args /\ n \in P /\ OpOf(n) = p /\ n # None /\ e \in Live(g) /\ OpOf(e) < p /\ e # None
  /\ DOMAIN h.args = DOMAIN g.args /\ Live(h) = Live(g) \ {n}
  /\ \A u \in DOMAIN g.args : u # n => h.args[u] = Renamed(g.args, n, e)[u]
  /\ h.dom = g.dom /\ h.pdom = g.pdom
  /\ \A u \in DOMAIN g.args : OpOf(u) < p => n \notin Range(g.args[u])
  /\ \A u \in Live(g) : IsCore(u) /\ u # n => OpOf(u) < p

LEMMA GoneArguments ==
  ASSUME NEW g, NEW P, NEW n, NEW e, NEW p, NEW k, NEW h, NEW Q, LoopGone(g, P, n, e, p, k, h, Q), NEW u \in DOMAIN g.args, u # n
  PROVE  /\ DOMAIN h.args[u] = DOMAIN g.args[u]
         /\ \A i \in DOMAIN g.args[u] : h.args[u][i] = IF g.args[u][i] = n THEN e ELSE g.args[u][i]
         /\ OpOf(u) < p => h.args[u] = g.args[u]
<1>1. IsGraph(g) /\ h.args[u] = Renamed(g.args, n, e)[u]
  BY DEF LoopGone, Sound
<1>2. g.args[u] \in Seq(DOMAIN g.args \cup {None})
  BY <1>1, GraphTypes
<1>3. Renamed(g.args, n, e)[u] = [i \in DOMAIN g.args[u] |-> IF g.args[u][i] = n THEN e ELSE g.args[u][i]]
  BY DEF Renamed
<1>4. ASSUME OpOf(u) < p PROVE h.args[u] = g.args[u]
  <2>1. \A i \in DOMAIN g.args[u] : g.args[u][i] # n
    BY <1>4 DEF LoopGone, Range
  <2>2. g.args[u] = [i \in DOMAIN g.args[u] |-> g.args[u][i]]
    BY <1>2
  <2> QED BY <1>1, <1>3, <2>1, <2>2
<1> QED BY <1>1, <1>3, <1>4

LEMMA GoneHung ==
  ASSUME NEW g, NEW P, NEW n, NEW e, NEW p, NEW k, NEW h, NEW Q, LoopGone(g, P, n, e, p, k, h, Q), Hung(g, P)
  PROVE  Hung(h, Q)
<1>1. /\ Sound(g, P) /\ Q = P \ {n} /\ p \in Nat /\ IsGraph(g)
      /\ n \in DOMAIN g.args /\ n \in P /\ OpOf(n) = p /\ n # None /\ e \in Live(g) /\ OpOf(e) < p
      /\ DOMAIN h.args = DOMAIN g.args /\ Live(h) = Live(g) \ {n}
      /\ h.dom = g.dom /\ h.pdom = g.pdom
      /\ \A u \in DOMAIN g.args : OpOf(u) < p => n \notin Range(g.args[u])
      /\ \A u \in Live(g) : IsCore(u) /\ u # n => OpOf(u) < p
  BY DEF LoopGone, Sound
<1>2. Live(g) \subseteq DOMAIN g.args /\ DOMAIN g.args \subseteq Nodes
  BY <1>1, GraphTypes
<1>3. e # n
  BY <1>1
<1>4. ASSUME NEW f, f # n, Joint(g, P, f) PROVE Joint(h, Q, f)
  <2>1. PICK u, v \in DOMAIN g.args \ P : /\ IsCore(u) /\ IsCore(v) /\ (u # v \/ Type(u) = "Phi")
                                          /\ f \in Range(g.args[u]) /\ f \in Range(g.args[v])
    BY <1>4 DEF Joint
  <2>2. \A w \in DOMAIN g.args : w # n /\ f \in Range(g.args[w]) => f \in Range(h.args[w])
    <3> SUFFICES ASSUME NEW w \in DOMAIN g.args, w # n, f \in Range(g.args[w]) PROVE f \in Range(h.args[w])
      OBVIOUS
    <3>1. PICK i \in DOMAIN g.args[w] : g.args[w][i] = f
      BY DEF Range
    <3>2. i \in DOMAIN h.args[w] /\ h.args[w][i] = f
      BY <1>4, <3>1, GoneArguments
    <3> QED BY <3>2 DEF Range
  <2>3. u # n /\ v # n /\ u \in DOMAIN h.args \ Q /\ v \in DOMAIN h.args \ Q
    BY <1>1, <2>1
  <2> QED BY <2>1, <2>2, <2>3 DEF Joint
<1>5. ASSUME NEW u \in Live(h) PROVE NodeHung(h, Q, u)
  <2>1. u \in Live(g) /\ u # n /\ u \in DOMAIN g.args /\ NodeHung(g, P, u)
    BY <1>1, <1>2 DEF Hung
  <2>2. Range(h.args[u]) \subseteq Live(h) \cup {None}
    <3> SUFFICES ASSUME NEW a \in Range(h.args[u]) PROVE a \in Live(h) \cup {None}
      OBVIOUS
    <3>1. PICK i \in DOMAIN h.args[u] : h.args[u][i] = a
      BY DEF Range
    <3>2. i \in DOMAIN g.args[u] /\ a = IF g.args[u][i] = n THEN e ELSE g.args[u][i]
      BY <2>1, <3>1, GoneArguments
    <3>3. g.args[u][i] \in Live(g) \cup {None}
      BY <2>1, <3>2 DEF NodeHung, Range
    <3> QED BY <1>1, <1>3, <3>2, <3>3
  <2>3. Type(u) = "Def" => h.dom[u] = h.args[u][1]
    <3> SUFFICES ASSUME Type(u) = "Def" PROVE h.dom[u] = h.args[u][1]
      OBVIOUS
    <3>1. IsCore(u)
      BY DEF IsCore, Core
    <3>2. h.args[u] = g.args[u]
      BY <1>1, <2>1, <3>1, GoneArguments
    <3> QED BY <1>1, <2>1, <3>2 DEF NodeHung
  <2>4. Type(u) = "Phi" /\ u \notin Q => h.dom[u] \in Live(h) /\ Joint(h, Q, h.dom[u])
    <3> SUFFICES ASSUME Type(u) = "Phi", u \notin Q PROVE h.dom[u] \in Live(h) /\ Joint(h, Q, h.dom[u])
      OBVIOUS
    <3>1. IsCore(u) /\ u \notin P
      BY <1>1, <2>1 DEF IsCore, Core
    <3>2. g.dom[u] \in Live(g) /\ Joint(g, P, g.dom[u])
      BY <2>1, <3>1 DEF NodeHung
    <3>3. OpOf(u) < p
      BY <1>1, <2>1, <3>1
    <3>4. g.dom[u] # n
      <4>1. g.dom[u] \in DOMAIN g.args /\ None \notin DOMAIN g.args
        BY <1>1, <1>2, <3>2, GraphTypes
      <4>2. Before(g.dom[u], u)
        BY <1>1, <2>1, <4>1 DEF Sound, NodeFine
      <4>3. OpOf(g.dom[u]) < OpOf(u) /\ OpOf(u) \in Nat /\ OpOf(g.dom[u]) \in Nat
        BY <1>2, <2>1, <3>1, <4>1, <4>2 DEF Before, Nodes, OpOf
      <4> QED BY <1>1, <3>3, <4>3
    <3> QED BY <1>1, <1>4, <3>2, <3>4
  <2> QED BY <2>2, <2>3, <2>4 DEF NodeHung
<1>6. \A u \in DOMAIN h.args : h.pdom[u] # None => h.dom[h.pdom[u]] = u
  BY <1>1 DEF Hung
<1> QED BY <1>5, <1>6 DEF Hung

LEMMA GoneSteady ==
  ASSUME NEW g, NEW P, NEW n, NEW e, NEW p, NEW k, NEW h, NEW Q, LoopGone(g, P, n, e, p, k, h, Q), NEW A, e \in A
  PROVE  Steady(g, P, h, Q, p) /\ NewArguments(g, h, p, A) /\ Ahead(h, Q, e, p, e, k + 2)
<1>1. /\ Sound(g, P) /\ Sound(h, Q) /\ Q = P \ {n} /\ p \in Nat /\ k \in Nat /\ p <= k /\ IsGraph(g)
      /\ n \in DOMAIN g.args /\ OpOf(n) = p /\ n # None /\ e \in Live(g) /\ OpOf(e) < p
      /\ DOMAIN h.args = DOMAIN g.args /\ Live(h) = Live(g) \ {n}
      /\ h.dom = g.dom
      /\ \A u \in DOMAIN g.args : OpOf(u) < p => n \notin Range(g.args[u])
      /\ \A u \in Live(g) : IsCore(u) /\ u # n => OpOf(u) < p
  BY DEF LoopGone, Sound
<1>2. Live(g) \subseteq DOMAIN g.args /\ DOMAIN g.args \subseteq Nodes /\ \A u \in DOMAIN g.args : OpOf(u) \in Nat
  <2>1. Live(g) \subseteq DOMAIN g.args /\ DOMAIN g.args \subseteq Nodes
    BY <1>1, GraphTypes
  <2> QED BY <2>1 DEF Nodes, OpOf
<1>3. Steady(g, P, h, Q, p)
  <2>1. \A u \in DOMAIN g.args : OpOf(u) < p => h.args[u] = g.args[u]
    BY <1>1, GoneArguments
  <2>2. \A u \in DOMAIN g.args : OpOf(u) < p => u # n
    BY <1>1
  <2> QED BY <1>1, <1>2, <2>1, <2>2 DEF Steady
<1>4. Ahead(h, Q, e, p, e, k + 2)
  <2>1. e \in Live(h)
    BY <1>1
  <2>2. \A u \in Live(h) : IsCore(u) => ~(p <= OpOf(u))
    BY <1>1, <1>2
  <2> QED BY <1>1, <2>1, <2>2 DEF Ahead
<1>5. ASSUME NEW x \in DOMAIN h.args, NEW a \in Range(h.args[x]) \ {None}
      PROVE  (x \in DOMAIN g.args /\ a \in Range(g.args[x])) \/ (OpOf(x) >= p /\ a \in A)
  <2>1. PICK i \in DOMAIN h.args[x] : h.args[x][i] = a
    BY DEF Range
  <2>2. x # n
    <3> SUFFICES ASSUME x = n PROVE FALSE
      OBVIOUS
    <3>1. NodeFine(h, n) /\ n \notin Live(h)
      BY <1>1 DEF Sound
    <3>2. h.args[n][i] = None
      BY <2>1, <3>1 DEF NodeFine
    <3> QED BY <2>1, <3>2
  <2>3. x \in DOMAIN g.args /\ i \in DOMAIN g.args[x] /\ a = IF g.args[x][i] = n THEN e ELSE g.args[x][i]
    BY <1>1, <2>1, <2>2, GoneArguments
  <2>4. CASE g.args[x][i] = n
    <3>1. n \in Range(g.args[x])
      BY <2>3, <2>4 DEF Range
    <3>2. ~(OpOf(x) < p)
      BY <1>1, <2>3, <3>1
    <3> QED BY <1>1, <1>2, <2>3, <2>4, <3>2
  <2>5. CASE g.args[x][i] # n
    BY <2>3, <2>5 DEF Range
  <2> QED BY <2>4, <2>5
<1> QED BY <1>3, <1>4, <1>5 DEF NewArguments

LEMMA ForErasedStruct ==
  ASSUME NEW b, NEW kept, NEW s, NEW k \in Nat, BuildState(b, kept, s, k), Struct(b, s, k), b[k + 1].kind = "end",
         Around(b, k + 1) # << >>, b[Last(s.open).op].kind = "for", s.cur = Last(s.open).phi
  PROVE  Struct(b, LeaveFor(s), k + 1)
<1> DEFINE r == Last(s.open)
           n == Phi(r.op)
           P == Pending(s.open)
           Q == Pending(Front(s.open))
           g == s.g
           e == r.entry
           p == r.op
           x == ReplaceUses(g, n, e)
           h == EraseNode(x, n)
           t == LeaveFor(s)
<1>3. Top(b, s, k, r, n, P, Q)
  BY TopFacts
<1>33. r.phi = n
  BY <1>3 DEF Top
<1>1. t = [g |-> h, cur |-> e, open |-> Front(s.open)]
  BY <1>33 DEF LeaveFor, Innermost, Closed
<1>4. /\ x = ReplaceUses(g, n, e) /\ h = EraseNode(x, n)
      /\ e = r.entry /\ g = s.g /\ p = r.op /\ s.cur = n
      /\ b[p].kind = "for"
  BY <1>33
<1>5. /\ Sound(g, P) /\ IsGraph(g) /\ DOMAIN g.args \subseteq Nodes /\ Live(g) \subseteq DOMAIN g.args /\ Hung(g, P)
      /\ Accesses(g, b, kept, k) /\ \A u \in DOMAIN g.args : OpOf(u) \in Nat /\ OpOf(u) <= k
  BY StructFacts
<1>6. AtHand(s) = {r.entry, r.result, s.cur} \ {None}
  BY DEF AtHand
<1> HIDE DEF r, n, P, Q, g, e, p, x, h, t
<1>8. /\ n \in Nodes /\ n # Root /\ Type(n) = "Phi" /\ IsCore(n) /\ OpOf(n) = p /\ n # None
      /\ p \in 1 .. k /\ e \in Live(g) /\ e \in DOMAIN g.args /\ IsCore(e) /\ e # None /\ OpOf(e) < p
      /\ Shape(b, g, P, r, n, k + 1) /\ Apart(b, g, r) /\ Q = P \ {n} /\ n = Phi(p)
      /\ n \in DOMAIN g.args /\ n \in Live(g) /\ n \in P /\ s.open # << >> /\ r = Last(s.open) /\ P = Pending(s.open)
      /\ Q = Pending(Front(s.open))
  BY <1>3, <1>4 DEF Top
<1>9. Sound(x, P) /\ x.args = Renamed(g.args, n, e) /\ SameNodes(g, x)
  <2>1. Before(e, n)
    BY <1>8 DEF Before
  <2> QED BY <1>4, <1>5, <1>8, <2>1, UsesReplaced
<1>10. DOMAIN x.args = DOMAIN g.args /\ x.dom = g.dom /\ x.pdom = g.pdom /\ Live(x) = Live(g)
  BY <1>9 DEF Renamed, SameNodes, Live
<1>11. /\ Sound(h, Q) /\ DOMAIN h.args = DOMAIN g.args
       /\ \A u \in DOMAIN g.args : u # n => h.args[u] = Renamed(g.args, n, e)[u]
       /\ h.dom = g.dom /\ h.pdom = g.pdom /\ Live(h) = Live(g) \ {n}
  <2>1. /\ Sound(h, P \ {n}) /\ DOMAIN h.args = DOMAIN x.args
        /\ \A u \in DOMAIN x.args : u # n => h.args[u] = x.args[u]
        /\ h.dom = x.dom /\ h.pdom = x.pdom /\ Live(h) = Live(x) \ {n}
    <3>1. n \in DOMAIN x.args /\ n # Root /\ Type(n) # "Def" /\ Sound(x, P) /\ h = EraseNode(x, n)
      BY <1>4, <1>8, <1>9, <1>10
    <3> QED BY ONLY <3>1, NodeErased
  <2> QED BY <1>8, <1>9, <1>10, <2>1
<1>12. \A u \in DOMAIN g.args : OpOf(u) < p => n \notin Range(g.args[u])
  BY <1>4, <1>8 DEF Apart
<1>13. ASSUME NEW u \in Live(g), IsCore(u), u # n PROVE OpOf(u) < p
  <2>1. u \in DOMAIN g.args /\ OpOf(u) \in Nat /\ OpOf(u) <= k
    BY <1>5
  <2>2. ~(p < OpOf(u) /\ OpOf(u) < k + 1)
    BY <1>4, <1>8, <1>13 DEF Shape
  <2>3. OpOf(u) # p
    <3> SUFFICES ASSUME OpOf(u) = p PROVE FALSE
      OBVIOUS
    <3>1. u # Root
      <4>1. OpOf(Root) = 0
        BY DEF Root, OpOf
      <4> QED BY <1>8, <4>1
    <3>2. Access(b, kept, u, k)
      BY <1>5, <2>1, <3>1 DEF Accesses
    <3>3. Type(u) = "Def" => Writes(b[p])
      BY <3>2 DEF Access
    <3>4. Type(u) = "Phi"
      BY <1>4, <1>13, <3>2, <3>3 DEF Access, Writes, IsCore, Core
    <3>5. u = Phi(p)
      <4>1. u \in Nodes
        BY <1>5, <2>1
      <4>2. u = <<Type(u), OpOf(u)>>
        BY <4>1 DEF Nodes, Type, OpOf
      <4> QED BY <3>4, <4>2 DEF Phi
    <3> QED BY <1>8, <1>13, <3>5
  <2> QED BY <1>8, <2>1, <2>2, <2>3
<1>14. LoopGone(g, P, n, e, p, k, h, Q)
  BY <1>5, <1>8, <1>11, <1>12, <1>13 DEF LoopGone
<1>15. Hung(h, Q)
  BY <1>5, <1>14, GoneHung
<1>16. e \in AtHand(s)
  BY <1>4, <1>6, <1>8
<1>17. Steady(g, P, h, Q, p) /\ NewArguments(g, h, p, AtHand(s)) /\ Ahead(h, Q, e, p, e, k + 2)
  BY <1>14, <1>16, GoneSteady
<1>18. Steady(s.g, P, h, Q, r.op) /\ NewArguments(s.g, h, r.op, AtHand(s)) /\ Ahead(h, Q, r.entry, r.op, e, k + 2) /\ IsGraph(h)
  BY <1>4, <1>11, <1>17 DEF Sound
<1>20. k \in Nat /\ BuildState(b, kept, s, k) /\ Struct(b, s, k)
  OBVIOUS
<1>21. Struct(b, t, k + 1)
  BY ONLY <1>1, <1>8, <1>15, <1>16, <1>18, <1>20, LevelsPopped
<1> QED BY <1>21 DEF t

\* What the write of an operation has done, or leaves to be done.
Further(b, kept, s, k, P, h, d) ==
  /\ Sound(h, P) /\ Hung(h, P) /\ Steady(s.g, P, h, P, k + 1) /\ Ahead(h, P, s.cur, k + 1, d, k + 2)
  /\ NewArguments(s.g, h, k + 1, {s.cur, Def(k + 1)})
  /\ d \in {s.cur, Def(k + 1)} /\ d \in DOMAIN h.args /\ d # None /\ IsCore(d) /\ OpOf(d) <= k + 1

LEMMA WriteFurther ==
  ASSUME NEW b, NEW kept, NEW s, NEW k \in Nat, BuildState(b, kept, s, k), Struct(b, s, k),
         NEW P, P = Pending(s.open), NEW h, h = Dominates(CreateNode(s.g, Def(k + 1), <<s.cur>>), s.cur, Def(k + 1)),
         Sound(h, P)
  PROVE  Further(b, kept, s, k, P, h, Def(k + 1))
<1> DEFINE n == Def(k + 1)
           g == s.g
           c == s.cur
           as == <<c>>
           x == CreateNode(g, n, as)
<1>1. x = CreateNode(g, n, as) /\ h = Dominates(x, c, n) /\ as[1] = c /\ DOMAIN as = {1} /\ Len(as) = 1 /\ Range(as) = {c}
      /\ g = s.g /\ c = s.cur /\ n = Def(k + 1) /\ as = <<c>>
  BY DEF Range
<1>2. /\ Sound(g, P) /\ IsGraph(g) /\ DOMAIN g.args \subseteq Nodes /\ Live(g) \subseteq DOMAIN g.args /\ Hung(g, P)
      /\ c \in Live(g) /\ c \in DOMAIN g.args /\ c # None /\ IsCore(c) /\ OpOf(c) \in Nat /\ OpOf(c) <= k
      /\ \A u \in DOMAIN g.args : OpOf(u) \in Nat /\ OpOf(u) <= k
  BY StructFacts
<1>3. n \in Nodes /\ n # Root /\ Type(n) = "Def" /\ OpOf(n) = k + 1 /\ Arity(n) = 1 /\ IsCore(n)
  BY NewNodes
<1>33. n # None
  BY <1>3, NoneAssumption DEF Nodes
<1>4. n \notin P
  <2>1. \A u \in P : Type(u) = "Phi"
    BY DEF Pending, Phi, Type
  <2> QED BY <1>3, <2>1
<1>5. \A u \in DOMAIN g.args : u # n
  BY <1>2, <1>3
<1> HIDE DEF n, g, c, as, x
<1>6. CanCreate(g, n, as)
  <2>1. as \in Seq(DOMAIN g.args \cup {None})
    BY <1>1, <1>2
  <2>2. MayUse(n, c)
    BY <1>2, <1>3 DEF MayUse, Before
  <2>3. \A i \in DOMAIN as : MayUse(n, as[i])
    BY <1>1, <2>2
  <2> QED BY <1>1, <1>3, <1>5, <2>1, <2>3 DEF CanCreate
<1>7. IsGrown(g, x, n, as) /\ IsGraph(x)
  BY <1>1, <1>2, <1>6, CreateGrows
<1>8. Grown(g, h, n) /\ h.args = x.args /\ Live(h) = Live(x) /\ h.dom[n] = c /\ h.args[n] = as
  <2>1. Connected(g, x, n, as, c, h)
    BY <1>1, <1>2, <1>5, <1>7 DEF Connected
  <2>2. IsConnected(g, x, n, as, c, h)
    BY ONLY <2>1, ConnectGrows
  <2> QED BY <2>2 DEF IsConnected
<1>9. Live(h) = Live(g) \cup {n} /\ DOMAIN h.args = DOMAIN g.args \cup {n}
  BY <1>7, <1>8 DEF IsGrown
<1>10. NodeHung(h, P, n)
  <2>1. Range(h.args[n]) \subseteq Live(h) \cup {None} /\ h.dom[n] = h.args[n][1]
    BY <1>1, <1>2, <1>8, <1>9
  <2> QED BY <1>3, <2>1 DEF NodeHung
<1>11. Hung(h, P)
  <2>1. P \ {n} \subseteq P /\ P \subseteq P \cup {n} /\ n \notin DOMAIN g.args
    BY <1>5
  <2> QED BY <1>2, <1>8, <1>10, <2>1, HungGrown
<1>12. Steady(g, P, h, P, k + 1)
  <2>1. P \subseteq P \cup {n} /\ k + 1 <= OpOf(n) /\ OpOf(n) \in Nat /\ k + 1 \in Nat
    BY <1>3
  <2> QED BY ONLY <1>2, <1>8, <2>1, GrownSteady
<1>13. NewArguments(g, h, k + 1, {c, n})
  <2>1. Range(h.args[n]) \subseteq {c, n} \cup {None} /\ OpOf(n) \in Nat
    BY <1>1, <1>3, <1>8
  <2>2. NewArguments(g, h, OpOf(n), {c, n})
    BY ONLY <1>8, <2>1, GrownArguments
  <2> QED BY <1>3, <2>2
<1>14. Ahead(h, P, c, k + 1, n, k + 2)
  <2>1. n \in DOMAIN h.args /\ (k + 1) - 1 < OpOf(n) /\ OpOf(n) < k + 2 /\ c \in Range(h.args[n])
    BY <1>1, <1>3, <1>8, <1>9
  <2>2. Taken(h, P, c, (k + 1) - 1, k + 2)
    BY <1>3, <1>4, <2>1 DEF Taken
  <2> QED BY <1>3, <1>9, <2>2 DEF Ahead
<1>15. n \in {c, n} /\ n \in DOMAIN h.args /\ OpOf(n) <= k + 1
  BY <1>3, <1>9
<1> QED BY <1>1, <1>3, <1>33, <1>9, <1>11, <1>12, <1>13, <1>14, <1>15 DEF Further

LEMMA NothingFurther ==
  ASSUME NEW b, NEW kept, NEW s, NEW k \in Nat, BuildState(b, kept, s, k), Struct(b, s, k), NEW P, P = Pending(s.open)
  PROVE  Further(b, kept, s, k, P, s.g, s.cur)
<1> DEFINE g == s.g
           c == s.cur
<1>1. /\ Sound(g, P) /\ IsGraph(g) /\ DOMAIN g.args \subseteq Nodes /\ Live(g) \subseteq DOMAIN g.args /\ Hung(g, P)
      /\ c \in Live(g) /\ c \in DOMAIN g.args /\ c # None /\ IsCore(c) /\ OpOf(c) \in Nat /\ OpOf(c) <= k
      /\ \A u \in DOMAIN g.args : OpOf(u) \in Nat /\ OpOf(u) <= k
  BY StructFacts
<1>2. g = s.g /\ c = s.cur
  OBVIOUS
<1> HIDE DEF g, c
<1>3. Steady(g, P, g, P, k + 1) /\ \A lo, A : NewArguments(g, g, lo, A)
  <2>1. P \subseteq P \cup {u \in Nodes : ~(OpOf(u) < k + 1)}
    OBVIOUS
  <2> QED BY ONLY <2>1, SteadyItself
<1>4. Ahead(g, P, c, k + 1, c, k + 2)
  <2>1. \A u \in Live(g) : ~(k + 1 <= OpOf(u))
    BY <1>1
  <2> QED BY <1>1, <2>1 DEF Ahead
<1> QED BY <1>1, <1>2, <1>3, <1>4 DEF Further

LEMMA ReadFurther ==
  ASSUME NEW b, NEW kept, NEW s, NEW k \in Nat, BuildState(b, kept, s, k), Struct(b, s, k), NEW P, P = Pending(s.open),
         NEW h, NEW d, Further(b, kept, s, k, P, h, d), Use(k + 1) \notin DOMAIN h.args,
         NEW l, l = CreateNode(h, Use(k + 1), <<d>>), Sound(l, P)
  PROVE  Further(b, kept, s, k, P, l, d)
<1> DEFINE n == Use(k + 1)
           g == s.g
           c == s.cur
           as == <<d>>
           A == {c, Def(k + 1)}
<1>1. l = CreateNode(h, n, as) /\ as[1] = d /\ DOMAIN as = {1} /\ Len(as) = 1 /\ Range(as) = {d}
      /\ g = s.g /\ c = s.cur /\ n = Use(k + 1) /\ as = <<d>> /\ A = {c, Def(k + 1)} /\ n \notin DOMAIN h.args
  BY DEF Range
<1>2. /\ Sound(h, P) /\ Hung(h, P) /\ Steady(g, P, h, P, k + 1) /\ Ahead(h, P, c, k + 1, d, k + 2)
      /\ NewArguments(g, h, k + 1, A) /\ d \in A /\ d \in DOMAIN h.args /\ d # None /\ IsCore(d) /\ OpOf(d) <= k + 1
  BY DEF Further
<1>3. n \in Nodes /\ n # Root /\ Type(n) = "Use" /\ OpOf(n) = k + 1 /\ Arity(n) = 1 /\ ~IsCore(n)
  BY NewNodes
<1>4. IsGraph(h) /\ d \in Live(h) /\ \A u \in DOMAIN g.args : OpOf(u) \in Nat /\ OpOf(u) <= k
  BY <1>2, StructFacts DEF Sound, Ahead
<1> HIDE DEF n, g, c, as, A
<1>6. CanCreate(h, n, as)
  <2>1. as \in Seq(DOMAIN h.args \cup {None})
    BY <1>1, <1>2
  <2>2. MayUse(n, d)
    BY <1>2, <1>3 DEF MayUse, Before
  <2>3. \A i \in DOMAIN as : MayUse(n, as[i])
    BY <1>1, <2>2
  <2> QED BY <1>1, <1>3, <2>1, <2>3 DEF CanCreate
<1>7. IsGrown(h, l, n, as)
  BY <1>1, <1>2, <1>6, CreateGrows
<1>8. Grown(h, l, n)
  BY <1>4, <1>7, GrownIs
<1>9. Live(l) = Live(h) \cup {n} /\ DOMAIN l.args = DOMAIN h.args \cup {n} /\ l.args[n] = as
  BY <1>7 DEF IsGrown
<1>10. NodeHung(l, P, n)
  BY <1>1, <1>3, <1>4, <1>9 DEF NodeHung
<1>11. Hung(l, P)
  <2>1. P \ {n} \subseteq P /\ P \subseteq P \cup {n} /\ n \notin DOMAIN h.args
    BY <1>1
  <2> QED BY <1>2, <1>4, <1>8, <1>10, <2>1, HungGrown
<1>12. Steady(g, P, l, P, k + 1)
  <2>1. P \subseteq P \cup {n} /\ k + 1 <= OpOf(n) /\ OpOf(n) \in Nat /\ k + 1 \in Nat
    BY <1>3
  <2>2. Steady(h, P, l, P, k + 1)
    BY ONLY <1>4, <1>8, <2>1, GrownSteady
  <2> QED BY <1>2, <2>2 DEF Steady
<1>13. NewArguments(g, l, k + 1, A)
  <2> SUFFICES ASSUME NEW x \in DOMAIN l.args, NEW a \in Range(l.args[x]) \ {None}
               PROVE  (x \in DOMAIN g.args /\ a \in Range(g.args[x])) \/ (OpOf(x) >= k + 1 /\ a \in A)
    BY DEF NewArguments
  <2>1. CASE x = n
    BY <1>1, <1>2, <1>3, <1>9, <2>1
  <2>2. CASE x # n
    <3>1. x \in DOMAIN h.args /\ l.args[x] = h.args[x]
      BY <1>7, <1>9, <2>2 DEF IsGrown
    <3> QED BY <1>2, <3>1 DEF NewArguments
  <2> QED BY <2>1, <2>2
<1>14. Ahead(l, P, c, k + 1, d, k + 2)
  <2>1. CASE d = c /\ \A u \in Live(h) : IsCore(u) => ~(k + 1 <= OpOf(u) /\ OpOf(u) < k + 2)
    BY <1>3, <1>4, <1>9, <2>1 DEF Ahead
  <2>2. CASE OpOf(d) >= k + 1 /\ Taken(h, P, c, (k + 1) - 1, k + 2)
    <3>1. Taken(l, P, c, (k + 1) - 1, k + 2)
      BY <1>1, <1>7, <2>2 DEF Taken, IsGrown
    <3> QED BY <1>4, <1>9, <2>2, <3>1 DEF Ahead
  <2> QED BY <1>2, <2>1, <2>2 DEF Ahead
<1>15. d \in DOMAIN l.args
  BY <1>2, <1>9
<1> QED BY <1>1, <1>2, <1>11, <1>12, <1>13, <1>14, <1>15 DEF Further

LEMMA FurtherKept ==
  ASSUME NEW b, NEW kept, NEW s, NEW k \in Nat, BuildState(b, kept, s, k), Struct(b, s, k), NEW P, P = Pending(s.open),
         NEW h, NEW d, Further(b, kept, s, k, P, h, d), NEW t, t = [g |-> h, cur |-> d, open |-> s.open]
  PROVE  Struct(b, t, k + 1)
<1> DEFINE A == {s.cur, Def(k + 1)}
<1>1. /\ IsGraph(h) /\ Hung(h, P) /\ Steady(s.g, P, h, P, k + 1) /\ Ahead(h, P, s.cur, k + 1, d, k + 2)
      /\ NewArguments(s.g, h, k + 1, A)
  BY DEF Further, Sound
<1>2. d = s.cur \/ OpOf(d) = k + 1
  BY NewNodes DEF Further
<1>3. \A a \in A : a = s.cur \/ OpOf(a) = k + 1
  BY NewNodes
<1>4. k \in Nat /\ BuildState(b, kept, s, k) /\ Struct(b, s, k) /\ P = Pending(s.open) /\ t = [g |-> h, cur |-> d, open |-> s.open]
  OBVIOUS
<1> HIDE DEF A
<1> QED BY ONLY <1>1, <1>2, <1>3, <1>4, LevelsKept

LEMMA SkippedStruct ==
  ASSUME NEW b, NEW kept, NEW s, NEW k \in Nat, BuildState(b, kept, s, k), Struct(b, s, k)
  PROVE  Struct(b, s, k + 1)
<1> DEFINE P == Pending(s.open)
<1>1. Further(b, kept, s, k, P, s.g, s.cur)
  BY NothingFurther
<1>2. s = [g |-> s.g, cur |-> s.cur, open |-> s.open]
  BY StateFacts
<1> QED BY <1>1, <1>2, FurtherKept

LEMMA AccessStruct ==
  ASSUME NEW b, NEW kept, NEW s, NEW k \in Nat, BuildState(b, kept, s, k), Struct(b, s, k),
         b[k + 1].kind \notin Structural, k + 1 \in kept
  PROVE  Struct(b, AddAccess(s, k + 1, b[k + 1]), k + 1)
<1> DEFINE P == Pending(s.open)
           g == s.g
           c == s.cur
           open == s.open
           w == IF ~Writes(b[k + 1]) THEN s
                ELSE [s EXCEPT !.g = Dominates(CreateNode(s.g, Def(k + 1), <<s.cur>>), s.cur, Def(k + 1)),
                               !.cur = Def(k + 1)]
           t == AddAccess(s, k + 1, b[k + 1])
<1>0. BuildState(b, kept, s, k) /\ Struct(b, s, k) /\ k \in Nat /\ P = Pending(s.open) /\ open = s.open /\ g = s.g /\ c = s.cur
  OBVIOUS
<1>1. s = [g |-> g, cur |-> c, open |-> open] /\ GraphAt(b, kept, g, P, c, k)
  BY StateFacts
<1>2. t = IF ~Reads(b[k + 1]) THEN w ELSE [w EXCEPT !.g = CreateNode(w.g, Use(k + 1), <<w.cur>>)]
  BY DEF AddAccess
<1>22. \A u \in DOMAIN g.args : OpOf(u) \in Nat /\ OpOf(u) <= k
  BY StructFacts
<1>23. Type(Use(k + 1)) = "Use" /\ OpOf(Use(k + 1)) = k + 1 /\ Type(Def(k + 1)) = "Def" /\ Use(k + 1) # Def(k + 1)
  BY DEF Use, Def, Type, OpOf
<1>24. BuildState(b, kept, t, k + 1)
  BY AccessIn
<1>3. w = [g |-> w.g, cur |-> w.cur, open |-> open] /\ Further(b, kept, s, k, P, w.g, w.cur) /\ Use(k + 1) \notin DOMAIN w.g.args
  <2>1. CASE ~Writes(b[k + 1])
    <3>1. w = s
      BY <2>1
    <3>2. Further(b, kept, s, k, P, s.g, s.cur)
      BY NothingFurther
    <3>3. Use(k + 1) \notin DOMAIN s.g.args
      BY <1>22, <1>23
    <3> HIDE DEF w, P
    <3> QED BY <1>1, <3>1, <3>2, <3>3
  <2>2. CASE Writes(b[k + 1])
    <3> DEFINE h == Dominates(CreateNode(g, Def(k + 1), <<c>>), c, Def(k + 1))
               d == Def(k + 1)
    <3>1. w = [s EXCEPT !.g = h, !.cur = d]
      BY <2>2
    <3>2. h = Dominates(CreateNode(g, Def(k + 1), <<c>>), c, Def(k + 1)) /\ d = Def(k + 1) /\ k + 1 \in kept
      OBVIOUS
    <3> HIDE DEF h, d, w, g, c, P, open
    <3>3. w = [g |-> h, cur |-> d, open |-> open]
      BY <1>1, <3>1
    <3>4. HasWritten(b, kept, g, P, k, h, Def(k + 1))
      BY ONLY <1>0, <1>1, <2>2, <3>2, WriteDone
    <3>5. Sound(h, P)
      BY <3>4 DEF HasWritten, GraphAt
    <3>6. h = Dominates(CreateNode(s.g, Def(k + 1), <<s.cur>>), s.cur, Def(k + 1))
      BY <1>0, <3>2
    <3>7. Further(b, kept, s, k, P, h, Def(k + 1))
      BY ONLY <1>0, <3>5, <3>6, WriteFurther
    <3>8. Use(k + 1) \notin DOMAIN h.args
      BY <3>4 DEF HasWritten
    <3> QED BY <3>2, <3>3, <3>7, <3>8
  <2> QED BY <2>1, <2>2
<1> HIDE DEF w, t
<1>6. CASE ~Reads(b[k + 1])
  <2> DEFINE h == w.g
             d == w.cur
  <2>1. t = [g |-> h, cur |-> d, open |-> s.open] /\ Further(b, kept, s, k, P, h, d)
    BY <1>2, <1>3, <1>6
  <2> HIDE DEF h, d, P, g, c, open
  <2>2. Struct(b, t, k + 1)
    BY ONLY <1>0, <2>1, FurtherKept
  <2> QED BY <2>2 DEF t
<1>7. CASE Reads(b[k + 1])
  <2> DEFINE v == w.g
             d == w.cur
             l == CreateNode(v, Use(k + 1), <<d>>)
  <2>1. t = [w EXCEPT !.g = l]
    BY <1>2, <1>7
  <2>2. l = CreateNode(v, Use(k + 1), <<d>>) /\ Further(b, kept, s, k, P, v, d) /\ w = [g |-> v, cur |-> d, open |-> open]
        /\ Use(k + 1) \notin DOMAIN v.args
    BY <1>3
  <2> HIDE DEF l, d, v, P, g, c, open
  <2>3. t = [g |-> l, cur |-> d, open |-> s.open]
    BY <1>0, <2>1, <2>2
  <2>4. t.g = l /\ t.open = s.open
    BY <2>3
  <2>5. Sound(l, P)
    <3>1. Sound(t.g, Pending(t.open))
      BY <1>24, StateFacts
    <3> QED BY <1>0, <2>4, <3>1
  <2>6. Further(b, kept, s, k, P, l, d)
    BY ONLY <1>0, <2>2, <2>5, ReadFurther
  <2>7. Struct(b, t, k + 1)
    BY ONLY <1>0, <2>3, <2>6, FurtherKept
  <2> QED BY <2>7 DEF t
<1> QED BY <1>6, <1>7

\* memSSAProcessRegion, one operation later.
LEMMA StepStruct ==
  ASSUME NEW b, NEW kept, NEW s, NEW k \in Nat, BuildState(b, kept, s, k), Struct(b, s, k), Placed(b, k + 1)
  PROVE  Struct(b, ProcessIfThere(b, kept, s, k + 1), k + 1)
<1>1. CASE k + 1 \notin kept
  BY <1>1, SkippedStruct DEF ProcessIfThere
<1>2. CASE k + 1 \in kept
  <2> DEFINE kind == b[k + 1].kind
             op == Last(s.open).op
             opener == IF s.open = << >> THEN "none" ELSE b[Innermost(s).op].kind
             t == Process(s, k + 1, b[k + 1], opener)
  <2>1. ProcessIfThere(b, kept, s, k + 1) = t
    BY <1>2 DEF ProcessIfThere
  <2>22. Around(b, k + 1) # << >> => op = Last(Around(b, k + 1)) /\ s.open # << >>
    BY Inner
  <2>2. CASE kind = "for"
    BY <2>1, <2>2, ForStruct DEF Process
  <2>3. CASE kind = "if"
    BY <2>1, <2>3, IfStruct DEF Process
  <2>4. CASE kind = "while"
    BY <2>1, <2>4, WhileStruct DEF Process
  <2>5. CASE kind = "else"
    <3>1. Around(b, k + 1) # << >> /\ b[op].kind = "if"
      BY <2>5, <2>22 DEF Placed
    <3> QED BY <2>1, <2>5, <3>1, ElseStruct DEF Process
  <2>6. CASE kind = "do"
    <3>1. Around(b, k + 1) # << >> /\ b[op].kind = "while"
      BY <2>6, <2>22 DEF Placed
    <3> QED BY <2>1, <2>6, <3>1, DoStruct DEF Process
  <2>7. CASE kind = "end"
    <3>1. Around(b, k + 1) # << >> /\ b[Last(Around(b, k + 1))].kind \in Openers
          /\ (b[Last(Around(b, k + 1))].kind = "while" => Halfway(b, Last(Around(b, k + 1)), k + 1))
      BY <2>7 DEF Placed
    <3>2. op = Last(Around(b, k + 1)) /\ s.open # << >>
      BY <3>1, <2>22
    <3>3. opener = b[op].kind
      BY <3>2 DEF Innermost
    <3>4. t = CASE opener = "for" -> LeaveFor(s) [] opener = "if" -> LeaveIf(s) [] opener = "while" -> LeaveWhile(s)
      BY <2>7 DEF Process
    <3> HIDE DEF opener, t
    <3>5. CASE b[op].kind = "for"
      <4>1. t = LeaveFor(s)
        BY <3>3, <3>4, <3>5
      <4>2. CASE s.cur = Last(s.open).phi
        BY <2>1, <2>7, <3>1, <3>5, <4>1, <4>2, ForErasedStruct
      <4>3. CASE s.cur # Last(s.open).phi
        BY <2>1, <2>7, <3>1, <3>5, <4>1, <4>3, ForOutStruct
      <4> QED BY <4>2, <4>3
    <3>6. CASE b[op].kind = "if"
      BY <2>1, <2>7, <3>1, <3>3, <3>4, <3>6, IfOutStruct
    <3>7. CASE b[op].kind = "while"
      <4>1. Halfway(b, op, k + 1)
        BY <3>1, <3>2, <3>7
      <4> QED BY <2>1, <2>7, <3>1, <3>3, <3>4, <3>7, <4>1, WhileOutStruct
    <3> QED BY <3>1, <3>2, <3>5, <3>6, <3>7 DEF Openers
  <2>8. CASE kind \notin Structural
    <3>1. t = AddAccess(s, k + 1, b[k + 1])
      BY <2>8 DEF Process, Structural, Openers
    <3> QED BY <1>2, <2>1, <2>8, <3>1, AccessStruct
  <2> QED BY <2>2, <2>3, <2>4, <2>5, <2>6, <2>7, <2>8 DEF Structural, Openers
<1> QED BY <1>1, <1>2

LEMMA StructBegins ==
  ASSUME NEW b
  PROVE  Struct(b, Beginning, 0)
<1> DEFINE s == Beginning
<1>1. s.g = RootOnly /\ s.cur = Root /\ s.open = << >>
  BY DEF Beginning
<1>2. DOMAIN RootOnly.args = {Root} /\ RootOnly.args[Root] = << >> /\ Live(RootOnly) = {Root} /\ RootOnly.pdom[Root] = None
  BY DEF RootOnly, Live, Range
<1>3. Type(Root) = "Root" /\ Range(<< >>) = {}
  BY DEF Root, Type, Range
<1>4. Pending(<< >>) = {} /\ Len(<< >>) = 0
  BY DEF Pending
<1>5. Hung(RootOnly, {})
  BY <1>2, <1>3 DEF Hung, NodeHung
<1> HIDE DEF s
<1>6. Struct(b, s, 0)
  <2>1. \A j : j \notin 1 .. Len(s.open)
    BY <1>1, <1>4
  <2>2. Levels(b, s, 0)
    BY <2>1 DEF Levels
  <2>3. Inside(b, s)
    BY <2>1 DEF Inside
  <2> QED BY <1>1, <1>2, <1>4, <1>5, <2>2, <2>3 DEF Struct
<1> QED BY <1>6 DEF s

LEMMA StructGoesOn ==
  ASSUME NEW b, NEW kept, Buildable(b, kept), NEW k \in 0 .. Len(b)
  PROVE  Struct(b, Stepped(<<"build", b, kept>>, Beginning, k), k)
<1> DEFINE what == <<"build", b, kept>>
           n == Len(b)
           Holds(j) == Struct(b, Stepped(what, Beginning, j), j)
           T == {j \in 0 .. n : ~Holds(j)}
<1>1. n \in Nat
  BY LenProperties DEF Buildable, IsBody
<1>2. \A s, j : StepOf(what, s, j) = ProcessIfThere(b, kept, s, j)
  BY DEF StepOf
<1>3. \A p \in 1 .. n : Placed(b, p)
  BY DEF Buildable, IsBody
<1>4. Stepped(what, Beginning, 0) = Beginning
  BY SteppedStart
<1>44. \A j \in 0 .. n : BuildState(b, kept, Stepped(what, Beginning, j), j)
  BY BuildGoesOn
<1> HIDE DEF n, what
<1>5. Holds(0)
  BY <1>4, StructBegins
<1>6. ASSUME NEW j \in Nat, j + 1 \in 0 .. n, Holds(j) PROVE Holds(j + 1)
  <2> DEFINE s == Stepped(what, Beginning, j)
             t == Stepped(what, Beginning, j + 1)
  <2>1. t = ProcessIfThere(b, kept, s, j + 1)
    BY <1>2, SteppedNext
  <2>2. Placed(b, j + 1) /\ j \in 0 .. n
    BY <1>1, <1>3, <1>6
  <2>3. BuildState(b, kept, s, j) /\ Struct(b, s, j) /\ j \in Nat
    BY <1>6, <1>44, <2>2
  <2> HIDE DEF s, t
  <2>4. Struct(b, ProcessIfThere(b, kept, s, j + 1), j + 1)
    BY ONLY <2>2, <2>3, StepStruct
  <2>5. Struct(b, t, j + 1)
    BY <2>1, <2>4
  <2> QED BY <2>5 DEF t
<1> HIDE DEF Holds
<1>7. T = {}
  <2> SUFFICES ASSUME T # {} PROVE FALSE
    OBVIOUS
  <2>1. T \in SUBSET Nat
    BY <1>1
  <2>2. PICK l \in T : \A m \in T : l <= m
    BY <2>1, LeastExists
  <2>3. l # 0 /\ l \in Nat /\ l \in 0 .. n /\ ~Holds(l)
    BY <1>1, <1>5, <2>2
  <2>4. l - 1 \in Nat /\ l - 1 \in 0 .. n /\ l - 1 \notin T /\ (l - 1) + 1 = l
    BY <1>1, <2>2, <2>3
  <2>5. Holds(l - 1)
    BY <2>4
  <2> QED BY <1>6, <2>3, <2>4, <2>5
<1>8. Holds(k)
  <2>1. k \in 0 .. n
    BY DEF n
  <2> QED BY <1>7, <2>1
<1> QED BY <1>8 DEF Holds, what

\* No node of a finished graph hangs on one that is not in it.
LEMMA LinkedBuilt ==
  ASSUME NEW b, NEW kept, Buildable(b, kept)
  PROVE  Linked(BuildMemorySSA(b, kept), b)
<1> DEFINE n == Len(b)
           s == Stepped(<<"build", b, kept>>, Beginning, n)
           h == BuildMemorySSA(b, kept)
           g == s.g
           c == s.cur
<1>1. n \in Nat /\ IsSeq(b)
  BY LenProperties DEF Buildable, IsBody, IsSeq
<1>2. h = CreateNode(g, Term, <<c>>)
  BY <1>1, BuildFolds
<1>3. BuildState(b, kept, s, n) /\ Struct(b, s, n)
  BY <1>1, BuildGoesOn, StructGoesOn
<1>4. Around(b, n + 1) = << >>
  BY DEF Buildable
<1> HIDE DEF n, s, h
<1>5. GraphAt(b, kept, g, Pending(s.open), c, n) /\ OpenAt(b, g, s.open, n, Around(b, n + 1))
  BY <1>1, <1>3, StateFacts
<1>6. Pending(s.open) = {}
  <2>1. Len(s.open) = 0
    BY <1>4, <1>5 DEF OpenAt
  <2> QED BY <2>1 DEF Pending
<1>7. Sound(g, {}) /\ Accesses(g, b, kept, n) /\ c \in DOMAIN g.args /\ IsCore(c) /\ c # None
  BY <1>1, <1>5, <1>6, CoreNodes DEF GraphAt
<1>77. IsGraph(g) /\ Hung(g, {}) /\ c \in Live(g) /\ Live(g) \subseteq DOMAIN g.args
  BY <1>1, <1>3, <1>6, StructFacts
<1> HIDE DEF g, c
<1>8. Term \in Nodes /\ Term # Root /\ Arity(Term) = 1 /\ ~IsCore(Term) /\ Type(Term) = "Term"
  BY DEF Term, Root, Nodes, NodeTypes, Arity, IsCore, Core, Type
<1>9. Term \notin DOMAIN g.args
  BY <1>7, <1>8 DEF Accesses, Access
<1>99. DOMAIN <<c>> = {1} /\ <<c>>[1] = c /\ Range(<<c>>) = {c}
  BY DEF Range
<1>10. CanCreate(g, Term, <<c>>)
  <2>1. <<c>> \in Seq(DOMAIN g.args \cup {None}) /\ Len(<<c>>) = 1 /\ DOMAIN <<c>> = {1} /\ <<c>>[1] = c
    BY <1>7, OneArgument
  <2>2. MayUse(Term, c)
    BY <1>7, <1>8 DEF MayUse, Before
  <2> QED BY <1>8, <1>9, <2>1, <2>2 DEF CanCreate
<1>11. IsGrown(g, h, Term, <<c>>) /\ IsGraph(h)
  BY <1>2, <1>7, <1>10, CreateGrows
<1>12. Grown(g, h, Term)
  BY <1>11, <1>77, GrownIs
<1>13. DOMAIN h.args = DOMAIN g.args \cup {Term} /\ h.args[Term] = <<c>> /\ Live(h) = Live(g) \cup {Term}
  BY <1>11 DEF IsGrown
<1>14. NodeHung(h, {}, Term)
  BY <1>8, <1>13, <1>77, <1>99 DEF NodeHung
<1>15. Hung(h, {})
  <2>1. {} \ {Term} \subseteq {} /\ {} \subseteq {} \cup {Term}
    OBVIOUS
  <2> QED BY <1>9, <1>12, <1>14, <1>77, <2>1, HungGrown
<1>16. Sound(h, {})
  <2>1. GraphOf(b, kept, h)
    BY GraphBuilt DEF h
  <2> QED BY <2>1 DEF GraphOf
<1>17. \A m \in Live(h) : m \in DOMAIN h.args /\ NodeFine(h, m) /\ Settled(h, m)
  BY <1>16, GraphTypes DEF Sound
<1>18. RootAlone(h)
  BY <1>7, <1>8, <1>13 DEF RootAlone, Accesses, Access
<1>19. ArgumentsLive(h)
  <2> SUFFICES ASSUME NEW m \in Live(h), NEW a \in Range(h.args[m]) PROVE a \in Live(h)
    BY DEF ArgumentsLive
  <2>1. Range(h.args[m]) \subseteq Live(h) \cup {None}
    BY <1>15 DEF Hung, NodeHung
  <2>2. a # None
    <3>1. PICK i \in DOMAIN h.args[m] : h.args[m][i] = a
      BY DEF Range
    <3>2. m # Root
      BY <1>17, <3>1 DEF NodeFine, Arity
    <3> QED BY <1>17, <3>1, <3>2 DEF Settled
  <2> QED BY <2>1, <2>2
<1>20. DefsLinked(h, b)
  <2> SUFFICES ASSUME NEW d \in Live(h), Type(d) = "Def" PROVE \E I : Between(h, b, d, I)
    BY DEF DefsLinked
  <2>1. h.dom[d] = h.args[d][1]
    BY <1>15 DEF Hung, NodeHung
  <2>2. Between(h, b, d, {})
    BY <2>1 DEF Between
  <2> QED BY <2>2
<1>21. PhisJoined(h)
  <2> SUFFICES ASSUME NEW p \in Live(h), Type(p) = "Phi" PROVE h.dom[p] \in Live(h) /\ Joined(h, h.dom[p])
    BY DEF PhisJoined
  <2>1. h.dom[p] \in Live(h) /\ Joint(h, {}, h.dom[p])
    BY <1>15 DEF Hung, NodeHung
  <2> QED BY <2>1 DEF Joint, Joined
<1>22. PostsAgree(h)
  BY <1>15, <1>17 DEF Hung, PostsAgree
<1> QED BY <1>18, <1>19, <1>20, <1>21, <1>22 DEF Linked, h

(***************************************************************************)
(* No live node hangs on an erased one, while the graph is rewritten.      *)
(***************************************************************************)

LEMMA RootLinked ==
  ASSUME NEW b
  PROVE  Linked(RootOnly, b)
<1>1. DOMAIN RootOnly.args = {Root} /\ RootOnly.args[Root] = << >> /\ Live(RootOnly) = {Root} /\ RootOnly.pdom[Root] = None
  BY DEF RootOnly, Live, Range
<1>2. Type(Root) = "Root" /\ Range(<< >>) = {}
  BY DEF Root, Type, Range
<1> QED BY <1>1, <1>2 DEF Linked, RootAlone, ArgumentsLive, DefsLinked, PhisJoined, PostsAgree

\* getDef goes from a live node to live nodes, past erased ones only that it would
\* have stopped at the Def before.
LEMMA WalkLive ==
  ASSUME NEW g, Sound(g, {}), NEW b, Linked(g, b), NEW op, NEW S, S = Stops(g, b, op),
         NEW w, IsWalk(w, g, S, DOMAIN g.args), NEW start \in Live(g), IsCore(start)
  PROVE  w[start] \in Live(g)
<1> DEFINE D == DOMAIN g.args
           Passed(n) == \E d \in Live(g) : \E I : Type(d) = "Def" /\ Between(g, b, d, I) /\ n \in I /\ d \notin S
           Visits(n) == n \in D /\ IsCore(n) /\ (n \in Live(g) \/ Passed(n))
           T == {OpOf(n) : n \in {x \in D : Visits(x) /\ w[x] \notin Live(g)}}
<1>1. \A n \in D : OpOf(n) \in Nat
  <2>1. D \subseteq Nodes
    BY GraphTypes DEF Sound
  <2> QED BY <2>1 DEF Nodes, OpOf
<1>2. Live(g) \subseteq D /\ None \notin D
  BY GraphTypes DEF Sound
<1>3. \A n \in D : w[n] = IF n \in S THEN n ELSE w[Dominator(g, n)]
  BY DEF IsWalk
<1>4. ArgumentsLive(g) /\ PhisJoined(g) /\ RootAlone(g) /\ DefsLinked(g, b)
  BY DEF Linked
<1>5. ASSUME NEW d \in Live(g), Type(d) = "Def", NEW I, Between(g, b, d, I), d \notin S, NEW n \in I \cup {d}
      PROVE  n \notin S /\ Dominator(g, n) \in D /\ IsCore(Dominator(g, n)) /\ (Dominator(g, n) \in Live(g) \/ Dominator(g, n) \in I)
  <2>1. /\ g.args[d][1] \in Live(g) /\ g.args[d][1] \in Cores(g)
        /\ n \in Cores(g) /\ Type(n) = "Def"
        /\ Dominator(g, n) = g.dom[n] /\ g.dom[n] # None
        /\ g.dom[n] \in I \cup {g.args[d][1]}
    BY <1>4, <1>5, DefDominator
  <2>2. n \notin S
    <3>1. Dominator(g, d) # None
      BY <1>4, <1>5, DefDominator
    <3>2. ~MayAlias(b[OpOf(d)], op)
      BY <1>2, <1>5, <3>1 DEF Stops, Clobbers
    <3>3. n = d \/ Alike(b, n, d)
      BY <1>5 DEF Between
    <3>4. ~MayAlias(b[OpOf(n)], op)
      BY <3>2, <3>3 DEF Alike
    <3> QED BY <2>1, <3>4 DEF Stops, Clobbers
  <2>3. \A m \in I : m \in Cores(g)
    BY <1>4, <1>5, DefDominator
  <2> QED BY <2>1, <2>2, <2>3 DEF Cores
<1> HIDE DEF D
<1>6. ASSUME NEW n \in D, Visits(n), n \notin S
      PROVE  Visits(Dominator(g, n)) /\ OpOf(Dominator(g, n)) < OpOf(n)
  <2>1. Dominator(g, n) # None
    BY <1>6 DEF Stops, D
  <2>2. Dominator(g, n) \in D /\ Before(Dominator(g, n), n)
    BY <1>6, <2>1, DominatorBefore DEF D
  <2>3. OpOf(Dominator(g, n)) < OpOf(n) /\ IsCore(Dominator(g, n))
    BY <1>6, <2>2 DEF Before
  <2>4. CASE n \in Live(g) /\ Type(n) = "Phi"
    BY <1>4, <2>2, <2>3, <2>4, LivePhi
  <2>5. CASE n \in Live(g) /\ Type(n) = "Def"
    <3>1. PICK I : Between(g, b, n, I)
      BY <1>4, <2>5 DEF DefsLinked
    <3>2. Dominator(g, n) \in Live(g) \/ Dominator(g, n) \in I
      BY <1>5, <1>6, <2>5, <3>1
    <3> QED BY <1>6, <2>2, <2>3, <2>5, <3>1, <3>2
  <2>6. CASE n \in Live(g) /\ Type(n) = "Root"
    <3>1. n = Root
      BY <1>4, <1>6, <2>6 DEF RootAlone, D
    <3>2. g.dom[Root] = None
      BY <1>6, <3>1, RootHasNoDominator DEF D
    <3> QED BY <2>1, <3>1, <3>2 DEF Dominator
  <2>7. CASE Passed(n)
    <3>1. PICK d \in Live(g) : \E I : Type(d) = "Def" /\ Between(g, b, d, I) /\ n \in I /\ d \notin S
      BY <2>7
    <3>2. PICK I : Type(d) = "Def" /\ Between(g, b, d, I) /\ n \in I /\ d \notin S
      BY <3>1
    <3>3. Dominator(g, n) \in Live(g) \/ Dominator(g, n) \in I
      BY <1>5, <3>2
    <3> QED BY <2>2, <2>3, <3>2, <3>3
  <2> QED BY <1>6, <2>4, <2>5, <2>6, <2>7 DEF IsCore, Core
<1>7. ASSUME NEW n \in D, Visits(n), w[n] \notin Live(g)
      PROVE  \E m \in D : Visits(m) /\ w[m] \notin Live(g) /\ OpOf(m) < OpOf(n)
  <2>1. n \notin S
    <3> SUFFICES ASSUME n \in S PROVE FALSE
      OBVIOUS
    <3>1. w[n] = n
      BY <1>3, <1>7 DEF D
    <3>2. PICK d \in Live(g) : \E I : Type(d) = "Def" /\ Between(g, b, d, I) /\ n \in I /\ d \notin S
      BY <1>7, <3>1
    <3> QED BY <1>5, <3>2
  <2>2. w[n] = w[Dominator(g, n)]
    BY <1>3, <1>7, <2>1 DEF D
  <2>3. Visits(Dominator(g, n)) /\ OpOf(Dominator(g, n)) < OpOf(n)
    BY <1>6, <1>7, <2>1
  <2> QED BY <1>7, <2>2, <2>3
<1> SUFFICES ASSUME w[start] \notin Live(g) PROVE FALSE
  OBVIOUS
<1>8. start \in D /\ Visits(start)
  BY <1>2 DEF D
<1> HIDE DEF Visits
<1>9. T \in SUBSET Nat /\ T # {}
  BY <1>1, <1>8 DEF D
<1>10. PICK l \in T : \A j \in T : l <= j
  <2> HIDE DEF T
  <2> QED BY <1>9, LeastExists
<1>11. PICK n \in D : Visits(n) /\ w[n] \notin Live(g) /\ l = OpOf(n)
  BY <1>10
<1>12. PICK m \in D : Visits(m) /\ w[m] \notin Live(g) /\ OpOf(m) < OpOf(n)
  BY <1>7, <1>11
<1>13. OpOf(m) \in T
  BY <1>12
<1> QED BY <1>1, <1>10, <1>11, <1>12, <1>13 DEF D

\* Operands are rewritten: nothing is written elsewhere.
LEMMA SubstitutedWrites ==
  ASSUME NEW b, NEW kept, NEW g, GraphOf(b, kept, g), IsSeq(b), NEW p, NEW value
  PROVE  SameWrites(g, b, Substituted(b, p, value))
<1> DEFINE c == Substituted(b, p, value)
<1>1. DOMAIN b = 1 .. Len(b)
  BY LenProperties DEF IsSeq
<1> SUFFICES ASSUME NEW n \in DOMAIN g.args, Type(n) = "Def", NEW op
             PROVE  MayAlias(c[OpOf(n)], op) <=> MayAlias(b[OpOf(n)], op)
  BY DEF SameWrites
<1>2. OpOf(n) \in 1 .. Len(b)
  BY DEF GraphOf
<1> DEFINE i == OpOf(n)
<1>3. c[i] = IF b[i].idx = <<"load", p>> THEN [b[i] EXCEPT !.idx = value] ELSE b[i]
  BY <1>1, <1>2 DEF Substituted
<1> HIDE DEF c, i
<1>4. c[i].kind = b[i].kind /\ c[i].ref = b[i].ref
  BY <1>3
<1>5. MayAlias(c[i], op) <=> MayAlias(b[i], op)
  BY <1>4 DEF MayAlias, IsAccess
<1> QED BY <1>5 DEF i

\* A use is erased: no node has it as an argument.
LEMMA UseErasedLinked ==
  ASSUME NEW b, NEW kept, NEW g, GraphOf(b, kept, g), Linked(g, b), Len(b) \in Nat, NEW c, SameWrites(g, b, c),
         NEW n \in DOMAIN g.args, Type(n) = "Use"
  PROVE  Linked(EraseNode(g, n), c)
<1> DEFINE h == EraseNode(g, n)
<1>1. Sound(g, {}) /\ None \notin DOMAIN g.args /\ Live(g) \subseteq DOMAIN g.args /\ \A x \in DOMAIN g.args : OpOf(x) <= Len(b)
  BY GraphTypes DEF GraphOf, Sound
<1>2. n # Root /\ Type(n) # "Def" /\ ~IsCore(n) /\ (Type(n) = "Def" => g.args[n][1] # None)
  BY DEF Root, Type, IsCore, Core
<1>3. /\ Sound(h, {} \ {n}) /\ DOMAIN h.args = DOMAIN g.args
      /\ \A u \in DOMAIN g.args : u # n => h.args[u] = g.args[u]
      /\ h.dom = g.dom /\ h.pdom = g.pdom
      /\ Live(h) = Live(g) \ {n}
  BY ONLY <1>1, <1>2, n \in DOMAIN g.args, NodeErased
<1>4. {} \ {n} = {}
  OBVIOUS
<1> HIDE DEF h
<1>5. SameCores(g, h)
  <2>1. IsFiniteSet(DOMAIN g.args)
    BY <1>1, FiniteNodes
  <2>2. \A u \in Cores(g) : u \in DOMAIN g.args /\ u # n
    BY <1>2 DEF Cores
  <2> QED BY <1>1, <1>3, <1>4, <2>1, <2>2 DEF SameCores
<1>6. ArgumentsLive(h)
  <2> SUFFICES ASSUME NEW u \in Live(h), NEW a \in Range(h.args[u]) PROVE a \in Live(h)
    BY DEF ArgumentsLive
  <2>1. u \in Live(g) /\ u \in DOMAIN g.args /\ a \in Range(g.args[u])
    BY <1>1, <1>3
  <2>2. a \in Live(g)
    BY <2>1 DEF Linked, ArgumentsLive
  <2>3. a # n
    <3>1. PICK i \in DOMAIN g.args[u] : g.args[u][i] = a
      BY <2>1 DEF Range
    <3>2. MayUse(u, a)
      BY <1>1, <2>1, <3>1 DEF Sound, NodeFine
    <3> QED BY <1>1, <1>2, <2>2, <3>2 DEF MayUse
  <2> QED BY <1>3, <2>2, <2>3
<1>7. \A u \in DOMAIN g.args : IsCore(u) => (u \in Live(h) <=> u \in Live(g))
  BY <1>2, <1>3
<1>8. Linked(h, c)
  BY <1>3, <1>5, <1>6, <1>7, LinkedSame
<1> QED BY <1>8 DEF h

\* loadCSE at one node.
CseLinked(b, D, K, s) == CseState(b, D, K, s) /\ Linked(s.graph, s.body)

LEMMA ReplacedLinked ==
  ASSUME NEW b, NEW D, NEW K, NEW s, CseLinked(b, D, K, s), NEW old \in Loads(b, D), NEW new
  PROVE  Linked(EraseNode(s.graph, Use(old)), Substituted(s.body, old, <<"load", new>>))
<1> DEFINE g == s.graph
           e == s.body
           kept == s.there
           c == Substituted(e, old, <<"load", new>>)
           n == Use(old)
<1>1. GraphOf(e, kept, g) /\ IsSeq(e) /\ DOMAIN g.args = D /\ Linked(g, e)
  BY DEF CseLinked, CseState, SameKinds, IsSeq
<1>2. n \in D /\ Type(n) = "Use"
  BY DEF Loads, Use, Type
<1> HIDE DEF g, e, kept, n
<1>3. SameWrites(g, e, c)
  BY <1>1, SubstitutedWrites
<1> HIDE DEF c
<1>4. Len(e) \in Nat
  BY <1>1, LenProperties DEF IsSeq
<1>5. Linked(EraseNode(g, n), c)
  BY <1>1, <1>2, <1>3, <1>4, UseErasedLinked
<1> QED BY <1>5 DEF g, e, c, n

LEMMA VisitedLinked ==
  ASSUME NEW b, NEW D, NEW K, D \subseteq Nodes, NEW s, CseLinked(b, D, K, s), NEW u \in D
  PROVE  CseLinked(b, D, K, Visit(s, u))
<1>0. CseState(b, D, K, Visit(s, u)) /\ CseState(b, D, K, s) /\ Linked(s.graph, s.body)
  BY Visited DEF CseLinked
<1>1. CASE Type(u) # "Use" \/ s.body[OpOf(u)].kind # "load"
  BY <1>1 DEF Visit
<1>2. CASE Type(u) = "Use" /\ s.body[OpOf(u)].kind = "load"
  <2> DEFINE p == OpOf(u)
             same == {k \in DOMAIN s.map : MustAlias(s.body[p], s.body[k])}
             first == s.map[CHOOSE k \in same : TRUE]
  <2>1. p \in Loads(b, D)
    <3>1. u = Use(p)
      BY <1>2 DEF Nodes, Type, OpOf, Use
    <3>2. p \in 1 .. Len(s.body)
      BY <1>0, <1>2 DEF CseState, GraphOf
    <3>3. p \in 1 .. Len(b) /\ b[p].kind = "load"
      BY <1>0, <1>2, <3>2 DEF CseState, SameKinds
    <3> QED BY <3>1, <3>3 DEF Loads
  <2>2. CASE same = {}
    <3> DEFINE m == With(s.map, p, p)
               t == [s EXCEPT !.map = m]
    <3>1. Visit(s, u) = t
      BY <1>2, <2>2 DEF Visit
    <3>2. s = [body |-> s.body, repl |-> s.repl, there |-> s.there, graph |-> s.graph, map |-> s.map]
      BY <1>0 DEF CseState
    <3>3. t = [s EXCEPT !.map = m]
      OBVIOUS
    <3> HIDE DEF m, t
    <3>4. t.body = s.body /\ t.graph = s.graph
      BY <3>2, <3>3
    <3> QED BY <1>0, <3>1, <3>4 DEF CseLinked
  <2>3. CASE same # {}
    <3>1. Visit(s, u) = Merged(s, p, first)
      BY <1>2, <2>3 DEF Visit
    <3>2. first \in Loads(b, D)
      BY <1>0, <2>3 DEF CseState
    <3> HIDE DEF p, same, first
    <3> DEFINE t == Merged(s, p, first)
    <3>3. CASE ProperlyDominates(s.body, p, first)
      <4>1. t.body = Substituted(s.body, first, <<"load", p>>) /\ t.graph = EraseNode(s.graph, Use(first))
        BY <3>3 DEF Merged
      <4>2. Linked(EraseNode(s.graph, Use(first)), Substituted(s.body, first, <<"load", p>>))
        BY <3>2, ReplacedLinked
      <4> HIDE DEF t
      <4>3. Linked(t.graph, t.body)
        BY <4>1, <4>2
      <4> QED BY <1>0, <3>1, <4>3 DEF t, CseLinked
    <3>4. CASE ~ProperlyDominates(s.body, p, first) /\ ProperlyDominates(s.body, first, p)
      <4>1. t.body = Substituted(s.body, p, <<"load", first>>) /\ t.graph = EraseNode(s.graph, Use(p))
        BY <3>4 DEF Merged
      <4>2. Linked(EraseNode(s.graph, Use(p)), Substituted(s.body, p, <<"load", first>>))
        BY <2>1, ReplacedLinked
      <4> HIDE DEF t
      <4>3. Linked(t.graph, t.body)
        BY <4>1, <4>2
      <4> QED BY <1>0, <3>1, <4>3 DEF t, CseLinked
    <3>5. CASE ~ProperlyDominates(s.body, p, first) /\ ~ProperlyDominates(s.body, first, p)
      BY <1>0, <3>1, <3>5 DEF Merged, CseLinked
    <3> QED BY <3>3, <3>4, <3>5
  <2> QED BY <2>2, <2>3
<1> QED BY <1>1, <1>2

LEMMA VisitsLinked ==
  ASSUME NEW b, NEW D, NEW K, D \subseteq Nodes, NEW base, CseLinked(b, D, K, base), NEW us \in Seq(D)
  PROVE  CseLinked(b, D, K, Fold(Visit, base, us))
<1> DEFINE what == <<"cse", us>>
           n == Len(us)
           Holds(j) == CseLinked(b, D, K, Stepped(what, base, j))
           T == {j \in 0 .. n : ~Holds(j)}
<1>1. n \in Nat /\ IsSeq(us) /\ \A k \in 1 .. n : us[k] \in D
  BY AnySeq, ElementOfSeq
<1>2. \A s, j : StepOf(what, s, j) = Visit(s, us[j])
  BY DEF StepOf
<1>3. Stepped(what, base, 0) = base
  BY SteppedStart
<1>4. Fold(Visit, base, us) = Stepped(what, base, n)
  BY <1>1, VisitsFold
<1> HIDE DEF n, what
<1>5. Holds(0)
  BY <1>3
<1>6. ASSUME NEW j \in Nat, j + 1 \in 0 .. n, Holds(j) PROVE Holds(j + 1)
  <2> DEFINE s == Stepped(what, base, j)
             t == Stepped(what, base, j + 1)
             u == us[j + 1]
  <2>1. t = Visit(s, u)
    BY <1>2, SteppedNext
  <2>2. u \in D
    BY <1>1, <1>6
  <2>3. CseLinked(b, D, K, s)
    BY <1>6
  <2> HIDE DEF s, t, u
  <2>4. CseLinked(b, D, K, t)
    BY <2>1, <2>2, <2>3, VisitedLinked
  <2> QED BY <2>4 DEF t
<1> HIDE DEF Holds
<1>7. T = {}
  <2> SUFFICES ASSUME T # {} PROVE FALSE
    OBVIOUS
  <2>1. T \in SUBSET Nat
    BY <1>1
  <2>2. PICK l \in T : \A m \in T : l <= m
    BY <2>1, LeastExists
  <2>3. l # 0 /\ l \in Nat /\ l \in 0 .. n /\ ~Holds(l)
    BY <1>1, <1>5, <2>2
  <2>4. l - 1 \in Nat /\ l - 1 \in 0 .. n /\ l - 1 \notin T /\ (l - 1) + 1 = l
    BY <1>1, <2>2, <2>3
  <2>5. Holds(l - 1)
    BY <2>4
  <2> QED BY <1>6, <2>3, <2>4, <2>5
<1>8. Holds(n)
  BY <1>1, <1>7
<1> QED BY <1>4, <1>8 DEF Holds

LInv == Linked(graph, body)

LEMMA OptimizeUseLinked ==
  ASSUME IInv, LInv, OptimizeUse
  PROVE  LInv'
<1> DEFINE n == Current
           m == Len(body)
           d == Dominator(graph, n)
           op == body[OpOf(n)]
           to == Nearest(n)
           g == graph
           h == graph'
<1>1. /\ phase = "optimize" /\ FirstWith(UseMoves) /\ h = SetArgument(g, n, 1, to) /\ UNCHANGED <<body, there>>
  BY DEF OptimizeUse, Running
<1>2. UseMoves(n)
  BY <1>1, FirstUse DEF IInv
<1>3. GraphOf(body, there, g) /\ Sound(g, {}) /\ IsGraph(g) /\ m \in Nat /\ \A x \in DOMAIN g.args : OpOf(x) <= m
  BY <1>1, LenProperties DEF IInv, GraphOf, Sound, IsSeq
<1>4. n \in Live(g) /\ Type(n) = "Use"
  BY <1>2, <1>3, UseMovesIs
<1>5. to = GetDef(g, body, d, op) /\ Linked(g, body) /\ d = Dominator(g, n)
  BY DEF Nearest, LInv
<1> HIDE DEF n, to, g, h, m, op, d
<1>6. n \in DOMAIN g.args /\ d \in Cores(g) /\ NodeFine(g, n) /\ Settled(g, n) /\ n # Root /\ Arity(n) = 1 /\ ~IsCore(n)
      /\ Live(g) \subseteq DOMAIN g.args /\ None \notin DOMAIN g.args
  <2>1. n \in DOMAIN g.args /\ d \in Cores(g)
    BY <1>3, <1>4, <1>5, UseDominator
  <2>2. Live(g) \subseteq DOMAIN g.args /\ None \notin DOMAIN g.args
    BY <1>3, GraphTypes
  <2> QED BY <1>3, <1>4, <2>1, <2>2 DEF Sound, Root, Type, Arity, IsCore, Core
<1>7. d \in Live(g) /\ IsCore(d)
  <2>1. g.dom[n] = None /\ 1 \in DOMAIN g.args[n]
    BY <1>6 DEF NodeFine
  <2>2. d = g.args[n][1]
    BY <1>5, <1>6, <2>1 DEF Dominator
  <2>3. d \in Range(g.args[n])
    BY <2>1, <2>2 DEF Range
  <2> QED BY <1>4, <1>5, <1>6, <2>3 DEF Linked, ArgumentsLive, Cores
<1>8. to \in Live(g) /\ to \in Cores(g)
  <2>1. PICK w : IsWalk(w, g, Stops(g, body, op), DOMAIN g.args) /\ \A x : GetDef(g, body, x, op) = w[x]
    BY <1>3, GetDefWalks
  <2>2. to = w[d]
    BY <1>5, <2>1
  <2>3. w[d] \in Live(g)
    BY <1>3, <1>5, <1>7, <2>1, WalkLive
  <2>4. d \in DOMAIN g.args
    BY <1>6 DEF Cores
  <2>5. to \in DOMAIN g.args /\ IsCore(to)
    BY <1>3, <1>5, <1>7, <2>4, DefFound
  <2> QED BY <2>2, <2>3, <2>5 DEF Cores
<1>9. IsSet(g, {}, n, 1, to, h)
  <2>1. 1 \in DOMAIN g.args[n] /\ MayUse(n, to) /\ to \in DOMAIN g.args /\ to # None
    BY <1>6, <1>8 DEF NodeFine, MayUse, Before, Cores
  <2>2. CanSet(g, {}, n, 1, to)
    BY <1>3, <1>4, <1>6, <2>1 DEF CanSet
  <2> QED BY <1>1, <2>2, OneSet
<1>10. IsMoved(g, n, to, h)
  BY <1>3, <1>4, <1>6, <1>8, <1>9, FiniteNodes DEF IsSet, IsMoved
<1>11. SameCores(g, h) /\ Live(h) = Live(g) /\ h.pdom = g.pdom
  BY <1>9, <1>10, MovedSame DEF IsSet, SameNodes, Live
<1>12. ArgumentsLive(h)
  <2> SUFFICES ASSUME NEW u \in Live(h), NEW a \in Range(h.args[u]) PROVE a \in Live(h)
    BY DEF ArgumentsLive
  <2>1. CASE u = n
    <3>1. DOMAIN h.args[n] = {1} /\ h.args[n][1] = to
      BY <1>6, <1>9 DEF IsSet, NodeFine
    <3> QED BY <1>8, <1>11, <2>1, <3>1 DEF Range
  <2>2. CASE u # n
    <3>1. u \in Live(g) /\ h.args[u] = g.args[u]
      BY <1>6, <1>9, <1>11, <2>2 DEF IsSet
    <3> QED BY <1>5, <1>11, <3>1 DEF Linked, ArgumentsLive
  <2> QED BY <2>1, <2>2
<1>13. SameWrites(g, body, body)
  BY DEF SameWrites
<1>14. Linked(h, body)
  BY <1>5, <1>11, <1>12, <1>13, LinkedSame
<1> QED BY <1>1, <1>14 DEF LInv, h

LEMMA FoldLoadLinked ==
  ASSUME IInv, LInv, FoldLoad
  PROVE  LInv'
<1> DEFINE n == Current
           p == OpOf(n)
           value == <<"val", OpOf(graph.args[n][1])>>
           c == Substituted(body, p, value)
<1>1. FirstWith(LoadFolds) /\ body' = c /\ graph' = EraseNode(graph, n)
  BY DEF FoldLoad
<1>2. LoadFolds(n)
  BY <1>1, FirstFold DEF IInv
<1> HIDE DEF n, value
<1>3. GraphOf(body, there, graph) /\ IsGraph(graph) /\ IsSeq(body) /\ Len(body) \in Nat
  BY LenProperties DEF IInv, GraphOf, Sound, IsSeq
<1>4. n \in DOMAIN graph.args /\ Type(n) = "Use"
  BY <1>2, <1>3, LiveNode DEF LoadFolds
<1>5. SameWrites(graph, body, c)
  BY <1>3, SubstitutedWrites
<1> HIDE DEF c
<1>6. Linked(EraseNode(graph, n), c)
  BY <1>3, <1>4, <1>5, UseErasedLinked DEF LInv
<1> QED BY <1>1, <1>6 DEF LInv

LEMMA EraseDeadStoreLinked ==
  ASSUME IInv, LInv, EraseDeadStore
  PROVE  LInv'
<1> DEFINE n == Current
           next == NextDef(n)
           g == graph
           b == body
           h == EraseNode(g, n)
<1>1. FirstWith(StoreDies) /\ graph' = h /\ body' = body
  BY DEF EraseDeadStore
<1>2. StoreDies(n)
  BY <1>1, FirstDead DEF IInv
<1>3. GraphOf(b, there, g) /\ Sound(g, {}) /\ IsGraph(g) /\ Len(b) \in Nat /\ (\A x \in DOMAIN g.args : OpOf(x) <= Len(b)) /\ Linked(g, b)
  BY LenProperties DEF IInv, LInv, GraphOf, Sound, IsSeq
<1>4. n \in Live(g) /\ n \in DOMAIN g.args /\ Type(n) = "Def" /\ NextDef(n) # None /\ MustAlias(b[OpOf(n)], b[OpOf(next)])
  BY <1>2, <1>3, LiveNode DEF StoreDies
<1>5. IsFiniteSet(DOMAIN g.args)
  BY <1>3, FiniteNodes
<1>6. Users(g, n) = {next} /\ Type(next) = "Def"
  <2> DEFINE U == Users(g, n)
  <2>1. Cardinality(U) = 1 /\ (\A u \in U : Type(u) = "Def") /\ next = CHOOSE u \in U : TRUE
    BY <1>4 DEF NextDef
  <2>2. U \subseteq DOMAIN g.args
    <3>1. n # None
      BY <1>3, <1>4, GraphTypes
    <3> QED BY <1>3, <1>4, <3>1, UsersAre
  <2>3. IsFiniteSet(U)
    BY <1>5, <2>2, FS_Subset
  <2> HIDE DEF U, next
  <2>4. \E x : U = {x}
    BY <2>1, <2>3, FS_Singleton
  <2> QED BY <2>1, <2>4 DEF U
<1> HIDE DEF n, next, g, b, h
<1>7. IsBypassed(g, n, next, h)
  BY <1>3, <1>4, <1>5, <1>6, DefErased DEF h
<1>8. Alike(b, n, next)
  BY <1>4 DEF Alike, MustAlias, MayAlias
<1>9. Linked(h, b)
  BY <1>3, <1>7, <1>8, LinkedBypassed DEF CanBypass
<1> QED BY <1>1, <1>9 DEF LInv, b

LEMMA LoadCSELinked ==
  ASSUME IInv, LInv, LoadCSE
  PROVE  LInv'
<1> DEFINE n == Current
           s == CseAt(n)
           D == DOMAIN graph.args
<1>1. phase = "optimize" /\ FirstWith(LoadsMerge) /\ body' = s.body /\ graph' = s.graph
  BY DEF LoadCSE, Running
<1>2. LoadsMerge(n)
  BY <1>1, FirstMerge DEF IInv
<1> HIDE DEF n
<1>3. /\ CseUsers(n) \in Seq(D) /\ D \subseteq Nodes /\ CseState(body, D, there, CseStart)
      /\ s = Fold(Visit, CseStart, CseUsers(n)) /\ CseStart.graph = graph /\ CseStart.body = body
  BY <1>1, <1>2, CseBegins
<1>4. CseLinked(body, D, there, CseStart)
  BY <1>3 DEF CseLinked, LInv
<1> HIDE DEF s, D
<1>5. CseLinked(body, D, there, s)
  BY <1>3, <1>4, VisitsLinked
<1> QED BY <1>1, <1>5 DEF CseLinked, LInv

LEMMA LinkedHolds == Spec => []LInv
<1>1. Init => LInv
  BY RootLinked DEF Init, LInv
<1>2. IInv /\ LInv /\ [Next]_vars => LInv'
  <2> SUFFICES ASSUME IInv, LInv, [Next]_vars PROVE LInv'
    OBVIOUS
  <2>1. CASE Written
    <3>1. graph' = RootOnly
      BY <2>1 DEF Written, IInv, optVars
    <3> QED BY <3>1, RootLinked DEF LInv
  <2>2. CASE Build
    <3>1. graph' = BuildMemorySSA(body, there) /\ body' = body /\ Buildable(body, there)
      BY <2>2 DEF Build, IInv
    <3> QED BY <3>1, LinkedBuilt DEF LInv
  <2>3. CASE OptimizeUse
    BY <2>3, OptimizeUseLinked
  <2>4. CASE FoldLoad
    BY <2>4, FoldLoadLinked
  <2>5. CASE EraseDeadStore
    BY <2>5, EraseDeadStoreLinked
  <2>6. CASE LoadCSE
    BY <2>6, LoadCSELinked
  <2>7. CASE Write \/ PassEnds \/ Execute \/ Ended \/ UNCHANGED vars
    <3>1. UNCHANGED <<graph, body>>
      BY <2>7 DEF Write, PassEnds, Execute, Start, Load, Store, Overwrite, Branch, End, Finish, RunOnly, Ended, vars, optVars
    <3> QED BY <3>1 DEF LInv
  <2> QED BY <2>1, <2>2, <2>3, <2>4, <2>5, <2>6, <2>7 DEF Next, Optimize
<1> QED BY <1>1, <1>2, InvHolds, PTL DEF Spec

\* No live node of the graph has an erased one among its arguments, whatever the
\* body: not when the graph is built (the Phi of a loop without a Def is taken out
\* again), not when a use moves, past Defs that were erased meanwhile and are still
\* in dominator fields, and not when a dead store is erased (memory_ssa.cpp,
\* memory_rewrites.cpp).
THEOREM ArgumentsLiveHold == Spec => []NothingDangles
<1>1. LInv => NothingDangles
  BY DEF LInv, Linked, ArgumentsLive, Live, NothingDangles
<1> QED BY <1>1, LinkedHolds, PTL
=============================================================================
